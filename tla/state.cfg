SPECIFICATION Spec
CONSTANTS
  Execs = {e1, e2}
  Dirs = {d1, d2}
  NoDir = nodir
  Paths <- Flat
  Values = {v1, dict}
  Dict = dict
  Debug = {e2}
  Limit = 2
INVARIANT TypeOK
PROPERTIES NoOverwrite KeepsValuesApart
SYMMETRY Symmetry
CHECK_DEADLOCK FALSE
