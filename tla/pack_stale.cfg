SPECIFICATION Spec
CONSTANTS
  main = main
  extra = extra
  Parts = {p1}
  Artifacts = {main}
  Default = main
  Versions = {v1, v2}
  Generated <- OwnFiles
  AlwaysRepack = FALSE
  Conditional = TRUE
  HonestClock = TRUE
  Used = {"prime", "pack"}
  WhileRunning = FALSE
PROPERTIES SkippedIsCurrent
