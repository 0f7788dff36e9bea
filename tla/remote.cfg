SPECIFICATION Spec
CONSTANTS
  j1 = j1
  j2 = j2
  c1 = c1
  c2 = c2
  c3 = c3
  w1 = w1
  w2 = w2
  Contents = {c1, c2, c3}
  Git <- Shallow
  Head <- Heads
  Work <- Files
  Hash <- SameId
  Jobs = {j1, j2}
  Arch <- OwnArch
  Name <- OwnFile
INVARIANTS TypeOK TimeoutIsRecoverable BuildsWhatIsThere
PROPERTIES ReturnsWhenStopped ResultsAreKept OnlyOnPurpose RunEnds
