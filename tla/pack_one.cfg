SPECIFICATION Spec
CONSTANTS
  main = main
  extra = extra
  Parts = {p1}
  Artifacts = {main}
  Default = main
  Versions = {v1, v2}
  Generated <- WithAsset
  AlwaysRepack = FALSE
  Conditional = TRUE
  HonestClock = TRUE
  Used = {"build", "prime", "pack"}
  WhileRunning = TRUE
SYMMETRY Symmetric
INVARIANTS TypeOK PackedIsFresh
PROPERTIES SkipIsSound SkippedAssetIsCurrent RepackOnlyWhenChanged
