SPECIFICATION Spec
CONSTANTS
  Nobody = nobody
  Runs = {r1, r2}
  Builds = 1
INVARIANT ExecutesInLiveSession
CHECK_DEADLOCK FALSE
