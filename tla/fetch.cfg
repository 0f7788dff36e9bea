SPECIFICATION Spec
CONSTANTS
  Nobody = nobody
  Runs = {r1, r2}
  Builds = 2
INVARIANTS TypeOK ExecutesInOwnSession NeverRefused SessionsTornDown
PROPERTIES RunsEnd ServiceGoesAway
CHECK_DEADLOCK FALSE
