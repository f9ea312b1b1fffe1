CONSTANTS
  Requests = {r1, r2}
  Cleanups = {c1}
  Platforms = {p1, p2}
  TestPlatforms = {all}
  MaxCrashes = 0
  AgesInFlight = FALSE
SPECIFICATION Spec
SYMMETRY Symmetry
INVARIANTS TypeOK SingleFlight TrackedIsCurrent SetsComplete EveryServerAccounted
CHECK_DEADLOCK FALSE
