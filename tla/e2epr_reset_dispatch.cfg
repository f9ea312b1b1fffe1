CONSTANTS
  Requests = {r1}
  Cleanups = {c1}
  Platforms = {p1}
  TestPlatforms = {all}
  MaxCrashes = 0
  AgesInFlight = FALSE
SPECIFICATION FairSpec

PROPERTY NoDispatchAfterReset
CHECK_DEADLOCK FALSE
