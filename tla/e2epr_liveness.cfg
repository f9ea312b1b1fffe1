CONSTANTS
  Requests = {r1}
  Cleanups = {c1}
  Platforms = {p1, p2}
  TestPlatforms = {all}
  MaxCrashes = 1
  AgesInFlight = TRUE
SPECIFICATION FairSpec
PROPERTIES NoServerLivesForever InProgressCleared
CHECK_DEADLOCK FALSE
