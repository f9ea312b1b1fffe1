CONSTANTS
  Dispatchers = {d1, d2}
  NoOne = NoOne
  MaxForeign = 2
  SnapshotMayFail = TRUE
  PollMayFail = TRUE
  AnswerMayBeLost = TRUE
  EarlyCompletion = TRUE
  MaxAge = 0
  Provisioning = 0
  LongestRun = 0
SPECIFICATION Spec
SYMMETRY Symmetry
INVARIANTS ClaimIsFree OnlyNewRuns
CHECK_DEADLOCK FALSE
