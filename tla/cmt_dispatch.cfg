CONSTANTS
  Dispatchers = {d1, d2}
  NoOne = NoOne
  MaxForeign = 0
  SnapshotMayFail = FALSE
  PollMayFail = FALSE
  AnswerMayBeLost = FALSE
  EarlyCompletion = TRUE
  MaxAge = 3
  Provisioning = 2
  LongestRun = 1
SPECIFICATION FairSpec
INVARIANTS RightRun NoTeardownUnderTest
PROPERTIES EntryRemoved
CHECK_DEADLOCK FALSE
