SPECIFICATION FairSpec
CONSTANTS
  t1 = t1
  t2 = t2
  Triggers <- MCTriggers
  RepoTypes = {"mobile", "desktop", "other"}
  Lists <- MCLists
INVARIANTS
  SlotExclusive MatrixMatches MatrixBuilds FullSuiteSent NoServerKept RetryComplements
PROPERTIES
  PassesEnd
CHECK_DEADLOCK FALSE
