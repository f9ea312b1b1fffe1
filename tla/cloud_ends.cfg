CONSTANTS
  Installations = {i1}
  Waiters = {w1}
  NoOne = NoOne
  LateEvents = TRUE
  Unreliable = TRUE
  MaxSenders = 5
SPECIFICATION FairSpec
PROPERTIES WaitsEnd SendersEnd
CHECK_DEADLOCK FALSE
