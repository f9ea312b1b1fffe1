CONSTANTS
  Installations = {i1, i2}
  Waiters = {w1, w2}
  NoOne = NoOne
  LateEvents = FALSE
  Unreliable = TRUE
  MaxSenders = 2
SPECIFICATION Spec
SYMMETRY Symmetry
INVARIANTS ChannelsExact SuccessIsTrue
CHECK_DEADLOCK FALSE
