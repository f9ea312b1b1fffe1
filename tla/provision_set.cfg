CONSTANTS
  Platforms = {p1, p2}
  Attempts = 2
  DeleteAttempts = 3
  StopMayCome = TRUE
  AnswerMayBeLost = TRUE
SPECIFICATION FairSpec
INVARIANTS GivenAreUp
PROPERTIES KeepsPromise CallReturns CancelEndsCall
CHECK_DEADLOCK FALSE
