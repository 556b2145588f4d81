SPECIFICATION FairSpec
CONSTANTS
  NumThreads = 3
  Numels <- TwoFour
  StopAllowed = TRUE
INVARIANTS
  Consistent
  JobsInLockstep
  FinishedMeansComplete
PROPERTIES
  ImplementsService
  WaitReturnsLate
  JobsEnd
CHECK_DEADLOCK FALSE
