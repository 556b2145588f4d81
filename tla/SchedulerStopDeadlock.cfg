SPECIFICATION FairSpec
CONSTANTS
  NumThreads = 2
  Numels <- ThreeOne
  StopAllowed = TRUE
CHECK_DEADLOCK FALSE
PROPERTY
  StopReturns
