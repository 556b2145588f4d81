SPECIFICATION FairSpec
CONSTANTS
  Workers = {w1, w2}
  N = 2
  Slices <- ExtraThenOneThenThree
  ShortIds = 2
  FirstBatchSafe = TRUE
  MaxInFlight = 2
INVARIANTS
  Consistent
  ResultsExact
  OnePacketPerSlot
  TimersResendOutstanding
PROPERTIES
  AllJobsComplete
