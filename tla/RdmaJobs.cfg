SPECIFICATION FairSpec
CONSTANTS
  Workers = {w1, w2}
  PktsPerMsg = 2
  Jobs <- OneThenTwo
  LateDuplicates = FALSE
  LossyUplinks = {w1}
  MaxInFlight = 2
INVARIANTS
  Consistent
  ResultsExact
  PartsInOrder
PROPERTIES
  AllJobsComplete
