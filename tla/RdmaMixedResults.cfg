SPECIFICATION Spec
CONSTANTS
  Workers = {w1, w2}
  PktsPerMsg = 4
  Jobs <- OneMessage
  LateDuplicates = FALSE
  LossyUplinks = {}
  MaxInFlight = 8
INVARIANTS
  ResultsExact
