SPECIFICATION FairSpec
CONSTANTS
  w1 = w1
  w2 = w2
  Workers = {w1, w2}
  Jobs <- FloatsThenInts
  PacketNumel = 2
  MaxOutstanding = 2
  MaxInt = 127
  InPlace = TRUE
  Backends = {"dummy", "switch"}
  PPPs = {"quantizer", "bypass"}
INVARIANTS
  Consistent
  SumsFit
  ResultsWithinRounding
  ResendIsSame
PROPERTIES
  JobsComplete
CHECK_DEADLOCK FALSE
