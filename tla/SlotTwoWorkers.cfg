SPECIFICATION FairSpec
CONSTANTS
  Workers = {w1, w2}
  LastPkt = 2
  MaxInFlight = 2
INVARIANTS
  Consistent
  ResultsExact
  ShadowCopyHeld
  BroadcastOnce
PROPERTIES
  ImplementsStream
  JobCompletes
