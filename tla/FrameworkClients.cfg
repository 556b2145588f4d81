SPECIFICATION FairSpec
CONSTANTS
  NumJobs = 3
  Others <- MCOthers
  Buffers <- MCBuffers
  Requests <- MCRequests
  MaxConnects = 1
  DataTypes <- MCDataTypes
  Operations <- MCOperations
  Works <- MCWorks
INVARIANTS
  Consistent
  DoneHoldsSum
  ReturnedHoldsSum
PROPERTIES
  CallsEnd
CHECK_DEADLOCK FALSE
