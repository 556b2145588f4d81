SPECIFICATION Spec
CONSTANTS
  N = 3
  Ms = 2
  Timeout = 1
  Threshold = 1
  Increment = 1
  MaxTime = 8
  MaxReports = 5
INVARIANTS
  Consistent
  ListInOrder
  BackoffIsPaid
PROPERTIES
  ImplementsDeadlines
