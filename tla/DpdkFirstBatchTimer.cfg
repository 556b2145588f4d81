SPECIFICATION Spec
CONSTANTS
  Workers = {w1, w2}
  N = 2
  Slices <- ThreeThenTwo
  ShortIds = 2
  FirstBatchSafe = FALSE
  MaxInFlight = 3
PROPERTY
  TimeoutsResend
