SPECIFICATION Spec
CONSTANTS
  N = 2
  Sizes <- OneSize
  Keys <- OneKey
  MaxRecords = 2
  MaxBytes = 3
  MaxPutAttempts = 2
  MaxSends = 1
  MaxRepeats = 0
INVARIANT KeyOrder
CHECK_DEADLOCK FALSE
