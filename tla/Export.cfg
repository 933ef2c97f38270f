SPECIFICATION FairSpec
CONSTANTS
  N = 3
  Sizes <- SeveralSizes
  Keys <- OneKey
  MaxRecords = 2
  MaxBytes = 3
  MaxPutAttempts = 3
  MaxSends = 2
  MaxRepeats = 1
INVARIANTS TypeOK AcknowledgedIsStored CopiesBounded CallFits
PROPERTY EventuallyEnds
CHECK_DEADLOCK FALSE
