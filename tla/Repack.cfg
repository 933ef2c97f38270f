SPECIFICATION Spec
CONSTANTS
  N = 4
  Inputs <- AllInputs
  MaxRecordSize = 6
  MaxAttr = 2
  MaxAttempts = 2
  ShortKey = 1
  LongKey = 2
  MaxErrors = 1
INVARIANTS TypeOK Regrouped Additive Accounted RecordsFit OneKeyPerTuple InOrder WellFormed OnlyUnfitDropped
CHECK_DEADLOCK FALSE
