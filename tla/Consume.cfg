SPECIFICATION Spec
CONSTANTS
  Workers = {w1, w2}
  NoOwner = NoOwner
  MaxSeq = 2
  Shards <- OneShard
  Parents <- NoParents
  Undecodable <- SecondUndecodable
  DeadLetterEnabled = TRUE
  Backlog <- OneThere
  MaxRecords = 2
  CheckpointAttempts = 2
  Allotments <- ConsumeScenarios
INVARIANTS TypeOK TokenIsCurrent NoLoss NoRedelivery
PROPERTIES CheckpointsNeverRegress Implements
