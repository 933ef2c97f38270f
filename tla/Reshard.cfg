SPECIFICATION FairSpec
CONSTANTS
  Workers = {w1, w2}
  NoOwner = NoOwner
  MaxSeq = 1
  Shards <- Split
  Parents <- SplitParents
  Undecodable <- AllDecodable
  DeadLetterEnabled = TRUE
  Backlog <- OneThere
  MaxRecords = 1
  CheckpointAttempts = 2
  Allotments <- ReshardScenarios
INVARIANTS ChildAfterParent
PROPERTIES EventuallyProcessed EventuallyFinished
