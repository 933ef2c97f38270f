SPECIFICATION FairSpec
CONSTANTS
  Shards = {s1, s2}
  NoShard = NoShard
  Budget <- OneOfEach
INVARIANTS TypeOK CleanMeansStopped CleanMeansReleased EveryoneAsked
PROPERTIES NoAddAtZero ShutdownReturns
CHECK_DEADLOCK FALSE
