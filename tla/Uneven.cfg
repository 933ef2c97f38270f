SPECIFICATION FairSpec
CONSTANTS
  NoOwner = 0
  Workers <- ThreeWorkers
  Shards = {1, 2, 3, 4}
  LeaseDuration = 2
  HeartbeatInterval = 1
  InitialOwner <- TwoTwoNone
  Scenarios <- Calm
PROPERTIES EvenSplit
