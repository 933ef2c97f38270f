SPECIFICATION FairSpec
CONSTANTS
  NoOwner = 0
  Workers <- TwoWorkers
  Shards = {1, 2, 3}
  LeaseDuration = 2
  HeartbeatInterval = 1
  InitialOwner <- Unowned
  Scenarios <- OddOrDisturbed
INVARIANTS TypeOK
PROPERTIES StaleMeansSilent Settles
