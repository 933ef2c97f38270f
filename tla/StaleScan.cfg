SPECIFICATION Spec
CONSTANTS
  Workers = {w1}
  NoOwner = NoOwner
  Shards <- Split
  Parents <- SplitParents
  OrphanReapThreshold = 3
  Allotments <- MissOnce
INVARIANT ChildAfterParent
