SPECIFICATION FairSpec
CONSTANTS
  Workers = {w1}
  NoOwner = NoOwner
  Shards <- Split
  Parents <- SplitParents
  OrphanReapThreshold = 3
  Allotments <- Nothing
PROPERTY TrimmedIsDrained
