SPECIFICATION Spec
CONSTANTS
  Workers = {w1, w2}
  NoOwner = NoOwner
  Shards <- Split
  Parents <- SplitParents
  OrphanReapThreshold = 2
  Allotments <- OmitAndFailOrCrash
INVARIANTS TypeOK OnlyTrimmedReaped NoSecondReading ChildAfterListedParent
SYMMETRY Symmetry
