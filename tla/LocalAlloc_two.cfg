SPECIFICATION FairSpec
CONSTANTS
  Threads = {t1, t2}
  None = None
  Blocks = {b1, b2}
  Index = {i1, i2}
  Stale = FALSE
  Direct = 1
INVARIANTS LiveIsNotFree OneOwner NoBuilderInCollection LocalListsMarked
PROPERTY CollectorGoesOn
