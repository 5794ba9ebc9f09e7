SPECIFICATION Spec
CONSTANTS
  NBlocks = 2
  Obj <- LargeObj
  BlockOf <- LargeBlockOf
  Kind <- LargeKind
  HBLK_OBJS <- LargeHBLK_OBJS
  Graphs <- LargeGraphs
  RootSets <- LargeRootSets
  HintSets <- LargeHintSets
  InitialMarkStackSize = 4
  Discards = 1
  MaxMarkStackSize = 4
  MaxGcNo = 2
INVARIANT FullMarkComplete
CHECK_DEADLOCK FALSE
