SPECIFICATION FairSpec
CONSTANTS
  NBlocks = 5
  Obj <- MixedObj
  BlockOf <- MixedBlockOf
  Kind <- MixedKind
  HBLK_OBJS <- MixedHBLK_OBJS
  Graphs <- MixedGraphs
  RootSets <- MixedRootSets
  HintSets <- MixedHintSets
  InitialMarkStackSize = 3
  Discards = 1
  MaxMarkStackSize = 6
  MaxGcNo = 2
INVARIANTS HintedMarkComplete FullMarkComplete MarkPrecise SeedInvariants
PROPERTIES ImplementsMarkSpec CollectionTerminates
CHECK_DEADLOCK FALSE
