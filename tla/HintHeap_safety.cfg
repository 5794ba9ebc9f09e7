SPECIFICATION Spec
CONSTANTS
  Blocks = {b1, b2}
  Index = {i1, i2}
  Kinds <- BothKinds
  Parallel = TRUE
  Stale = TRUE
  HintedCollections = TRUE
  NoSlot = NoSlot
SYMMETRY Symmetry
INVARIANTS NoLiveReused FreeOnce EmptyMeansUnmarked
PROPERTY SweepKeepsMarked
