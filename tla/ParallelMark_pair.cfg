SPECIFICATION FairSpec
CONSTANTS
  Initiator = I
  Helpers = {h1}
  Obj <- MCObj
  NoObj = "none"
  Graphs <- MCGraphs
  Seeds <- MCSeeds
  Weight <- MCWeight
  MarkStackSize = 2
  LocalSize = 6
  Discards = 1
  ENTRIES_TO_GET = 2
  GC_markers = 2
  MaxMarkNo = 3
INVARIANTS NothingLost LeavingMeansDone MarkingComplete
PROPERTIES CursorAdvances ImplementsMarkSpec MarkingEnds
CHECK_DEADLOCK FALSE
