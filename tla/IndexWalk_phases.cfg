SPECIFICATION FairSpec
CONSTANTS
  Marker = {m1, m2}
  Heaps <- MCHeaps
  BOTTOM_SZ = 4
  MAX_JUMP = 3
  PARAM_NUM_HBLKS_PER_STEP = 1
  MAX_STEAL = 2
  LOCAL_MARK_STACK_SIZE = 4
  GC_mark_stack_size = 5
  Discards = 1
  INT_MAX = 7
CHECK_DEADLOCK FALSE
INVARIANTS
  TypeOK
  NoBlockForgotten
  LocalStackFits
PROPERTIES
  PhasesEnd
