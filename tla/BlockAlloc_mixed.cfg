SPECIFICATION FairSpec
CONSTANTS
  Sections <- MCSections
  BlackLists <- MCBlackLists
  MAX_JUMP = 2
  UNIQUE_THRESHOLD = 2
  HUGE_THRESHOLD = 4
  FL_COMPRESSION = 2
  MAX_BLACK_LIST_ALLOC = 2
  BL_LIMIT = 1
  Sizes = {1, 2, 4}
  Failing = {"section", "advance", "drop"}
INVARIANTS
  TypeOK
  HeadersDescribeBlocks
  FreeListsConsistent
  NoAdjacentFree
  FailsOnlyWhenFull
PROPERTIES
  AllocationReturns
