\* The page at HEAP_START belongs to somebody else when heap_init runs.
CONSTANTS
  HEADER = 2
  BLOCK_MIN_CAPACITY = 2
  REGION_MIN_SIZE = 8
  HEAP_START = 4
  PAGE = 4
  MemSize = 28
  SIZE_MOD = 64
  Queries = {0, 3, 7, 63}
  InitSizes = {0, 9}
  OtherPages = {4, 12}
SPECIFICATION Spec
INVARIANT
  SuccessfulInitIsUsable
