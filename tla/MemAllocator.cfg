\* Two-page minimal regions in room for three of them; the rest of the process
\* may hold the page at HEAP_START and the one behind the first region.  The
\* queries: less than a minimal block, one that leaves a rest too small to split
\* off, one larger than a minimal region's block, one whose size wraps.
CONSTANTS
  HEADER = 2
  BLOCK_MIN_CAPACITY = 2
  REGION_MIN_SIZE = 8
  HEAP_START = 4
  PAGE = 4
  MemSize = 28
  SIZE_MOD = 64
  Queries = {0, 3, 7, 63}
  InitSizes = {0, 9}
  OtherPages = {4, 12}
SPECIFICATION FairSpec
INVARIANTS
  BlocksTileHeap
  LivePointersBacked
  NoLostBlock
  GrowthSuffices
  WildOnlyWhenDegraded
  FreeReadsHeaders
  TermReleasesAll
  HeapListComplete
  SearchPassesOnlyUnfit
PROPERTIES
  UnmapsWholePages
  HeapPromise
  CallsReturn
