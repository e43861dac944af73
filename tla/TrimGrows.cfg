CONSTANTS
  SIZE_SZ = 1
  MALLOC_ALIGNMENT = 2
  MIN_CHUNK_SIZE = 4
  NSMALLBINS = 4
  LADDER <- SmallLadder
  LAST_BIN = 6
  PageSize = 16
  MAX_FAST_SIZE = 5
  FASTBIN_CONSOLIDATION_THRESHOLD = 12
  TCACHE_COUNT = 1
  TCACHE_BINS = 1
  Requests = {1, 20}
  CallocRequests = {}
  ReallocRequests = {1, 40}
  AlignedRequests = {1}
  Alignments = {8}
  TrimPads = {0}
  Options <- SomeOptions
  MaxLive = 1
  InitialBreaks = {16}
  BrkLimit = 80
  ForeignSizes = {1, 16}
  MaxAsides = 1
  MapPages = {6, 7}
  DEFAULT_MMAP_THRESHOLD = 12
  DEFAULT_MMAP_THRESHOLD_MAX = 48
  DEFAULT_MMAP_MAX = 1
  DEFAULT_TRIM_THRESHOLD = 24
  DEFAULT_TOP_PAD = 0
  DEFAULT_MXFAST = 3
  MMAP_AS_MORECORE_SIZE = 16
  HEAP_MAX_SIZE = 96
  TCACHE_STRUCT = 1
  MAX_ITERS = 2
  MayRefuse = TRUE
SPECIFICATION Spec
PROPERTIES
  TrimReleases
