CONSTANTS
  c1 = c1
  c2 = c2
  c3 = c3
  Threads = {t1, t2}
  Chunks <- SomeChunks
  NULL = NULL
  Junk = Junk
  TCACHE_COUNT = 1
  BorderChunk = c1
  MaxCalls = 6
SPECIFICATION FairSpec
INVARIANTS
  OneOwner
  ExitKeepsNothing
  NeverAborts
PROPERTIES
  CallsReturn
CHECK_DEADLOCK FALSE
