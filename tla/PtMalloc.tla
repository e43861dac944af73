------------------------------ MODULE PtMalloc ------------------------------
(***************************************************************************)
(* malloc, calloc, free, realloc, memalign, malloc_trim and mallopt of     *)
(* labs/assignment-4-memory-allocator/docs/malloc-impl.c as a process with *)
(* one thread calls them (SINGLE_THREAD_P): one main arena, the thread's   *)
(* tcache, and chunks that are mapped on their own.  Every way through     *)
(* _int_malloc and sysmalloc that ends the search, and every turn of the   *)
(* loop over the unsorted chunks, is an action; what a call does once it   *)
(* has its chunk (Deliver) is part of the action that found it.  PtThreads *)
(* has the threads.                                                        *)
(*                                                                         *)
(* The kernel refuses sbrk and mmap whenever it likes, and whenever there  *)
(* is no room; the rest of the process may move the break between calls.   *)
(* A failed malloc_printerr or assertion leaves av.died set and no call    *)
(* goes on.  Requests beyond PTRDIFF_MAX fail before anything happens and  *)
(* are not made here.                                                      *)
(***************************************************************************)
EXTENDS ArenaCheck

CONSTANTS
  Requests, CallocRequests,          \* words the client asks for
  ReallocRequests, AlignedRequests,
  Alignments,
  TrimPads,
  Options,                           \* [param, value] the client may set
  MaxLive,                           \* blocks the client holds at most
  InitialBreaks,                     \* where the break starts
  ForeignSizes,                      \* steps of the break that others make
  MaxAsides,                         \* how often Mallopt and ForeignSbrk happen
  MapPages,                          \* page numbers mmap hands out
  MayRefuse,                         \* the kernel may refuse what it has room for
  DEFAULT_MMAP_THRESHOLD, DEFAULT_MMAP_THRESHOLD_MAX, DEFAULT_MMAP_MAX,
  DEFAULT_TRIM_THRESHOLD, DEFAULT_TOP_PAD, DEFAULT_MXFAST,
  MMAP_AS_MORECORE_SIZE,
  HEAP_MAX_SIZE,                     \* largest heap of another arena (arena.c)
  TCACHE_STRUCT,                     \* sizeof (tcache_perthread_struct)
  MAX_ITERS

\* What the client asks for is small enough for request2size, and a word of mallopt
\* is one of the parameters kept in mp_.
ASSUME MallocAssumption ==
  /\ Requests \cup CallocRequests \cup ReallocRequests \cup AlignedRequests \subseteq Nat
  /\ Alignments \subseteq Nat \ {0} /\ TrimPads \subseteq Nat
  /\ Options \subseteq [param : {"trim_threshold", "top_pad", "mmap_threshold",
                                 "n_mmaps_max", "max_fast"},
                       value : Nat]
  /\ InitialBreaks \subseteq Nat /\ ForeignSizes \subseteq Int /\ MapPages \subseteq Nat
  /\ MaxLive \in Nat /\ MaxAsides \in Nat /\ MayRefuse \in BOOLEAN
  /\ DEFAULT_MMAP_THRESHOLD \in Nat /\ DEFAULT_MMAP_THRESHOLD_MAX \in Nat
  /\ DEFAULT_MMAP_MAX \in Nat /\ DEFAULT_TRIM_THRESHOLD \in Nat
  /\ DEFAULT_TOP_PAD \in Nat
  /\ DEFAULT_MXFAST \in Nat /\ DEFAULT_MXFAST <= MAX_FAST_SIZE
  /\ MMAP_AS_MORECORE_SIZE \in Nat /\ HEAP_MAX_SIZE \in Nat
  /\ TCACHE_STRUCT \in Nat /\ MAX_ITERS \in Nat

\* The break starts below its limit and others only raise it, the kernel maps pages
\* above it, a page is larger than the smallest chunk, and _mid_memalign has raised
\* every alignment to MINSIZE before _int_memalign sees it.
ASSUME KernelAssumption ==
  /\ InitialBreaks \subseteq 1 .. BrkLimit /\ ForeignSizes \subseteq Nat
  /\ \A n \in MapPages : n * PageSize > BrkLimit
  /\ PageSize >= MINSIZE + MALLOC_ALIGNMENT
  /\ \A n \in Alignments : n >= MINSIZE

VARIABLES
  av,          \* the main arena
  mmapped,     \* chunk with IS_MMAPPED |-> its size and prev_size fields
  maps,        \* pages that mmap has handed out
  live,        \* chunk the client holds |-> words it asked for
  call,        \* the call under way
  asides       \* how often Mallopt and ForeignSbrk have happened

vars == <<av, mp, mmapped, maps, live, call, asides>>

Idle == [pc |-> "idle"]
Op(kind, mem, align, bytes) == [kind |-> kind, mem |-> mem, align |-> align, bytes |-> bytes]

\* _int_malloc is called for a chunk of nb words; init when it is for the tcache.
Search(op, init, nb) ==
  [pc |-> "bins", op |-> op, init |-> init, nb |-> nb, idx |-> bin_index(nb),
   return_cached |-> FALSE, iters |-> 0, tried_mmap |-> FALSE]

\* It has returned chunk p.
Got(op, init, p) == [pc |-> "got", op |-> op, init |-> init, p |-> p]

\* Nothing goes on after malloc_printerr or a failed assertion.
At(pc) == ~av.died /\ call.pc = pc

mem_of(p) == p + CHUNK_HDR_SZ
IsMmapped(p) == p \in DOMAIN mmapped

----------------------------------------------------------------------------
\* The kernel's mappings.

PagesOf(addr, size) == addr \div PageSize .. (addr + size - 1) \div PageSize
FreeMaps(size) == {n \in MapPages : PagesOf(n * PageSize, size) \subseteq MapPages \ maps}
\* Of the places that are free, the kernel takes the lowest.
Place(size) == Min(FreeMaps(size)) * PageSize

PowerOf2(x) == \E k \in 0 .. x : x = 2 ^ k \/ x = 0

\* munmap_chunk: the pages of p, and the test it makes of them.
BlockStart(p) == p - mmapped[p].prev_size
BlockSize(p) == mmapped[p].prev_size + mmapped[p].sz
BlockOK(p) ==
  /\ BlockStart(p) % PageSize = 0 /\ BlockSize(p) % PageSize = 0
  /\ PowerOf2(mem_of(p) % PageSize)

\* A slip: what memalign has cut off a mapped chunk stays counted.
CountsRest(p, g) ==
  /\ mp' = [g EXCEPT !.n_mmaps = @ - 1, !.mmapped_mem = @ - mmapped[p].sz]
  /\ maps' = maps \ PagesOf(BlockStart(p), BlockSize(p))
  /\ mmapped' = Without(mmapped, {p})

munmap_chunk(p, g) ==
  /\ mp' = [g EXCEPT !.n_mmaps = @ - 1, !.mmapped_mem = @ - BlockSize(p)]
  /\ maps' = maps \ PagesOf(BlockStart(p), BlockSize(p))
  /\ mmapped' = Without(mmapped, {p})

----------------------------------------------------------------------------
\* What a call does with the chunk p it got.

\* The end of _int_realloc: p has newsize words, of which nb are kept.
FreeTail(a, p, newsize, nb) ==
  IF newsize - nb < MINSIZE
  THEN set_inuse_bit(set_head_size(a, p, newsize), p + newsize)
  ELSE _int_free(set_inuse_bit(set_head(set_head_size(a, p, nb),
                                        p + nb, newsize - nb, TRUE),
                               p + newsize),
                 p + nb, TRUE)

\* The aligned chunk inside p; its distance from p is 0 or room for a chunk.
AlignedIn(p, align) ==
  LET spot == ALIGN_UP(mem_of(p), align) - CHUNK_HDR_SZ
  IN  IF spot = p THEN p ELSE IF spot - p < MINSIZE THEN spot + align ELSE spot

FreeLead(a, p, newp) ==
  LET newsize == chunksize(a, p) - (newp - p)
  IN  IF newp = p THEN a
      ELSE _int_free(set_head_size(set_inuse_bit(set_head(a, newp, newsize, TRUE),
                                                 newp + newsize),
                                   p, newp - p),
                     p, TRUE)

FreeSpare(a, p, nb) ==
  LET size == chunksize(a, p)
  IN  IF size > nb + MINSIZE
      THEN _int_free(set_head_size(set_head(a, p + nb, size - nb, TRUE), p, nb), p + nb, TRUE)
      ELSE a

DeliverMalloc(op, p) ==
  /\ live' = With(live, p, op.bytes)
  /\ call' = Idle
  /\ UNCHANGED <<av, mmapped>>

\* _int_realloc got p: the chunk behind the old one is joined to it, any other
\* gets a copy.
DeliverRealloc(op, p) ==
  LET oldp == op.mem
      joined == ~IsMmapped(p) /\ p = next_chunk(av, oldp)
  IN  /\ av' = IF joined
               THEN FreeTail(av, oldp, chunksize(av, oldp) + chunksize(av, p),
                             request2size(op.bytes))
               ELSE _int_free(av, oldp, TRUE)
      /\ live' = IF joined THEN [live EXCEPT ![oldp] = op.bytes]
                 ELSE With(Without(live, {oldp}), p, op.bytes)
      /\ call' = Idle
      /\ UNCHANGED mmapped

\* realloc of a mapped chunk got p for a copy; the old mapping goes next.
DeliverCopy(op, p) ==
  /\ live' = With(Without(live, {op.mem}), p, op.bytes)
  /\ call' = [pc |-> "unmap", op |-> op]
  /\ UNCHANGED <<av, mmapped>>

DeliverMemalign(op, p) ==
  LET newp == AlignedIn(p, op.align)
      nb == request2size(op.bytes)
      lead == FreeLead(av, p, newp)
  IN  /\ IF IsMmapped(p)
         THEN /\ mmapped' = With(Without(mmapped, {p}), newp,
                                 [sz |-> mmapped[p].sz - (newp - p),
                                  prev_size |-> mmapped[p].prev_size + (newp - p)])
              /\ UNCHANGED av
         ELSE /\ av' = FreeSpare(Checked(lead, chunksize(lead, newp) >= nb), newp, nb)
              /\ UNCHANGED mmapped
      /\ live' = With(live, newp, op.bytes)
      /\ call' = Idle

Deliver(op, p) ==
  CASE op.kind \in {"malloc", "calloc"} -> DeliverMalloc(op, p)
    [] op.kind = "realloc"              -> DeliverRealloc(op, p)
    [] op.kind = "copy"                 -> DeliverCopy(op, p)
    [] op.kind = "memalign"             -> DeliverMemalign(op, p)

\* The caller goes on with the chunk it got, or with the tcache made of it.
Delivers ==
  /\ At("got")
  /\ IF call.init
     THEN /\ av' = [av EXCEPT !.tcache = call.p]
          /\ call' = [pc |-> "resume", op |-> call.op]
          /\ UNCHANGED <<mmapped, live>>
     ELSE Deliver(call.op, call.p)
  /\ UNCHANGED <<mp, maps, asides>>

\* _int_malloc has found p, and leaves arena a.
Found(a, p) ==
  /\ av' = a
  /\ call' = Got(call.op, call.init, p)
  /\ UNCHANGED live

\* _int_malloc has found nothing: the call returns NULL, or does without a tcache.
NotFound(a) ==
  /\ av' = a
  /\ call' = IF call.init THEN [pc |-> "resume", op |-> call.op] ELSE Idle
  /\ UNCHANGED live

----------------------------------------------------------------------------
\* _int_malloc, up to the loop: a fast bin or a small bin with exact fits.

\* How many chunks of size sz the tcache has room for.
Room(sz) ==
  IF CacheRoom(av, sz) THEN TCACHE_COUNT - Len(av.cached[csize2tidx(sz)]) ELSE 0

\* The first of the chunks s is the victim, the next ones go to the tcache.
Stash(a, s) ==
  LET k == Min({Room(call.nb), Len(s) - 1})
      put(b, p) == tcache_put(b, p, call.nb)
  IN  FoldLeft(put, a, SubSeq(s, 2, 1 + k))

\* A slip: stashed chunks stay in the list they came from.
TakenFirst(s) == 1

Taken(s) == 1 + Min({Room(call.nb), Len(s) - 1})

FastList == IF call.nb <= mp.max_fast THEN av.fast[fastbin_index(call.nb)] ELSE <<>>
SmallList == IF in_smallbin_range(call.nb) THEN Reverse(av.bins[call.idx]) ELSE <<>>

FastbinServes ==
  /\ At("bins") /\ FastList # <<>>
  /\ Found([Checked(Stash(av, FastList), chunksize(av, FastList[1]) = call.nb)
              EXCEPT !.fast[fastbin_index(call.nb)] = SubSeq(@, Taken(FastList) + 1, Len(@))],
           FastList[1])
  /\ UNCHANGED <<mp, mmapped, maps, asides>>

SmallbinServes ==
  /\ At("bins") /\ FastList = <<>> /\ SmallList # <<>>
  /\ LET use(a, p) == set_inuse_bit(a, p + call.nb)
         left == SubSeq(av.bins[call.idx], 1, Len(SmallList) - Taken(SmallList))
     IN  Found([FoldLeft(use, Stash(av, SmallList), SubSeq(SmallList, 1, Taken(SmallList)))
                  EXCEPT !.bins[call.idx] = left],
               SmallList[1])
  /\ UNCHANGED <<mp, mmapped, maps, asides>>

\* A large request consolidates the fast bins before the loop.
EntersLoop ==
  /\ At("bins") /\ FastList = <<>> /\ SmallList = <<>>
  /\ av' = IF ~in_smallbin_range(call.nb) /\ av.have_fastchunks
           THEN malloc_consolidate(av) ELSE av
  /\ call' = [call EXCEPT !.pc = "unsorted"]
  /\ UNCHANGED <<mp, mmapped, maps, live, asides>>

----------------------------------------------------------------------------
\* The loop over the unsorted chunks.

Victim == Last(av.bins[1])

HasUnsorted == At("unsorted") /\ av.bins[1] # <<>> /\ call.iters < MAX_ITERS

UnsortedOK(a, p) ==
  /\ chunksize(a, p) > CHUNK_HDR_SZ /\ chunksize(a, p) <= a.system_mem
  /\ chunksize(a, next_chunk(a, p)) \in CHUNK_HDR_SZ .. a.system_mem
  /\ prev_size(a, next_chunk(a, p)) = chunksize(a, p)
  /\ ~inuse(a, p)

TakenOff == [Checked(av, UnsortedOK(av, Victim)) EXCEPT !.bins[1] = Front(@)]

IsLastRemainder ==
  /\ in_smallbin_range(call.nb)
  /\ av.bins[1] = <<av.last_remainder>>
  /\ chunksize(av, Victim) > call.nb + MINSIZE

\* The remainder of the last split serves the next small request.
LastRemainderServes ==
  /\ HasUnsorted /\ IsLastRemainder
  /\ Found([SplitOff(TakenOff, Victim, call.nb) EXCEPT !.last_remainder = Victim + call.nb],
           Victim)
  /\ UNCHANGED <<mp, mmapped, maps, asides>>

ExactFit == chunksize(av, Victim) = call.nb

\* Exact fits fill the tcache first.
ExactFitCached ==
  /\ HasUnsorted /\ ~IsLastRemainder /\ ExactFit /\ CacheRoom(av, call.nb)
  /\ av' = tcache_put(set_inuse_bit(TakenOff, next_chunk(av, Victim)), Victim, call.nb)
  /\ call' = [call EXCEPT !.return_cached = TRUE]
  /\ UNCHANGED <<mp, mmapped, maps, live, asides>>

ExactFitServes ==
  /\ HasUnsorted /\ ~IsLastRemainder /\ ExactFit /\ ~CacheRoom(av, call.nb)
  /\ Found(set_inuse_bit(TakenOff, next_chunk(av, Victim)), Victim)
  /\ UNCHANGED <<mp, mmapped, maps, asides>>

UnfitGoesToBin ==
  /\ HasUnsorted /\ ~IsLastRemainder /\ ~ExactFit
  /\ av' = PlaceInBin(TakenOff, Victim)
  /\ call' = [call EXCEPT !.iters = @ + 1]
  /\ UNCHANGED <<mp, mmapped, maps, live, asides>>

----------------------------------------------------------------------------
\* Behind the loop: the cached exact fit, the bins by size, top.

LoopDone == At("unsorted") /\ ~HasUnsorted

CachedServes ==
  /\ LoopDone /\ call.return_cached
  /\ LET i == csize2tidx(call.nb)
     IN  Found([av EXCEPT !.cached[i] = Tail(@)], Head(av.cached[i]))
  /\ UNCHANGED <<mp, mmapped, maps, asides>>

\* The chunks of the request's own large bin that stand for their size and fit.
OwnFits ==
  IF in_smallbin_range(call.nb) THEN {}
  ELSE LET bin == av.bins[call.idx]
       IN  {k \in DOMAIN bin : bin[k] \in av.skip /\ chunksize(av, bin[k]) >= call.nb}

\* The smallest that fits; of several, the second, which is off the ring.
LargeBinServes ==
  /\ LoopDone /\ ~call.return_cached /\ OwnFits # {}
  /\ LET bin == av.bins[call.idx]
         k == Max(OwnFits)
         victim == IF k < Len(bin) /\ chunksize(av, bin[k + 1]) = chunksize(av, bin[k])
                   THEN bin[k + 1] ELSE bin[k]
     IN  Found(SplitOff(unlink_chunk(av, victim), victim, call.nb), victim)
  /\ UNCHANGED <<mp, mmapped, maps, asides>>

\* The larger bins the map has a bit for, and the first of them with a chunk.
Marked == {i \in av.binmap : i > call.idx}
Larger == {i \in Marked : av.bins[i] # <<>>}
\* A bit that gave a false alarm is cleared.
Unmarked(below) == [av EXCEPT !.binmap = {i \in @ : i \in Marked /\ i < below => i \in Larger}]

BinServes ==
  /\ LoopDone /\ ~call.return_cached /\ OwnFits = {} /\ Larger # {}
  /\ LET i == Min(Larger)
         victim == Last(av.bins[i])
         a == Checked(Unmarked(i), chunksize(av, victim) >= call.nb)
         remains == chunksize(av, victim) - call.nb >= MINSIZE
     IN  Found([SplitOff(unlink_chunk(a, victim), victim, call.nb)
                  EXCEPT !.last_remainder = IF remains /\ in_smallbin_range(call.nb)
                                            THEN victim + call.nb ELSE @],
               victim)
  /\ UNCHANGED <<mp, mmapped, maps, asides>>

UsesTop == LoopDone /\ ~call.return_cached /\ OwnFits = {} /\ Larger = {}

\* A slip: top may be used up to the last word.
TopFitsExactly == chunksize(av, av.top) >= call.nb

TopFits == chunksize(av, av.top) >= call.nb + MINSIZE
Swept == Checked(Unmarked(NBINS), chunksize(av, av.top) <= av.system_mem)

TopServes ==
  /\ UsesTop /\ TopFits
  /\ Found(SplitTop(Swept, call.nb), av.top)
  /\ UNCHANGED <<mp, mmapped, maps, asides>>

ConsolidatesAgain ==
  /\ UsesTop /\ ~TopFits /\ av.have_fastchunks
  /\ av' = malloc_consolidate(Swept)
  /\ call' = [call EXCEPT !.idx = bin_index(call.nb), !.iters = 0]
  /\ UNCHANGED <<mp, mmapped, maps, live, asides>>

----------------------------------------------------------------------------
\* sysmalloc.

NeedsSystem == UsesTop /\ ~TopFits /\ ~av.have_fastchunks

WantsMmap ==
  /\ call.nb >= mp.mmap_threshold /\ mp.n_mmaps < mp.n_mmaps_max
  /\ ~call.tried_mmap

MapSize == ALIGN_UP(call.nb + SIZE_SZ, PageSize)

MapsRequest ==
  /\ NeedsSystem /\ WantsMmap /\ FreeMaps(MapSize) # {}
  /\ LET p == Place(MapSize)
     IN  /\ maps' = maps \cup PagesOf(p, MapSize)
         /\ mp' = [mp EXCEPT !.n_mmaps = @ + 1, !.mmapped_mem = @ + MapSize]
         /\ mmapped' = With(mmapped, p, [sz |-> MapSize, prev_size |-> 0])
         /\ Found(Swept, p)
  /\ UNCHANGED asides

MapIsRefused ==
  /\ NeedsSystem /\ WantsMmap /\ (MayRefuse \/ FreeMaps(MapSize) = {})
  /\ call' = [call EXCEPT !.tried_mmap = TRUE]
  /\ UNCHANGED <<av, mp, mmapped, maps, live, asides>>

old_size == chunksize(av, av.top)
old_end == av.top + old_size

\* The configuration of top that sysmalloc asserts.
TopOK ==
  \/ av.top = NULL
  \/ old_size >= MINSIZE /\ prev_inuse(av, av.top) /\ old_end % PageSize = 0

NeedsMore == NeedsSystem /\ ~WantsMmap

SysmallocAborts ==
  /\ NeedsMore /\ ~TopOK
  /\ av' = [av EXCEPT !.died = TRUE]
  /\ UNCHANGED <<mp, mmapped, maps, live, call, asides>>

\* A slip: no room is asked for what remains at the end of top.
MoreSizeBare ==
  ALIGN_UP(call.nb + mp.top_pad - (IF av.contiguous THEN old_size ELSE 0), PageSize)

\* What the first MORECORE is asked for.
MoreSize ==
  ALIGN_UP(call.nb + mp.top_pad + MINSIZE - (IF av.contiguous THEN old_size ELSE 0), PageSize)
Granted(n) == av.brk + n <= BrkLimit
Refused(n) == MayRefuse \/ ~Granted(n)

\* Memory has been added to arena a: the request is cut from its top, or fails.
FromNewTop(a) ==
  IF chunksize(a, a.top) >= call.nb + MINSIZE
  THEN Found(SplitTop(a, call.nb), a.top)
  ELSE NotFound(a)

FirstBreak(b) == [mp EXCEPT !.sbrk_base = IF @ = NULL THEN b ELSE @]

TopGrows ==
  /\ NeedsMore /\ TopOK /\ Granted(MoreSize) /\ av.brk = old_end
  /\ FromNewTop(set_head([Swept EXCEPT !.brk = @ + MoreSize, !.system_mem = @ + MoreSize],
                         av.top, old_size + MoreSize, TRUE))
  /\ UNCHANGED <<mp, mmapped, maps, asides>>

\* Top moves to `at'; what was top is freed up to a double fencepost.
NewTop(a, at, size) ==
  LET moved == set_head([a EXCEPT !.top = at], at, size, TRUE)
      kept == ALIGN_DOWN(old_size - 2 * CHUNK_HDR_SZ, MALLOC_ALIGNMENT)
      fence == av.top + kept
      fenced == set_head(set_head(set_head(moved, av.top, kept, TRUE),
                                  fence, CHUNK_HDR_SZ, TRUE),
                         fence + CHUNK_HDR_SZ, CHUNK_HDR_SZ, TRUE)
  IN  IF old_size = 0 THEN moved
      ELSE IF kept >= MINSIZE THEN _int_free(fenced, av.top, TRUE) ELSE fenced

\* The first memory, or the break has been moved: top starts anew at the break,
\* and a second MORECORE makes up for the old top and brings it to a page's end.
TopMoves ==
  /\ NeedsMore /\ TopOK /\ Granted(MoreSize) /\ av.brk # old_end /\ av.contiguous
  /\ LET brk == av.brk
         aligned == ALIGN_UP(mem_of(brk), MALLOC_ALIGNMENT) - CHUNK_HDR_SZ
         wanted == (aligned - brk) + old_size
         end == brk + MoreSize
         correction == ALIGN_UP(end + wanted, PageSize) - end
         gap == IF old_size > 0 THEN brk - old_end ELSE 0
     IN  \E c \in {n \in {0, correction} : IF n = 0 THEN Refused(MoreSize + correction) \/ correction = 0
                                            ELSE Granted(MoreSize + n)} :
           /\ FromNewTop(NewTop([Swept EXCEPT !.brk = end + c,
                                              !.system_mem = @ + MoreSize + gap + c],
                                aligned, end - aligned + c))
           /\ mp' = FirstBreak(brk)
  /\ UNCHANGED <<mmapped, maps, asides>>

\* The arena is no longer contiguous: only whole pages are asked for.
TopMovesApart ==
  /\ NeedsMore /\ TopOK /\ Granted(MoreSize) /\ av.brk # old_end /\ ~av.contiguous
  /\ FromNewTop(NewTop([Checked(Swept, aligned_OK(mem_of(av.brk)))
                          EXCEPT !.brk = @ + MoreSize, !.system_mem = @ + MoreSize],
                       av.brk, MoreSize))
  /\ mp' = FirstBreak(av.brk)
  /\ UNCHANGED <<mmapped, maps, asides>>

\* MORECORE is refused; the new top is mapped, and space is never again taken
\* to be contiguous.
BackupSize ==
  Max({MMAP_AS_MORECORE_SIZE,
       IF av.contiguous THEN ALIGN_UP(MoreSize + old_size, PageSize) ELSE MoreSize})

TopIsMapped ==
  /\ NeedsMore /\ TopOK /\ Refused(MoreSize) /\ FreeMaps(BackupSize) # {}
  /\ LET at == Place(BackupSize)
     IN  /\ FromNewTop(NewTop([Swept EXCEPT !.contiguous = FALSE,
                                            !.system_mem = @ + BackupSize],
                              at, BackupSize))
         /\ maps' = maps \cup PagesOf(at, BackupSize)
         /\ mp' = FirstBreak(at)
  /\ UNCHANGED <<mmapped, asides>>

NoMemory ==
  /\ NeedsMore /\ TopOK /\ Refused(MoreSize)
  /\ MayRefuse \/ FreeMaps(BackupSize) = {}
  /\ NotFound(Swept)
  /\ UNCHANGED <<mp, mmapped, maps, asides>>

----------------------------------------------------------------------------
\* The calls.

WantsTcache(op) ==
  \/ op.kind \in {"malloc", "calloc"}
  \/ op.kind \in {"free", "realloc"} /\ ~IsMmapped(op.mem)

\* tcache_init: the chunk for the tcache is looked for before the call goes on.
InitTcache(op) == Search(op, TRUE, request2size(TCACHE_STRUCT))

\* __libc_malloc: the tcache, or _int_malloc.
StartMalloc(op) ==
  LET nb == request2size(op.bytes)
      i == csize2tidx(nb)
      hit == av.tcache # NULL /\ i < TCACHE_BINS /\ av.cached[i] # <<>>
  IN  /\ IF hit
         THEN /\ av' = [av EXCEPT !.cached[i] = Tail(@)]
              /\ call' = Got(op, FALSE, Head(av.cached[i]))
         ELSE /\ call' = Search(op, FALSE, nb)
              /\ UNCHANGED av
      /\ UNCHANGED <<mp, mmapped, maps, live>>

\* __libc_calloc does not look into the tcache; _int_memalign asks for more.
StartSearch(op) ==
  /\ call' = Search(op, FALSE,
                    IF op.kind = "calloc" THEN request2size(op.bytes)
                    ELSE request2size(request2size(op.bytes) + op.align + MINSIZE))
  /\ UNCHANGED <<av, mp, mmapped, maps, live>>

\* __libc_free: a mapped chunk raises the thresholds and is unmapped.  Its size is
\* compared with its flag bits, so one of exactly the limit counts as more.
StartFree(op) ==
  LET p == op.mem
      raises == /\ ~mp.no_dyn_threshold
                /\ mmapped[p].sz >= mp.mmap_threshold
                /\ mmapped[p].sz < DEFAULT_MMAP_THRESHOLD_MAX
      g == IF raises THEN [mp EXCEPT !.mmap_threshold = mmapped[p].sz,
                                     !.trim_threshold = 2 * mmapped[p].sz]
           ELSE mp
  IN  /\ IF IsMmapped(p)
         THEN av' = Checked(av, BlockOK(p)) /\ munmap_chunk(p, g)
         ELSE av' = _int_free(av, p, FALSE) /\ UNCHANGED <<mp, maps, mmapped>>
      /\ live' = Without(live, {p})
      /\ call' = Idle

\* __libc_realloc of a mapped chunk: mremap, which tests the block and may move it;
\* else leave it when it is large enough; else copy.
ReallocMapped(op) ==
  LET p == op.mem
      nb == request2size(op.bytes)
      size == ALIGN_UP(nb + mmapped[p].prev_size + SIZE_SZ, PageSize)
      room == {n \in MapPages : PagesOf(n * PageSize, size)
                 \subseteq (MapPages \ maps) \cup PagesOf(BlockStart(p), BlockSize(p))}
      start == IF BlockStart(p) \div PageSize \in room THEN BlockStart(p)
               ELSE Min(room) * PageSize
      newp == start + mmapped[p].prev_size
      fits == mmapped[p].sz - SIZE_SZ >= nb
  IN  /\ av' = Checked(av, BlockOK(p))
      /\ \/ /\ size = BlockSize(p) \/ fits
            /\ live' = [live EXCEPT ![p] = op.bytes]
            /\ call' = Idle
            /\ UNCHANGED <<mp, mmapped, maps>>
         \/ /\ size # BlockSize(p) /\ room # {}
            /\ maps' = (maps \ PagesOf(BlockStart(p), BlockSize(p))) \cup PagesOf(start, size)
            /\ mmapped' = With(Without(mmapped, {p}), newp,
                               [mmapped[p] EXCEPT !.sz = size - mmapped[p].prev_size])
            /\ mp' = [mp EXCEPT !.mmapped_mem = @ + size - BlockSize(p)]
            /\ live' = With(Without(live, {p}), newp, op.bytes)
            /\ call' = Idle
         \/ /\ size # BlockSize(p) /\ ~fits
            /\ call' = LET copy == [op EXCEPT !.kind = "copy"]
                       IN  IF av.tcache = NULL THEN InitTcache(copy)
                           ELSE [pc |-> "resume", op |-> copy]
            /\ UNCHANGED <<mp, mmapped, maps, live>>

\* _int_realloc: shrink in place, grow into top or into the free chunk behind,
\* or look for another chunk.
ReallocInArena(op) ==
  LET p == op.mem
      nb == request2size(op.bytes)
      size == chunksize(av, p)
      next == p + size
      nextsize == chunksize(av, next)
      a == Checked(av, MoreThanHeader(av, next) /\ nextsize < av.system_mem
                       /\ MoreThanHeader(av, p) /\ size < av.system_mem)
      intoTop == next = av.top /\ size + nextsize >= nb + MINSIZE
      intoNext == next # av.top /\ ~inuse(av, next) /\ size + nextsize >= nb
      inPlace == size >= nb \/ intoTop \/ intoNext
  IN  /\ av' = CASE size >= nb -> FreeTail(a, p, size, nb)
                 [] size < nb /\ intoTop ->
                      set_head([set_head_size(a, p, nb) EXCEPT !.top = p + nb],
                               p + nb, size + nextsize - nb, TRUE)
                 [] size < nb /\ intoNext ->
                      FreeTail(unlink_chunk(a, next), p, size + nextsize, nb)
                 [] OTHER -> a
      /\ live' = IF inPlace THEN [live EXCEPT ![p] = op.bytes] ELSE live
      /\ call' = IF inPlace THEN Idle
                 ELSE Search(op, FALSE, request2size(nb - MALLOC_ALIGN_MASK))
      /\ UNCHANGED <<mp, mmapped, maps>>

Start(op) ==
  CASE op.kind \in {"malloc", "copy"}     -> StartMalloc(op)
    [] op.kind \in {"calloc", "memalign"} -> StartSearch(op)
    [] op.kind = "free"                   -> StartFree(op)
    [] op.kind = "realloc"                -> IF IsMmapped(op.mem) THEN ReallocMapped(op)
                                             ELSE ReallocInArena(op)

\* The calls that want a tcache try to have one first.
StartWithTcache(op) ==
  /\ IF av.tcache = NULL /\ WantsTcache(op)
     THEN /\ call' = InitTcache(op)
          /\ UNCHANGED <<av, mp, mmapped, maps, live>>
     ELSE Start(op)
  /\ UNCHANGED asides

Resumes ==
  /\ At("resume")
  /\ Start(call.op)
  /\ UNCHANGED asides

UnmapsOld ==
  /\ At("unmap")
  /\ av' = Checked(av, BlockOK(call.op.mem))
  /\ munmap_chunk(call.op.mem, mp)
  /\ call' = Idle
  /\ UNCHANGED <<live, asides>>

MayAsk == At("idle") /\ Cardinality(DOMAIN live) < MaxLive

Malloc(bytes) == MayAsk /\ StartWithTcache(Op("malloc", NULL, 1, bytes))
Calloc(bytes) == MayAsk /\ StartWithTcache(Op("calloc", NULL, 1, bytes))
Memalign(align, bytes) == MayAsk /\ StartWithTcache(Op("memalign", NULL, align, bytes))
Free(p) == At("idle") /\ StartWithTcache(Op("free", p, 1, 0))
Realloc(p, bytes) == At("idle") /\ StartWithTcache(Op("realloc", p, 1, bytes))

\* mtrim: whether some chunk of the unsorted list or the large bins has a whole
\* page to advise the kernel of.
chunk_struct == MIN_CHUNK_SIZE + 2 * SIZE_SZ
HasUnusedPage(a, p) ==
  p + chunksize(a, p) - ALIGN_UP(p + chunk_struct, PageSize) >= PageSize
mtrim_advises(a) ==
  \E i \in {1} \cup bin_index(PageSize) .. NBINS - 1 :
    \E p \in ToSet(a.bins[i]) : HasUnusedPage(a, p)
mtrim_result(a, pad) ==
  LET merged == malloc_consolidate(a)
  IN  mtrim_advises(merged) \/ systrim(merged, pad) # merged

MallocTrim(pad) ==
  /\ At("idle")
  /\ LET merged == malloc_consolidate(av)
         trimmed == systrim(merged, pad)
     IN  \/ av' = trimmed
         \/ MayRefuse /\ trimmed.brk > av.brk /\ av' = merged
  /\ UNCHANGED <<mp, mmapped, maps, live, call, asides>>

\* do_set_mxfast and do_set_mmap_threshold refuse values that are too high.
Accepts(o) ==
  /\ o.param = "max_fast" => o.value <= MAX_FAST_SIZE
  /\ o.param = "mmap_threshold" => o.value <= HEAP_MAX_SIZE \div 2

\* The parameters that change what the arena does; each, but the fast limit,
\* ends the dynamic thresholds.
Mallopt(o) ==
  /\ At("idle") /\ asides < MaxAsides
  /\ asides' = asides + 1
  /\ av' = malloc_consolidate(av)
  /\ mp' = IF ~Accepts(o) THEN mp
           ELSE IF o.param = "max_fast" THEN [mp EXCEPT !.max_fast = max_fast_for(o.value)]
           ELSE [mp EXCEPT ![o.param] = o.value, !.no_dyn_threshold = TRUE]
  /\ UNCHANGED <<mmapped, maps, live, call>>

\* Somebody else calls sbrk.
ForeignSbrk(n) ==
  /\ At("idle") /\ asides < MaxAsides /\ Granted(n)
  /\ asides' = asides + 1
  /\ av' = [av EXCEPT !.brk = @ + n]
  /\ UNCHANGED <<mp, mmapped, maps, live, call>>

----------------------------------------------------------------------------
\* malloc_init_state, the static initializer of mp_, and the first break.
Init ==
  /\ \E b \in InitialBreaks :
       av = [hdr |-> << >>, foot |-> << >>, top |-> NULL,
             bins |-> [i \in 1 .. NBINS - 1 |-> <<>>], skip |-> {}, binmap |-> {},
             fast |-> [i \in FastIdx |-> <<>>], have_fastchunks |-> FALSE,
             last_remainder |-> NULL, system_mem |-> 0, contiguous |-> TRUE,
             tcache |-> NULL, cached |-> [i \in CacheIdx |-> <<>>],
             brk |-> b, died |-> FALSE]
  /\ mp = [trim_threshold |-> DEFAULT_TRIM_THRESHOLD, top_pad |-> DEFAULT_TOP_PAD,
           mmap_threshold |-> DEFAULT_MMAP_THRESHOLD, n_mmaps |-> 0,
           n_mmaps_max |-> DEFAULT_MMAP_MAX, no_dyn_threshold |-> FALSE,
           mmapped_mem |-> 0, sbrk_base |-> NULL,
           max_fast |-> max_fast_for(DEFAULT_MXFAST)]
  /\ mmapped = << >> /\ maps = {} /\ live = << >> /\ call = Idle /\ asides = 0

Dead == av.died /\ UNCHANGED vars

Next ==
  \/ FastbinServes \/ SmallbinServes \/ EntersLoop
  \/ LastRemainderServes \/ ExactFitCached \/ ExactFitServes \/ UnfitGoesToBin
  \/ CachedServes \/ LargeBinServes \/ BinServes \/ TopServes \/ ConsolidatesAgain
  \/ MapsRequest \/ MapIsRefused \/ SysmallocAborts \/ TopGrows \/ TopMoves
  \/ TopMovesApart \/ TopIsMapped \/ NoMemory
  \/ Delivers \/ Resumes \/ UnmapsOld
  \/ \E bytes \in Requests : Malloc(bytes)
  \/ \E bytes \in CallocRequests : Calloc(bytes)
  \/ \E align \in Alignments, bytes \in AlignedRequests : Memalign(align, bytes)
  \/ \E p \in DOMAIN live : Free(p)
  \/ \E p \in DOMAIN live, bytes \in ReallocRequests : Realloc(p, bytes)
  \/ \E pad \in TrimPads : MallocTrim(pad)
  \/ \E o \in Options : Mallopt(o)
  \/ \E n \in ForeignSizes : ForeignSbrk(n)
  \/ Dead

Spec == Init /\ [][Next]_vars
----------------------------------------------------------------------------
\* Properties.

Chunks == DOMAIN av.hdr
Fast == UNION {ToSet(av.fast[i]) : i \in FastIdx}
Binned == UNION {ToSet(av.bins[i]) : i \in DOMAIN av.bins}
Sorted == UNION {ToSet(av.bins[i]) : i \in 2 .. NBINS - 1}
Fences == {p \in Chunks : chunksize(av, p) < MINSIZE}
Lists == FlattenSeq([i \in 1 .. TCACHE_BINS |-> av.cached[i - 1]])
           \o FastChunks(av)
           \o FlattenSeq(av.bins)

\* Every chunk is in exactly one place: held by the client, the tcache itself,
\* in one list once, top, or a fence.  None is lost, none is handed out twice.
OwnedOnce ==
  ~av.died =>
    LET got == IF call.pc = "got" THEN {call.p} ELSE {}
        held == {p \in DOMAIN live \cup got \cup ({av.tcache} \ {NULL}) : ~IsMmapped(p)}
        top == {av.top} \ {NULL}
    IN  /\ \A i, j \in DOMAIN Lists : Lists[i] = Lists[j] => i = j
        /\ Chunks = held \cup top \cup Fences \cup ToSet(Lists)
        /\ Cardinality(Chunks) = Cardinality(held) + Cardinality(top)
                                   + Cardinality(Fences) + Len(Lists)
        /\ got \cap DOMAIN live = {} /\ av.tcache \notin DOMAIN live \cup got

\* Walking from header to header never leaves the headers, and stops only at
\* top or at the second of a pair of fences.
ChunksTile ==
  \A p \in Chunks \ {av.top} :
    next_chunk(av, p) \in Chunks \/ (p \in Fences /\ p - CHUNK_HDR_SZ \in Fences)

\* The boundary tags tell the truth: exactly the chunks of the bins claim to be
\* free, and the word behind each of them holds its size.
TagsTell ==
  /\ \A p \in Chunks \ {av.top} :
       next_chunk(av, p) \in Chunks => (p \in Binned <=> ~inuse(av, p))
  /\ \A p \in Binned : prev_size(av, next_chunk(av, p)) = chunksize(av, p)

\* On the ring of a large bin every size stands once, by its first chunk.
RingHasFirsts ==
  \A i \in bin_index(MIN_LARGE_SIZE) .. NBINS - 1 :
    \A k \in DOMAIN av.bins[i] :
      av.bins[i][k] \in av.skip
        <=> k = 1 \/ chunksize(av, av.bins[i][k - 1]) # chunksize(av, av.bins[i][k])

\* With one thread no consolidation is missed.
FastChunksKnown == Fast # {} => av.have_fastchunks

\* What MALLOC_DEBUG would assert, and what it does not look at, holds whenever
\* no assertion has failed: after every turn of the loop over the unsorted chunks,
\* every consolidation, every split and every grant of the kernel.
StateChecked ==
  ~av.died =>
    /\ check_malloc_state(av)
    /\ \A p \in DOMAIN mmapped : check_mmapped_chunk(av, p, mmapped[p])
    /\ ChunksTile /\ TagsTell /\ RingHasFirsts /\ FastChunksKnown

\* The process is aborted only when the break, or the end of top, is not at the
\* end of a page: somebody else has moved the break, or it was off a page at first
\* and the MORECORE that was to complete the page was refused.
AbortsOnlyOffPage ==
  av.died => (av.brk % PageSize # 0 \/ next_chunk(av, av.top) % PageSize # 0)

\* The mappings are exactly those of the mapped chunks and of the arena, none
\* is in two of them, and the counters are theirs.
MapsAccounted ==
  LET pages(p) == PagesOf(BlockStart(p), BlockSize(p))
      arena == (UNION {PagesOf(p, chunksize(av, p)) : p \in Chunks}) \cap MapPages
      all == UNION {pages(p) : p \in DOMAIN mmapped}
  IN  ~av.died =>
        /\ mp.n_mmaps = Cardinality(DOMAIN mmapped)
        /\ mp.mmapped_mem = Cardinality(all) * PageSize
        /\ \A p, q \in DOMAIN mmapped : p # q => pages(p) \cap pages(q) = {}
        /\ all \cap arena = {} /\ maps = all \cup arena

\* A chunk taken from the bins is the smallest of them that could serve.
TakesBestFit ==
  [][call.pc = "unsorted" /\ call'.pc = "got" /\ call'.p \in Sorted =>
       \A q \in Sorted :
         chunksize(av, q) >= call.nb => chunksize(av, call'.p) <= chunksize(av, q)]_vars

\* What a call still has to do, the weightiest first: the phases to come, the
\* way to the loop, a consolidation, the unsorted chunks, an attempt to mmap.
\* A realloc that must copy starts a malloc, which may want a tcache first.
Phase(c) ==
  CASE c.pc = "idle" -> 0
    [] c.pc = "unmap" -> 1
    [] c.pc = "got" /\ ~c.init -> 2
    [] c.pc \in {"bins", "unsorted"} /\ ~c.init -> 3
    [] OTHER -> (IF c.op.kind = "copy" THEN 3 ELSE 6)
                  + (CASE c.pc = "resume" -> 1
                       [] c.pc = "got" -> 2
                       [] OTHER -> 3)
Pending ==
  LET one(P) == IF P THEN 1 ELSE 0
  IN  IF call.pc \notin {"bins", "unsorted"} THEN <<Phase(call), 0, 0, 0, 0>>
      ELSE <<Phase(call), one(call.pc = "bins"), one(av.have_fastchunks),
             Len(av.bins[1]), one(~call.tried_mmap)>>

LexBelow(s, t) == \E k \in DOMAIN s : s[k] < t[k] /\ \A j \in 1 .. k - 1 : s[j] = t[j]

\* Every step of a call leaves less to do, also when malloc consolidates and
\* starts over: with no deadlock, every call that goes on returns.
CallsAdvance == [][call # Idle /\ ~av'.died => LexBelow(Pending', Pending)]_vars

\* A search ends in NULL.
ReturnsNull ==
  call.pc = "unsorted" /\ ~call.init /\ call' = Idle /\ live' = live /\ ~av'.died
SecondRefused == av'.brk = av.brk + MoreSize
OldTopTrims == old_size - 2 * CHUNK_HDR_SZ >= FASTBIN_CONSOLIDATION_THRESHOLD

\* NULL is returned only when the kernel refused memory for the request, or when
\* freeing the old top made systrim hand the new one back.
NullMeansRefused ==
  [][ReturnsNull => \/ NoMemory
                    \/ (TopMoves /\ (SecondRefused \/ OldTopTrims))
                    \/ (TopMovesApart /\ OldTopTrims)]_vars

\* malloc_trim's comment: it returns 1 only if it released memory.
TrimReleases ==
  [][\A pad \in TrimPads :
       MallocTrim(pad) /\ mtrim_result(av, pad) =>
         av'.brk < av.brk \/ mtrim_advises(malloc_consolidate(av))]_vars
=============================================================================
