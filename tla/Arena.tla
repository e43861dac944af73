------------------------------- MODULE Arena -------------------------------
(***************************************************************************)
(* The main arena of labs/assignment-4-memory-allocator/docs/              *)
(* malloc-impl.c and the routines that move chunks between its lists, as   *)
(* operators from an arena to an arena.  The build is the 64-bit default   *)
(* one with a tcache and without MALLOC_DEBUG, memory tagging, or hooks.   *)
(*                                                                         *)
(* Memory is counted in words (SIZE_SZ = 1).  An arena a is a record:      *)
(*   hdr    address of a chunk |-> [sz, pin], its size and PREV_INUSE bit; *)
(*          the words inside a chunk are no headers                        *)
(*   foot   address of a chunk |-> prev_size, while the chunk below is     *)
(*          free: once it is in use that word is the user's                *)
(*   bins   index |-> chunks from bin->fd to bin->bk; index 1 is unsorted  *)
(*   skip   the chunks of large bins that are on their bin's nextsize ring *)
(*   fast, cached   index |-> chunks of a fast bin, of a tcache bin        *)
(*   tcache the tcache structure's chunk, NULL before tcache_init          *)
(*   brk    the program break, which the kernel keeps                      *)
(*   died   malloc_printerr or a failed assertion has ended the process    *)
(* and top, binmap, have_fastchunks, last_remainder, system_mem and        *)
(* contiguous as in struct malloc_state.  That the fd and bk links of a    *)
(* list agree is the one consistency test the sequences make true.         *)
(***************************************************************************)
EXTENDS MallocSizes, SequencesExt, TLC

CONSTANTS
  PageSize,
  MAX_FAST_SIZE,
  FASTBIN_CONSOLIDATION_THRESHOLD,
  TCACHE_COUNT,        \* mp_.tcache_count
  TCACHE_BINS,         \* mp_.tcache_bins
  BrkLimit             \* how far the kernel lets the break go

VARIABLE mp            \* mp_ and global_max_fast, see PtMalloc

NULL == 0
NBINS == LAST_BIN + 1
NFASTBINS == fastbin_index(request2size(MAX_FAST_SIZE)) + 1
FastIdx == 0 .. NFASTBINS - 1
CacheIdx == 0 .. TCACHE_BINS - 1

\* malloc_printerr, unless the test holds.
Checked(a, ok) == IF ok THEN a ELSE [a EXCEPT !.died = TRUE]

----------------------------------------------------------------------------
\* Physical chunks.  A word that is no header reads as a chunk of size 0.

chunksize(a, p) == IF p \in DOMAIN a.hdr THEN a.hdr[p].sz ELSE 0
prev_inuse(a, p) == p \in DOMAIN a.hdr /\ a.hdr[p].pin
next_chunk(a, p) == p + chunksize(a, p)
inuse(a, p) == prev_inuse(a, next_chunk(a, p))
prev_size(a, p) == IF p \in DOMAIN a.foot THEN a.foot[p] ELSE 0

\* chunksize_nomask (p) > CHUNK_HDR_SZ, the flag bits counting as size.
MoreThanHeader(a, p) ==
  \/ chunksize(a, p) > CHUNK_HDR_SZ
  \/ chunksize(a, p) = CHUNK_HDR_SZ /\ prev_inuse(a, p)

Without(f, S) == [x \in DOMAIN f \ S |-> f[x]]
With(f, x, y) == [z \in DOMAIN f \cup {x} |-> IF z = x THEN y ELSE f[z]]

\* set_head (p, s | pin): the words of the chunk are no headers any more.
set_head(a, p, s, pin) ==
  LET inside == p + 1 .. p + s - 1
  IN  [a EXCEPT !.hdr = With(Without(@, inside), p, [sz |-> s, pin |-> pin]),
                !.foot = Without(@, IF pin THEN inside \cup {p} ELSE inside)]

set_head_size(a, p, s) == set_head(a, p, s, prev_inuse(a, p))
set_foot(a, p, s) == [a EXCEPT !.foot = With(@, p + s, s)]

set_inuse_bit(a, p) == [a EXCEPT !.hdr[p].pin = TRUE, !.foot = Without(@, {p})]
clear_inuse_bit(a, p) == [a EXCEPT !.hdr[p].pin = FALSE]

----------------------------------------------------------------------------
\* Lists of free chunks.

BinsOf(a, p) == {i \in DOMAIN a.bins : p \in ToSet(a.bins[i])}

Position(s, p) == CHOOSE j \in DOMAIN s : s[j] = p

\* fd of p in the list s, NULL for the bin header.
fd(s, p) == LET k == Position(s, p) IN IF k < Len(s) THEN s[k + 1] ELSE NULL

\* Take p off its list.  When it stood for its size on the nextsize ring, the
\* next chunk of that size takes its place.
unlink_chunk(a, p) ==
  IF BinsOf(a, p) = {} \/ chunksize(a, p) # prev_size(a, next_chunk(a, p))
  THEN [a EXCEPT !.died = TRUE]
  ELSE LET i == CHOOSE j \in BinsOf(a, p) : TRUE
           heir == fd(a.bins[i], p)
       IN  [a EXCEPT
              !.bins[i] = RemoveAt(@, Position(@, p)),
              !.skip = IF p \in @
                       THEN (@ \ {p}) \cup (IF heir = NULL THEN {} ELSE {heir})
                       ELSE @]

to_unsorted(a, p) == [a EXCEPT !.bins[1] = <<p>> \o @]

\* Whether chunks of size sz go to a tcache bin, and whether it has room.
CacheRoom(a, sz) ==
  /\ a.tcache # NULL
  /\ csize2tidx(sz) < TCACHE_BINS
  /\ Len(a.cached[csize2tidx(sz)]) < TCACHE_COUNT

tcache_put(a, p, sz) == [a EXCEPT !.cached[csize2tidx(sz)] = <<p>> \o @]

\* The victim of a bin, cut to nb words; the rest goes to the unsorted list
\* unless it is too small to be a chunk.
SplitOff(a, victim, nb) ==
  LET size == chunksize(a, victim)
      remainder == victim + nb
  IN  IF size - nb < MINSIZE THEN set_inuse_bit(a, victim + size)
      ELSE set_foot(set_head(set_head(to_unsorted(a, remainder), victim, nb, TRUE),
                             remainder, size - nb, TRUE),
                    remainder, size - nb)

\* The chunk at top, cut to nb words; the rest is the new top.
SplitTop(a, nb) ==
  LET size == chunksize(a, a.top)
  IN  [set_head(set_head(a, a.top, nb, TRUE), a.top + nb, size - nb, TRUE)
         EXCEPT !.top = a.top + nb]

\* A slip: only large bins are marked.
MarkLarge(a, i) == [a EXCEPT !.binmap = IF i >= bin_index(MIN_LARGE_SIZE) THEN @ \cup {i} ELSE @]

\* The map of the bins that may have chunks.
mark_bin(a, i) == [a EXCEPT !.binmap = @ \cup {i}]

\* A slip: a chunk of a size the bin has goes to the front of its size.
FirstPlace(at) == at

\* A chunk of a size the bin has goes behind the one that is on the ring.
SecondPlace(at) == at + 1

\* Where malloc puts a chunk of the unsorted list it does not use: at the front
\* of a small bin; in a large bin by falling size, behind the first of its size.
PlaceInBin(a, victim) ==
  LET size == chunksize(a, victim)
      i == bin_index(size)
      bin == a.bins[i]
      notLarger == {k \in DOMAIN bin : bin[k] \in a.skip /\ chunksize(a, bin[k]) <= size}
      at == IF notLarger = {} THEN Len(bin) + 1 ELSE Min(notLarger)
      tie == notLarger # {} /\ chunksize(a, bin[at]) = size
  IN  IF in_smallbin_range(size)
      THEN [mark_bin(a, i) EXCEPT !.bins[i] = <<victim>> \o @]
      ELSE [mark_bin(a, i) EXCEPT !.bins[i] = InsertAt(@, IF tie THEN SecondPlace(at) ELSE at, victim),
                     !.skip = IF tie THEN @ ELSE @ \cup {victim}]

----------------------------------------------------------------------------
\* Freeing.

\* Where the chunk that p becomes part of will start.
MergeBase(a, p) == IF prev_inuse(a, p) THEN p ELSE p - prev_size(a, p)

\* p is joined to the free chunk below it.
JoinPrev(a, p) ==
  IF prev_inuse(a, p) THEN a
  ELSE set_head(unlink_chunk(Checked(a, chunksize(a, MergeBase(a, p)) = prev_size(a, p)),
                             MergeBase(a, p)),
                MergeBase(a, p), prev_size(a, p) + chunksize(a, p), TRUE)

\* p is joined to the free chunk behind it, or that chunk learns that p is free.
JoinNext(a, p) ==
  IF inuse(a, next_chunk(a, p)) THEN clear_inuse_bit(a, next_chunk(a, p))
  ELSE set_head_size(unlink_chunk(a, next_chunk(a, p)),
                     p, chunksize(a, p) + chunksize(a, next_chunk(a, p)))

\* p becomes part of top, or goes to the unsorted list.
PutFree(a, p) ==
  IF next_chunk(a, p) = a.top
  THEN [set_head(a, p, chunksize(a, p) + chunksize(a, a.top), TRUE) EXCEPT !.top = p]
  ELSE LET b == JoinNext(a, p)
       IN  set_foot(to_unsorted(b, p), p, chunksize(b, p))

Coalesce(a, p) == PutFree(JoinPrev(a, p), MergeBase(a, p))

\* The chunks of the fast bins in the order of the bins.
FastChunks(a) == FlattenSeq([k \in 1 .. NFASTBINS |-> a.fast[k - 1]])

\* A chunk p of size sz is in the fast bin of its size.
InItsFastBin(a, p, sz) == \E i \in FastIdx : p \in ToSet(a.fast[i]) /\ fastbin_index(sz) = i

\* The chunk p of the fast bins of a is freed for good in b.
CoalesceFast(a, b, p) ==
  Coalesce(Checked(b, aligned_OK(p) /\ InItsFastBin(a, p, chunksize(b, p))), p)

\* A slip: the flag stays set.
ConsolidateQuietly(a) ==
  LET free(b, p) == CoalesceFast(a, b, p)
  IN  FoldLeft(free, [a EXCEPT !.fast = [i \in FastIdx |-> <<>>]], FastChunks(a))

\* Every chunk of the fast bins is freed for good.
malloc_consolidate(a) ==
  LET free(b, p) == CoalesceFast(a, b, p)
  IN  FoldLeft(free,
               [a EXCEPT !.have_fastchunks = FALSE, !.fast = [i \in FastIdx |-> <<>>]],
               FastChunks(a))

\* Give the whole pages at the end of top back.  top_area is signed and pad is
\* not, so a negative top_area is never <= pad; extra may come out negative.
systrim(a, pad) ==
  LET top_size == chunksize(a, a.top)
      top_area == top_size - MINSIZE - 1
      extra == ALIGN_DOWN(top_area - pad, PageSize)
  IN  IF \/ top_area >= 0 /\ top_area <= pad
         \/ extra = 0
         \/ a.brk # a.top + top_size
         \/ a.brk - extra > BrkLimit
      THEN a
      ELSE [set_head(a, a.top, top_size - extra, TRUE)
              EXCEPT !.brk = @ - extra, !.system_mem = @ - extra]

\* After a chunk has been freed that is now part of p: when p is large the fast
\* bins are consolidated and top is trimmed.
ReduceTop(a) == IF chunksize(a, a.top) >= mp.trim_threshold THEN systrim(a, mp.top_pad) ELSE a
AfterFree(a, p) ==
  IF chunksize(a, p) < FASTBIN_CONSOLIDATION_THRESHOLD THEN a
  ELSE ReduceTop(IF a.have_fastchunks THEN malloc_consolidate(a) ELSE a)

NextOK(a, p) == MoreThanHeader(a, next_chunk(a, p)) /\ chunksize(a, next_chunk(a, p)) < a.system_mem

\* The chunk that was first is no longer, and with the lock its size is looked at.
OldFirstOK(a, p, i, have_lock) ==
  a.fast[i] # <<>> =>
    /\ Head(a.fast[i]) # p
    /\ have_lock => fastbin_index(chunksize(a, Head(a.fast[i]))) = i

FreeFast(a, p, i, have_lock) ==
  [Checked(a, NextOK(a, p) /\ OldFirstOK(a, p, i, have_lock))
     EXCEPT !.have_fastchunks = TRUE, !.fast[i] = <<p>> \o @]

_int_free(a, p, have_lock) ==
  LET size == chunksize(a, p)
      sound == /\ p # a.top
               /\ a.contiguous => next_chunk(a, p) < next_chunk(a, a.top)
               /\ inuse(a, p) /\ NextOK(a, p)
  IN  IF size < MINSIZE \/ ~aligned_OK(size) \/ ~aligned_OK(p) THEN [a EXCEPT !.died = TRUE]
      ELSE IF CacheRoom(a, size) THEN tcache_put(a, p, size)
      ELSE IF size <= mp.max_fast THEN FreeFast(a, p, fastbin_index(size), have_lock)
      ELSE AfterFree(Coalesce(Checked(a, sound), p), MergeBase(a, p))

----------------------------------------------------------------------------
\* The 64-bit build, where memory is aligned like the header of a chunk.
ASSUME ArenaAssumption ==
  /\ MALLOC_ALIGNMENT = CHUNK_HDR_SZ
  /\ PageSize \in Nat \ {0}
  /\ MAX_FAST_SIZE \in Nat
  /\ FASTBIN_CONSOLIDATION_THRESHOLD \in Nat
  /\ TCACHE_COUNT \in Nat /\ TCACHE_BINS \in Nat
  /\ BrkLimit \in Nat
=============================================================================
