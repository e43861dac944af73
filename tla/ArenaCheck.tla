----------------------------- MODULE ArenaCheck -----------------------------
(***************************************************************************)
(* The assertions that malloc-impl.c makes of an arena when it is built    *)
(* with MALLOC_DEBUG (do_check_chunk to do_check_malloc_state), as         *)
(* predicates on the arena records of Arena.  A default build does not     *)
(* evaluate them: they are what the authors take to be true of it.         *)
(***************************************************************************)
EXTENDS Arena

max_address(a) == next_chunk(a, a.top)
min_address(a) == max_address(a) - a.system_mem

check_chunk(a, p) ==
  IF p = a.top THEN chunksize(a, p) >= MINSIZE /\ prev_inuse(a, p)
  ELSE a.contiguous => p >= min_address(a) /\ next_chunk(a, p) <= a.top

\* A mapped chunk m at p.
check_mmapped_chunk(a, p, m) ==
  /\ a.contiguous /\ a.top # NULL => p < min_address(a) \/ p >= max_address(a)
  /\ (m.prev_size + m.sz) % PageSize = 0
  /\ aligned_OK(p + CHUNK_HDR_SZ)

check_free_chunk(a, p) ==
  LET next == next_chunk(a, p)
  IN  /\ check_chunk(a, p)
      /\ ~inuse(a, p)
      /\ chunksize(a, p) >= MINSIZE /\ aligned_OK(chunksize(a, p))
      /\ aligned_OK(p + CHUNK_HDR_SZ)
      /\ prev_size(a, next) = chunksize(a, p)
      /\ prev_inuse(a, p)
      /\ next = a.top \/ inuse(a, next)

check_inuse_chunk(a, p) ==
  LET next == next_chunk(a, p)
      prev == p - prev_size(a, p)
  IN  /\ check_chunk(a, p)
      /\ inuse(a, p)
      /\ ~prev_inuse(a, p) => next_chunk(a, prev) = p /\ check_free_chunk(a, prev)
      /\ IF next = a.top THEN prev_inuse(a, next) /\ chunksize(a, next) >= MINSIZE
         ELSE ~inuse(a, next) => check_free_chunk(a, next)

\* The fast bins: every chunk claims to be in use and is in the bin of its size.
check_fastbins(a) ==
  \A i \in FastIdx :
    /\ i > fastbin_index(mp.max_fast) => a.fast[i] = <<>>
    /\ \A p \in ToSet(a.fast[i]) :
         check_inuse_chunk(a, p) /\ fastbin_index(chunksize(a, p)) = i

\* The bins: in the bin of their size, by falling size, and on the ring where
\* the ring says so; an unsorted chunk is on no ring.
check_bins(a) ==
  \A i \in DOMAIN a.bins :
    LET bin == a.bins[i]
        ring == SelectSeq(bin, LAMBDA p : p \in a.skip)
    IN  /\ i >= 2 /\ i \notin a.binmap => bin = <<>>
        /\ \A k \in DOMAIN bin :
             /\ check_free_chunk(a, bin[k])
             /\ i >= 2 => bin_index(chunksize(a, bin[k])) = i
             /\ i >= 2 /\ k > 1 => chunksize(a, bin[k - 1]) >= chunksize(a, bin[k])
        /\ IF i >= bin_index(MIN_LARGE_SIZE)
           THEN \A k \in 1 .. Len(ring) - 1 : chunksize(a, ring[k]) > chunksize(a, ring[k + 1])
           ELSE ring = <<>>

\* do_check_malloc_state looks at the chunks in use that follow a free one; this
\* looks at all of them.
check_malloc_state(a) ==
  a.top # NULL =>
    /\ a.contiguous => mp.sbrk_base + a.system_mem = max_address(a)
    /\ mp.max_fast <= request2size(MAX_FAST_SIZE)
    /\ check_fastbins(a)
    /\ check_bins(a)
    /\ \A q \in DOMAIN a.hdr \ {a.top} :
         inuse(a, q) /\ chunksize(a, q) >= MINSIZE => check_inuse_chunk(a, q)
    /\ check_chunk(a, a.top)
=============================================================================
