---------------------------- MODULE MallocSizes ----------------------------
(***************************************************************************)
(* The size arithmetic of labs/assignment-4-memory-allocator/docs/         *)
(* malloc-impl.c, the allocator the lab studies: how a request is padded   *)
(* to a chunk, and which cache, fast bin or bin a chunk of a size is for.  *)
(* The figures of a build are the parameters; LADDER is the table of       *)
(* largebin_index as a sequence of rows [width, last, base]: a size goes   *)
(* to bin base + size \div width in the first row where size \div width is *)
(* not beyond last, and to LAST_BIN beyond every row.                      *)
(***************************************************************************)
EXTENDS Integers, Sequences

CONSTANTS
  SIZE_SZ,             \* sizeof (size_t)
  MALLOC_ALIGNMENT,
  MIN_CHUNK_SIZE,      \* offsetof (struct malloc_chunk, fd_nextsize)
  NSMALLBINS,
  LADDER,
  LAST_BIN

CHUNK_HDR_SZ == 2 * SIZE_SZ
MALLOC_ALIGN_MASK == MALLOC_ALIGNMENT - 1
SMALLBIN_WIDTH == MALLOC_ALIGNMENT
SMALLBIN_CORRECTION == IF MALLOC_ALIGNMENT > CHUNK_HDR_SZ THEN 1 ELSE 0
MIN_LARGE_SIZE == (NSMALLBINS - SMALLBIN_CORRECTION) * SMALLBIN_WIDTH

\* The next and the previous multiple of a.
ALIGN_UP(x, a) == ((x + a - 1) \div a) * a
ALIGN_DOWN(x, a) == (x \div a) * a
aligned_OK(m) == m % MALLOC_ALIGNMENT = 0

MINSIZE == ALIGN_UP(MIN_CHUNK_SIZE, MALLOC_ALIGNMENT)

request2size(req) ==
  IF req + SIZE_SZ + MALLOC_ALIGN_MASK < MINSIZE THEN MINSIZE
  ELSE ALIGN_DOWN(req + SIZE_SZ + MALLOC_ALIGN_MASK, MALLOC_ALIGNMENT)

in_smallbin_range(sz) == sz < MIN_LARGE_SIZE
smallbin_index(sz) == sz \div SMALLBIN_WIDTH + SMALLBIN_CORRECTION

\* The rows of the ladder that reach as far as sz.
RowsFor(sz) == {i \in DOMAIN LADDER : sz \div LADDER[i].width <= LADDER[i].last}

largebin_index(sz) ==
  IF RowsFor(sz) = {} THEN LAST_BIN
  ELSE LET row == LADDER[CHOOSE i \in RowsFor(sz) : \A j \in RowsFor(sz) : i <= j]
       IN  row.base + sz \div row.width

bin_index(sz) == IF in_smallbin_range(sz) THEN smallbin_index(sz) ELSE largebin_index(sz)

csize2tidx(sz) == (sz - MINSIZE + MALLOC_ALIGNMENT - 1) \div MALLOC_ALIGNMENT
fastbin_index(sz) == sz \div CHUNK_HDR_SZ - 2

\* set_max_fast: the largest chunk for the fast bins, given the largest request.
max_fast_for(s) ==
  IF s <= MALLOC_ALIGN_MASK - SIZE_SZ THEN MIN_CHUNK_SIZE \div 2
  ELSE ALIGN_DOWN(s + SIZE_SZ, MALLOC_ALIGNMENT)

----------------------------------------------------------------------------
\* The layout of a chunk: two words of header, aligned like the user's memory.
ASSUME SizesAssumption ==
  /\ SIZE_SZ \in Nat \ {0}
  /\ MALLOC_ALIGNMENT \in Nat \ {0}
  /\ MALLOC_ALIGNMENT % CHUNK_HDR_SZ = 0
  /\ MIN_CHUNK_SIZE \in Nat
  /\ MIN_CHUNK_SIZE >= 2 * CHUNK_HDR_SZ
  /\ NSMALLBINS \in Nat
  /\ NSMALLBINS >= 2

\* The table climbs: where one row ends, every later row and LAST_BIN go on at
\* least as high, and no row starts below the last small bin.
ASSUME LadderAssumption ==
  /\ LADDER \in Seq([width : Nat \ {0}, last : Nat, base : Nat])
  /\ LAST_BIN \in Nat
  /\ smallbin_index(MIN_LARGE_SIZE) <= LAST_BIN
  /\ \A i \in DOMAIN LADDER :
       LET r == LADDER[i]
       IN  /\ smallbin_index(MIN_LARGE_SIZE) <= r.base + MIN_LARGE_SIZE \div r.width
           /\ r.base + r.last <= LAST_BIN
           /\ \A j \in DOMAIN LADDER :
                i < j => r.base + r.last
                           <= LADDER[j].base + (r.width * (r.last + 1)) \div LADDER[j].width
=============================================================================
