--------------------------- MODULE PtMallocProofs ---------------------------
(***************************************************************************)
(* Proofs about malloc-impl.c with one thread.  The first part is what the *)
(* allocator relies on in its size arithmetic, for every word size,        *)
(* alignment and ladder of bins that the assumptions of MallocSizes allow. *)
(*                                                                         *)
(* The second part shows that no call runs for ever (CallsEnd), for every  *)
(* client, kernel and 64-bit build.  What is left to do is in Pending:     *)
(* every step of a search or of sysmalloc makes one of its weights smaller *)
(* and keeps the weightier ones, which needs MInv: a chunk that is freed   *)
(* or split is at least Least words large, so that none is put into a bin  *)
(* that does not exist, the exact fit a search has cached is still there   *)
(* when the search returns it, and a mapped chunk that realloc copies from *)
(* stays mapped.  The assertions of the code carry MInv through: once one  *)
(* has failed the process is dead, and what they have passed is used.      *)
(*                                                                         *)
(* The last part has what PtOwnershipProofs needs of lists.                *)
(***************************************************************************)
EXTENDS PtMalloc, Induction, WellFoundedInduction

-----------------------------------------------------------------------------
(* The sizes *)

\* Division with remainder, as the facts below need it.
LEMMA Division ==
  ASSUME NEW x \in Nat, NEW a \in Nat \ {0}
  PROVE  /\ x \div a \in Nat
         /\ x = a * (x \div a) + (x % a)
         /\ x % a \in 0 .. a - 1
  OBVIOUS

LEMMA QuotientsGrow ==
  ASSUME NEW x \in Nat, NEW y \in Nat, NEW a \in Nat \ {0}, x <= y
  PROVE  x \div a <= y \div a
<1> DEFINE p == x \div a
           q == y \div a
<1>1. /\ p \in Nat /\ q \in Nat
      /\ x >= a * p
      /\ y < a * (q + 1)
  BY Division
<1>2. SUFFICES ASSUME p >= q + 1
               PROVE  FALSE
  BY <1>1
<1> HIDE DEF p, q
<1>3. a * p >= a * (q + 1)
  BY <1>1, <1>2
<1> QED
  BY <1>1, <1>3

LEMMA AlignDown ==
  ASSUME NEW x \in Nat, NEW a \in Nat \ {0}
  PROVE  /\ ALIGN_DOWN(x, a) \in Nat
         /\ ALIGN_DOWN(x, a) <= x
         /\ ALIGN_DOWN(x, a) > x - a
         /\ ALIGN_DOWN(x, a) % a = 0
<1> DEFINE q == x \div a
<1>1. q \in Nat /\ x = a * q + (x % a) /\ x % a \in 0 .. a - 1
  BY Division
<1>2. ALIGN_DOWN(x, a) = a * q
  BY <1>1 DEF ALIGN_DOWN
<1> HIDE DEF q
<1>3. a * q \in Nat /\ (a * q) % a = 0
  BY <1>1
<1> QED
  BY <1>1, <1>2, <1>3

LEMMA Layout ==
  /\ SIZE_SZ \in Nat \ {0} /\ MALLOC_ALIGNMENT \in Nat \ {0}
  /\ CHUNK_HDR_SZ \in Nat \ {0}
  /\ MALLOC_ALIGN_MASK \in Nat
  /\ SMALLBIN_CORRECTION \in {0, 1}
  /\ MINSIZE \in Nat /\ MINSIZE >= MIN_CHUNK_SIZE /\ MINSIZE % MALLOC_ALIGNMENT = 0
<1>1. MIN_CHUNK_SIZE + MALLOC_ALIGNMENT - 1 \in Nat
  BY SizesAssumption
<1>2. /\ MINSIZE = ALIGN_DOWN(MIN_CHUNK_SIZE + MALLOC_ALIGNMENT - 1, MALLOC_ALIGNMENT)
  BY DEF MINSIZE, ALIGN_UP, ALIGN_DOWN
<1>3. MINSIZE \in Nat /\ MINSIZE >= MIN_CHUNK_SIZE /\ MINSIZE % MALLOC_ALIGNMENT = 0
  BY <1>1, <1>2, AlignDown, SizesAssumption
<1> QED
  BY <1>3, SizesAssumption DEF CHUNK_HDR_SZ, MALLOC_ALIGN_MASK, SMALLBIN_CORRECTION

LEMMA BestMultiple ==
  ASSUME NEW x \in Nat, NEW a \in Nat \ {0}, NEW m \in Nat, m % a = 0, m <= x
  PROVE  m <= ALIGN_DOWN(x, a)
<1> DEFINE q == x \div a
           i == m \div a
<1>1. q \in Nat /\ x < a * q + a /\ ALIGN_DOWN(x, a) = a * q
  <2>1. q \in Nat /\ x = a * q + (x % a) /\ x % a \in 0 .. a - 1
    BY Division
  <2> QED
    BY <2>1 DEF ALIGN_DOWN
<1>2. i \in Nat /\ m = a * i
  <2>1. i \in Nat /\ m = a * i + (m % a)
    BY Division
  <2> HIDE DEF i
  <2> QED
    BY <2>1
<1>3. i <= q
  BY <1>1, <1>2, QuotientsGrow
<1> HIDE DEF q, i
<1>4. a * i <= a * q
  BY <1>1, <1>2, <1>3
<1> QED
  BY <1>1, <1>2, <1>4

\* request2size gives a chunk that is aligned, that is no smaller than the least
\* chunk, and that holds the request and the word in front of it.
THEOREM RequestFits ==
  ASSUME NEW req \in Nat
  PROVE  /\ request2size(req) \in Nat
         /\ aligned_OK(request2size(req))
         /\ request2size(req) >= MINSIZE
         /\ request2size(req) >= req + SIZE_SZ
<1> DEFINE padded == req + SIZE_SZ + MALLOC_ALIGN_MASK
           size == ALIGN_DOWN(padded, MALLOC_ALIGNMENT)
<1>1. padded \in Nat /\ padded = req + SIZE_SZ + MALLOC_ALIGNMENT - 1
  BY Layout DEF MALLOC_ALIGN_MASK
<1>2. CASE padded < MINSIZE
  BY <1>1, <1>2, Layout DEF request2size, aligned_OK, MALLOC_ALIGN_MASK
<1>3. CASE padded >= MINSIZE
  <2>1. request2size(req) = size
    BY <1>1, <1>3, Layout DEF request2size
  <2>2. size \in Nat /\ size > padded - MALLOC_ALIGNMENT /\ size % MALLOC_ALIGNMENT = 0
    BY <1>1, Layout, AlignDown
  <2>3. size >= MINSIZE
    BY <1>1, <1>3, <2>2, Layout, BestMultiple
  <2> HIDE DEF padded, size
  <2>4. size >= req + SIZE_SZ
    BY <1>1, <2>2, Layout
  <2> QED
    BY <2>1, <2>2, <2>3, <2>4 DEF aligned_OK
<1> QED
  BY <1>1, <1>2, <1>3, Layout

----------------------------------------------------------------------------
\* The row of the ladder that is used for a size.
RowFor(sz) == CHOOSE i \in RowsFor(sz) : \A j \in RowsFor(sz) : i <= j

LEMMA RowExists ==
  ASSUME NEW sz \in Nat, RowsFor(sz) # {}
  PROVE  /\ RowFor(sz) \in RowsFor(sz)
         /\ \A j \in RowsFor(sz) : RowFor(sz) <= j
         /\ largebin_index(sz) = LADDER[RowFor(sz)].base + sz \div LADDER[RowFor(sz)].width
<1>1. RowsFor(sz) \subseteq Nat
  BY LadderAssumption DEF RowsFor
<1>2. \E i \in RowsFor(sz) : \A j \in RowsFor(sz) : <<j, i>> \notin OpToRel(<, Nat)
  BY <1>1, WFMin, NatLessThanWellFounded
<1>3. ASSUME NEW i \in Nat, NEW j \in Nat, <<j, i>> \notin OpToRel(<, Nat)
      PROVE  i <= j
  <2>1. ~(j < i)
    BY <1>3 DEF OpToRel
  <2> QED
    BY <2>1
<1>4. \E i \in RowsFor(sz) : \A j \in RowsFor(sz) : i <= j
  BY <1>1, <1>2, <1>3
<1> QED
  BY <1>4 DEF RowFor, largebin_index

\* A row of the ladder, and the sizes that fall on it.
LEMMA RowShape ==
  ASSUME NEW i \in DOMAIN LADDER
  PROVE  /\ LADDER[i].width \in Nat \ {0} /\ LADDER[i].last \in Nat /\ LADDER[i].base \in Nat
         /\ LADDER[i].base + LADDER[i].last <= LAST_BIN
         /\ smallbin_index(MIN_LARGE_SIZE) <= LADDER[i].base + MIN_LARGE_SIZE \div LADDER[i].width
<1> DEFINE Row == [width : Nat \ {0}, last : Nat, base : Nat]
<1>1. LADDER[i] \in Row
  <2>1. LADDER \in Seq(Row)
    BY LadderAssumption
  <2> HIDE DEF Row
  <2>2. i \in 1 .. Len(LADDER)
    BY <2>1
  <2> QED
    BY <2>1, <2>2
<1> QED
  BY <1>1, LadderAssumption

LEMMA SmallShape ==
  /\ MIN_LARGE_SIZE \in Nat
  /\ smallbin_index(MIN_LARGE_SIZE) = NSMALLBINS
  /\ NSMALLBINS <= LAST_BIN /\ LAST_BIN \in Nat
<1> DEFINE n == NSMALLBINS - SMALLBIN_CORRECTION
<1>1. n \in Nat /\ MALLOC_ALIGNMENT \in Nat \ {0} /\ MIN_LARGE_SIZE = n * MALLOC_ALIGNMENT
  BY SizesAssumption, Layout DEF MIN_LARGE_SIZE, SMALLBIN_WIDTH
<1> HIDE DEF n
<1>2. MIN_LARGE_SIZE \in Nat /\ MIN_LARGE_SIZE \div MALLOC_ALIGNMENT = n
  BY <1>1
<1>3. smallbin_index(MIN_LARGE_SIZE) = NSMALLBINS
  BY <1>2, Layout, SizesAssumption DEF smallbin_index, SMALLBIN_WIDTH, n
<1> QED
  BY <1>2, <1>3, LadderAssumption

LEMMA SmallIndex ==
  ASSUME NEW sz \in Nat, in_smallbin_range(sz)
  PROVE  /\ bin_index(sz) = sz \div MALLOC_ALIGNMENT + SMALLBIN_CORRECTION
         /\ bin_index(sz) \in Nat
         /\ bin_index(sz) <= NSMALLBINS
<1>1. bin_index(sz) = sz \div MALLOC_ALIGNMENT + SMALLBIN_CORRECTION
  BY DEF bin_index, smallbin_index, SMALLBIN_WIDTH
<1>2. sz \div MALLOC_ALIGNMENT \in Nat
  BY Layout, Division
<1>3. MIN_LARGE_SIZE \div MALLOC_ALIGNMENT \in Nat
  BY Layout, Division, SmallShape
<1>4. sz \div MALLOC_ALIGNMENT <= MIN_LARGE_SIZE \div MALLOC_ALIGNMENT
  BY Layout, SmallShape, QuotientsGrow DEF in_smallbin_range
<1>5. NSMALLBINS = MIN_LARGE_SIZE \div MALLOC_ALIGNMENT + SMALLBIN_CORRECTION
  BY SmallShape DEF smallbin_index, SMALLBIN_WIDTH
<1> QED
  BY <1>1, <1>2, <1>3, <1>4, <1>5, Layout

LEMMA LargeIndex ==
  ASSUME NEW sz \in Nat, ~in_smallbin_range(sz)
  PROVE  /\ bin_index(sz) = largebin_index(sz)
         /\ bin_index(sz) \in Nat
         /\ NSMALLBINS <= bin_index(sz)
         /\ bin_index(sz) <= LAST_BIN
<1>1. bin_index(sz) = largebin_index(sz)
  BY DEF bin_index
<1>2. CASE RowsFor(sz) = {}
  BY <1>1, <1>2, SmallShape, SizesAssumption DEF largebin_index
<1>3. CASE RowsFor(sz) # {}
  <2> DEFINE i == RowFor(sz)
             w == LADDER[i].width
             q == sz \div w
             m == MIN_LARGE_SIZE \div w
  <2>1. i \in DOMAIN LADDER /\ q <= LADDER[i].last /\ largebin_index(sz) = LADDER[i].base + q
    BY <1>3, RowExists DEF RowsFor
  <2>2. /\ w \in Nat \ {0} /\ LADDER[i].last \in Nat /\ LADDER[i].base \in Nat
        /\ LADDER[i].base + LADDER[i].last <= LAST_BIN
        /\ NSMALLBINS <= LADDER[i].base + m
    BY <2>1, RowShape, SmallShape
  <2>3. q \in Nat /\ m \in Nat /\ m <= q
    <3>1. MIN_LARGE_SIZE \in Nat /\ MIN_LARGE_SIZE <= sz
      BY SmallShape DEF in_smallbin_range
    <3> HIDE DEF w
    <3> QED
      BY <2>2, <3>1, Division, QuotientsGrow
  <2> HIDE DEF i, w, q, m
  <2> QED
    BY <1>1, <2>1, <2>2, <2>3, SmallShape, SizesAssumption
<1> QED
  BY <1>2, <1>3

\* A larger chunk is never in an earlier bin.
THEOREM BinsClimb ==
  ASSUME NEW s \in Nat, NEW t \in Nat, s <= t
  PROVE  bin_index(s) <= bin_index(t)
<1>1. CASE in_smallbin_range(t)
  <2>1. in_smallbin_range(s)
    BY <1>1, SmallShape DEF in_smallbin_range
  <2>2. s \div MALLOC_ALIGNMENT <= t \div MALLOC_ALIGNMENT
        /\ s \div MALLOC_ALIGNMENT \in Nat /\ t \div MALLOC_ALIGNMENT \in Nat
    BY QuotientsGrow, Division, Layout
  <2> QED
    BY <1>1, <2>1, <2>2, SmallIndex, Layout
<1>2. CASE in_smallbin_range(s) /\ ~in_smallbin_range(t)
  BY <1>2, SmallIndex, LargeIndex, SizesAssumption
<1>3. CASE ~in_smallbin_range(s) /\ ~in_smallbin_range(t) /\ RowsFor(t) = {}
  BY <1>3, LargeIndex, SmallShape DEF largebin_index
<1>4. CASE ~in_smallbin_range(s) /\ ~in_smallbin_range(t) /\ RowsFor(t) # {}
  <2>1. \A k \in RowsFor(t) : k \in RowsFor(s)
    <3> SUFFICES ASSUME NEW k \in RowsFor(t)
                 PROVE  k \in RowsFor(s)
      OBVIOUS
    <3>1. k \in DOMAIN LADDER /\ t \div LADDER[k].width <= LADDER[k].last
      BY DEF RowsFor
    <3>2. /\ s \div LADDER[k].width \in Nat /\ t \div LADDER[k].width \in Nat
          /\ s \div LADDER[k].width <= t \div LADDER[k].width
          /\ LADDER[k].last \in Nat
      BY <3>1, RowShape, Division, QuotientsGrow
    <3> QED
      BY <3>1, <3>2 DEF RowsFor
  <2> DEFINE i == RowFor(s)
             j == RowFor(t)
             wi == LADDER[i].width
             wj == LADDER[j].width
             qs == s \div wi
             qt == t \div wj
             edge == wi * (LADDER[i].last + 1)
  <2>2. /\ j \in RowsFor(t) /\ \A k \in RowsFor(t) : j <= k
        /\ i \in RowsFor(s) /\ \A k \in RowsFor(s) : i <= k
        /\ largebin_index(s) = LADDER[i].base + qs
        /\ largebin_index(t) = LADDER[j].base + qt
    <3>1. RowsFor(s) # {}
      BY <1>4, <2>1
    <3> QED
      BY <1>4, <3>1, RowExists
  <2>3. i \in DOMAIN LADDER /\ j \in DOMAIN LADDER /\ i <= j /\ qs <= LADDER[i].last
        /\ i \in Int /\ j \in Int
    BY <2>1, <2>2, LadderAssumption DEF RowsFor
  <2>4. /\ wi \in Nat \ {0} /\ wj \in Nat \ {0} /\ LADDER[i].last \in Nat
        /\ LADDER[i].base \in Nat /\ LADDER[j].base \in Nat
    BY <2>3, RowShape
  <2>5. qs \in Nat /\ qt \in Nat
    BY <2>4, Division
  <2>6. CASE i = j
    <3>1. qs <= qt
      BY <2>4, <2>6, QuotientsGrow
    <3>2. LADDER[i].base = LADDER[j].base
      BY <2>6
    <3> HIDE DEF i, j, qs, qt
    <3> QED
      BY <1>4, <2>2, <2>4, <2>5, <3>1, <3>2, LargeIndex
  <2>7. CASE i < j
    <3>1. i \notin RowsFor(t)
      BY <2>2, <2>3, <2>7
    <3>2. t \div wi > LADDER[i].last /\ t \div wi \in Nat
      <4>1. ~(t \div wi <= LADDER[i].last)
        BY <2>3, <3>1 DEF RowsFor
      <4> HIDE DEF wi, i
      <4>2. t \div wi \in Nat
        BY <2>4, Division
      <4> QED
        BY <2>4, <4>1, <4>2
    <3>3. t >= edge /\ edge \in Nat
      <4> DEFINE p == t \div wi
                 n == LADDER[i].last + 1
      <4> HIDE DEF wi, i
      <4>1. t >= wi * p /\ p \in Nat
        <5>1. p \in Nat /\ t = wi * p + (t % wi) /\ t % wi \in 0 .. wi - 1
          BY <2>4, Division
        <5> HIDE DEF p
        <5> QED
          BY <2>4, <5>1
      <4>2. n \in Nat /\ n <= p
        BY <2>4, <3>2
      <4> HIDE DEF p, n
      <4>3. wi * n <= wi * p /\ wi * n \in Nat
        BY <2>4, <4>1, <4>2
      <4> QED
        BY <2>4, <4>1, <4>3 DEF n
    <3>4. edge \div wj <= qt /\ edge \div wj \in Nat
      BY <2>4, <3>3, Division, QuotientsGrow
    <3>5. LADDER[i].base + LADDER[i].last <= LADDER[j].base + edge \div wj
      BY <2>3, <2>7, LadderAssumption
    <3> HIDE DEF i, j, wi, wj, qs, qt, edge
    <3> QED
      BY <1>4, <2>2, <2>3, <2>4, <2>5, <3>4, <3>5, LargeIndex
  <2> QED
    BY <2>3, <2>6, <2>7
<1> QED
  BY <1>1, <1>2, <1>3, <1>4

\* Every chunk in a bin behind the one of the request is larger than the request:
\* _int_malloc takes the smallest of them without looking at its size.
THEOREM LaterBinsFit ==
  ASSUME NEW s \in Nat, NEW t \in Nat, bin_index(s) < bin_index(t)
  PROVE  s < t
<1>1. bin_index(s) \in Nat /\ bin_index(t) \in Nat
  BY SmallIndex, LargeIndex
<1>2. CASE t <= s
  BY <1>1, <1>2, BinsClimb
<1> QED
  BY <1>2

\* Every chunk has a bin of its own kind: not the list of unsorted chunks, and
\* none beyond the last.
THEOREM BinExists ==
  ASSUME NEW sz \in Nat, sz >= MINSIZE
  PROVE  bin_index(sz) \in 2 .. LAST_BIN
<1>1. CASE in_smallbin_range(sz)
  <2> DEFINE q == sz \div MALLOC_ALIGNMENT
             p == MINSIZE \div MALLOC_ALIGNMENT
  <2>1. q \in Nat /\ p \in Nat /\ p <= q
    BY Layout, Division, QuotientsGrow
  <2>2. MINSIZE = MALLOC_ALIGNMENT * p
    <3>1. MINSIZE = MALLOC_ALIGNMENT * p + (MINSIZE % MALLOC_ALIGNMENT)
      BY Layout, Division
    <3> HIDE DEF p
    <3> QED
      BY <2>1, <3>1, Layout
  <2>3. bin_index(sz) = q + SMALLBIN_CORRECTION /\ bin_index(sz) <= NSMALLBINS
    BY <1>1, SmallIndex
  <2> HIDE DEF p, q
  <2>4. MINSIZE >= 2 * CHUNK_HDR_SZ
    BY Layout, SizesAssumption
  <2>5. p >= 1
    BY <2>1, <2>2, <2>4, Layout
  <2>6. SMALLBIN_CORRECTION = 1 \/ p >= 2
    <3>1. CASE MALLOC_ALIGNMENT <= CHUNK_HDR_SZ
      <4>1. p = 1 => MINSIZE = MALLOC_ALIGNMENT
        BY <2>2, Layout
      <4> QED
        BY <2>1, <2>4, <2>5, <3>1, <4>1, Layout
    <3>2. CASE MALLOC_ALIGNMENT > CHUNK_HDR_SZ
      BY <3>2 DEF SMALLBIN_CORRECTION
    <3> QED
      BY <3>1, <3>2, Layout
  <2> QED
    BY <2>1, <2>3, <2>5, <2>6, Layout, SmallShape, SizesAssumption
<1>2. CASE ~in_smallbin_range(sz)
  BY <1>2, LargeIndex, SizesAssumption, SmallShape
<1> QED
  BY <1>1, <1>2

-----------------------------------------------------------------------------
(* Folds *)

LEMMA MaxOf ==
  ASSUME NEW n \in Nat, NEW t \in SUBSET (1 .. n), t # {}
  PROVE  Max(t) \in t /\ \A y \in t : Max(t) >= y
<1> DEFINE T == {k \in Nat : \E y \in t : k = n - y}
<1>1. T \subseteq Nat /\ T # {}
  <2>1. PICK y \in t : TRUE
    OBVIOUS
  <2>2. n - y \in Nat
    BY <2>1
  <2> QED
    BY <2>1, <2>2
<1>2. PICK k \in T : \A j \in T : k <= j
  BY <1>1, NatMin
<1>3. PICK x \in t : k = n - x
  BY <1>2 DEF T
<1>4. ASSUME NEW y \in t PROVE x >= y
  <2>1. n - y \in T
    BY DEF T
  <2> HIDE DEF T
  <2>2. k <= n - y
    BY <1>2, <2>1
  <2> QED
    BY <1>3, <2>2
<1> QED
  BY <1>4 DEF Max

\* f folds next over s, for every set of positions of s.
IsFold(f, V, next, base, s) ==
  /\ f \in [SUBSET DOMAIN s -> V]
  /\ \A t \in SUBSET DOMAIN s :
       f[t] = IF t = {} THEN base ELSE next[<<f[t \ {Max(t)}], s[Max(t)]>>]

LEMMA FoldExists ==
  ASSUME NEW V, NEW P, NEW next \in [V \X P -> V], NEW base \in V, NEW s \in Seq(P)
  PROVE  \E f : IsFold(f, V, next, base, s)
<1> DEFINE Folds(n, f) ==
             \A t \in SUBSET (1 .. n) :
               f[t] = IF t = {} THEN base ELSE next[<<f[t \ {Max(t)}], s[Max(t)]>>]
           Some(n) == \E f \in [SUBSET (1 .. n) -> V] : Folds(n, f)
           S == {n \in Nat : n <= Len(s) => Some(n)}
<1>1. 0 \in S
  <2> DEFINE f == [t \in SUBSET (1 .. 0) |-> base]
  <2>1. Folds(0, f)
    OBVIOUS
  <2> QED
    BY <2>1
<1>2. ASSUME NEW n \in Nat, n \in S
      PROVE  n + 1 \in S
  <2> SUFFICES ASSUME n + 1 <= Len(s)
               PROVE  Some(n + 1)
    <3> HIDE DEF Some
    <3> QED
      OBVIOUS
  <2>0. Some(n)
    <3> HIDE DEF Some
    <3> QED
      BY <1>2
  <2>1. PICK g \in [SUBSET (1 .. n) -> V] : Folds(n, g)
    BY <2>0, Zenon
  <2>2. \A t \in SUBSET (1 .. n + 1) : t \ {n + 1} \in SUBSET (1 .. n)
    OBVIOUS
  <2>3. s[n + 1] \in P
    OBVIOUS
  <2> DEFINE f == [t \in SUBSET (1 .. n + 1) |->
                     IF n + 1 \in t THEN next[<<g[t \ {n + 1}], s[n + 1]>>] ELSE g[t]]
  <2>4. f \in [SUBSET (1 .. n + 1) -> V]
    <3> SUFFICES ASSUME NEW t \in SUBSET (1 .. n + 1) PROVE f[t] \in V
      OBVIOUS
    <3>1. g[t \ {n + 1}] \in V
      BY <2>2
    <3>2. <<g[t \ {n + 1}], s[n + 1]>> \in V \X P
      BY <2>3, <3>1
    <3>3. n + 1 \notin t => t = t \ {n + 1}
      OBVIOUS
    <3> QED
      BY <3>1, <3>2, <3>3
  <2>5. ASSUME NEW t \in SUBSET (1 .. n + 1)
        PROVE  f[t] = IF t = {} THEN base ELSE next[<<f[t \ {Max(t)}], s[Max(t)]>>]
    <3>1. CASE n + 1 \in t
      <4>1. Max(t) \in t /\ \A y \in t : Max(t) >= y
        <5>1. n + 1 \in Nat /\ t # {}
          BY <3>1
        <5> QED
          BY <5>1, MaxOf
      <4>2. Max(t) = n + 1
        <5>1. Max(t) \in 1 .. n + 1 /\ Max(t) >= n + 1
          BY <3>1, <4>1
        <5> QED
          BY <5>1
      <4>3. t \ {n + 1} \in SUBSET (1 .. n) /\ t \ {n + 1} \in SUBSET (1 .. n + 1) /\ n + 1 \notin t \ {n + 1}
        OBVIOUS
      <4>4. f[t \ {n + 1}] = g[t \ {n + 1}]
        BY <4>3
      <4>5. f[t] = next[<<g[t \ {n + 1}], s[n + 1]>>]
        BY <3>1
      <4> HIDE DEF f
      <4> QED
        BY <3>1, <4>2, <4>4, <4>5
    <3>2. CASE n + 1 \notin t
      <4>1. t \in SUBSET (1 .. n)
        BY <3>2
      <4>2. f[t] = g[t]
        BY <3>2
      <4>3. CASE t = {}
        BY <2>1, <4>1, <4>2, <4>3
      <4>4. CASE t # {}
        <5>1. t \ {Max(t)} \in SUBSET (1 .. n) /\ t \ {Max(t)} \in SUBSET (1 .. n + 1) /\ n + 1 \notin t \ {Max(t)}
          BY <4>1, <3>2
        <5>2. f[t \ {Max(t)}] = g[t \ {Max(t)}]
          BY <5>1
        <5>3. g[t] = next[<<g[t \ {Max(t)}], s[Max(t)]>>]
          BY <2>1, <4>1, <4>4
        <5> HIDE DEF f
        <5> QED
          BY <4>2, <4>4, <5>2, <5>3
      <4> QED
        BY <4>3, <4>4
    <3> QED
      BY <3>1, <3>2
  <2> HIDE DEF f
  <2> QED
    BY <2>4, <2>5
<1>3. Nat \subseteq S
  <2> HIDE DEF S
  <2> QED
    BY <1>1, <1>2, SetInduction
<1>4. Some(Len(s))
  <2> HIDE DEF Some
  <2> QED
    BY <1>3
<1>5. PICK f \in [SUBSET (1 .. Len(s)) -> V] : Folds(Len(s), f)
  BY <1>4, Zenon
<1>6. DOMAIN s = 1 .. Len(s)
  OBVIOUS
<1> QED
  BY <1>5, <1>6 DEF IsFold

\* A fold never leaves a set that its steps do not leave.
LEMMA FoldStays ==
  ASSUME NEW V, NEW n \in Nat, NEW f,
         f[{}] \in V,
         \A t \in SUBSET (1 .. n) :
           t # {} /\ f[t \ {Max(t)}] \in V => f[t] \in V
  PROVE  f[1 .. n] \in V
<1> DEFINE S == {k \in Nat : k <= n => f[1 .. k] \in V}
<1>1. 0 \in S
  <2>1. 1 .. 0 = {}
    OBVIOUS
  <2> QED
    BY <2>1
<1>2. ASSUME NEW k \in Nat, k \in S
      PROVE  k + 1 \in S
  <2> SUFFICES ASSUME k + 1 <= n
               PROVE  f[1 .. k + 1] \in V
    OBVIOUS
  <2> DEFINE t == 1 .. k + 1
  <2>1. t \in SUBSET (1 .. n) /\ t # {} /\ t \in SUBSET (1 .. k + 1) /\ k + 1 \in t /\ k + 1 \in Nat
    OBVIOUS
  <2>2. Max(t) \in t /\ \A y \in t : Max(t) >= y
    BY <2>1, MaxOf
  <2>3. Max(t) = k + 1
    <3>1. Max(t) \in 1 .. k + 1 /\ Max(t) >= k + 1
      BY <2>1, <2>2
    <3> QED
      BY <3>1
  <2>4. t \ {Max(t)} = 1 .. k
    BY <2>3
  <2>5. f[1 .. k] \in V
    BY <1>2
  <2> HIDE DEF t
  <2>6. f[t] \in V
    BY <2>1, <2>4, <2>5
  <2> QED
    BY <2>6 DEF t
<1>3. Nat \subseteq S
  <2> HIDE DEF S
  <2> QED
    BY <1>1, <1>2, SetInduction
<1> QED
  BY <1>3

-----------------------------------------------------------------------------
(* Arenas *)

Partial(S, T) == UNION {[D -> T] : D \in SUBSET S}
Header == [sz : Int, pin : BOOLEAN]
Bins == [1 .. NBINS - 1 -> Seq(Int)]
Fasts == [FastIdx -> Seq(Int)]
Caches == [CacheIdx -> Seq(Int)]

Arenas ==
  [hdr : Partial(Int, Header), foot : Partial(Int, Int), top : Int,
   bins : Bins, skip : SUBSET Int, binmap : SUBSET (1 .. NBINS - 1),
   fast : Fasts, have_fastchunks : BOOLEAN, last_remainder : Int,
   system_mem : Int, contiguous : BOOLEAN, tcache : Int, cached : Caches,
   brk : Int, died : BOOLEAN]

\* No free chunk is said to be smaller than two headers.
Least == 2 * CHUNK_HDR_SZ
FeetFine(a) == \A q \in DOMAIN a.foot : a.foot[q] >= Least

\* The arenas of a process that has not died, and all that follow its death.
Fit == {a \in Arenas : a.died \/ FeetFine(a)}

\* What the operators do to a fit arena; most leave the fast bins' flag and the
\* tcache alone.
Safe(a, b) == b \in Fit /\ (a.died => b.died)
Keeps(a, b) ==
  /\ Safe(a, b)
  /\ b.have_fastchunks = a.have_fastchunks
  /\ b.cached = a.cached

LEMMA SafeTrans ==
  ASSUME NEW a, NEW b, NEW c, Safe(a, b), Safe(b, c)
  PROVE  Safe(a, c)
  BY DEF Safe

LEMMA KeepsTrans ==
  ASSUME NEW a, NEW b, NEW c, Keeps(a, b), Keeps(b, c)
  PROVE  Keeps(a, c)
  BY SafeTrans DEF Keeps

LEMMA KeepsSelf == ASSUME NEW a \in Fit PROVE Keeps(a, a)
  BY DEF Fit, Keeps, Safe

LEMMA CheckedKeeps ==
  ASSUME NEW a \in Fit, NEW ok \in BOOLEAN
  PROVE  Keeps(a, Checked(a, ok)) /\ (Checked(a, ok).died \/ ok)
  BY DEF Fit, Keeps, Safe, Checked, Arenas, FeetFine

LEMMA PartialWith ==
  ASSUME NEW S, NEW T, NEW f \in Partial(S, T), NEW x \in S, NEW y \in T
  PROVE  With(f, x, y) \in Partial(S, T)
<1>1. PICK D \in SUBSET S : f \in [D -> T]
  BY DEF Partial
<1>2. With(f, x, y) \in [D \cup {x} -> T]
  BY <1>1 DEF With
<1>3. D \cup {x} \in SUBSET S
  OBVIOUS
<1> QED
  BY <1>2, <1>3 DEF Partial

LEMMA PartialWithout ==
  ASSUME NEW S, NEW T, NEW f \in Partial(S, T), NEW X
  PROVE  Without(f, X) \in Partial(S, T)
<1>1. PICK D \in SUBSET S : f \in [D -> T]
  BY DEF Partial
<1>2. Without(f, X) \in [D \ X -> T]
  BY <1>1 DEF Without
<1> QED
  BY <1>1, <1>2 DEF Partial

LEMMA PartialType ==
  ASSUME NEW S, NEW T, NEW f \in Partial(S, T)
  PROVE  DOMAIN f \subseteq S /\ \A x \in DOMAIN f : f[x] \in T
  BY DEF Partial

LEMMA HdrType ==
  ASSUME NEW a \in Fit, NEW p
  PROVE  /\ chunksize(a, p) \in Int /\ prev_inuse(a, p) \in BOOLEAN
         /\ prev_size(a, p) \in Int
         /\ p \in Int => next_chunk(a, p) \in Int
         /\ inuse(a, p) \in BOOLEAN
<1>1. /\ \A q \in DOMAIN a.hdr : a.hdr[q] \in Header
      /\ \A q \in DOMAIN a.foot : a.foot[q] \in Int
  <2>1. a.hdr \in Partial(Int, Header) /\ a.foot \in Partial(Int, Int)
    BY DEF Fit, Arenas
  <2> QED
    BY <2>1, PartialType
<1> QED
  BY <1>1 DEF chunksize, prev_inuse, prev_size, next_chunk, inuse, Header

LEMMA SetHeadKeeps ==
  ASSUME NEW a \in Fit, NEW p \in Int, NEW s \in Int, NEW pin \in BOOLEAN
  PROVE  Keeps(a, set_head(a, p, s, pin))
<1> DEFINE inside == p + 1 .. p + s - 1
           h == With(Without(a.hdr, inside), p, [sz |-> s, pin |-> pin])
           X == IF pin THEN inside \cup {p} ELSE inside
           f == Without(a.foot, X)
<1>1. set_head(a, p, s, pin) = [a EXCEPT !.hdr = h, !.foot = f]
  BY DEF set_head
<1>2. a.hdr \in Partial(Int, Header) /\ a.foot \in Partial(Int, Int)
  BY DEF Fit, Arenas
<1>3. h \in Partial(Int, Header)
  <2>1. Without(a.hdr, inside) \in Partial(Int, Header)
    BY <1>2, PartialWithout
  <2>2. [sz |-> s, pin |-> pin] \in Header
    BY DEF Header
  <2> QED
    BY <2>1, <2>2, PartialWith
<1>4. f \in Partial(Int, Int) /\ DOMAIN f \subseteq DOMAIN a.foot /\ \A z \in DOMAIN f : f[z] = a.foot[z]
  <2>1. f \in Partial(Int, Int)
    BY <1>2, PartialWithout
  <2> QED
    BY <2>1 DEF Without
<1> HIDE DEF h, f
<1> QED
  BY <1>1, <1>3, <1>4 DEF Fit, Keeps, Safe, Arenas, FeetFine

LEMMA SetHeadSizeKeeps ==
  ASSUME NEW a \in Fit, NEW p \in Int, NEW s \in Int
  PROVE  Keeps(a, set_head_size(a, p, s))
  BY SetHeadKeeps, HdrType DEF set_head_size

LEMMA SetFootKeeps ==
  ASSUME NEW a \in Fit, NEW p \in Int, NEW s \in Int, a.died \/ s >= Least
  PROVE  Keeps(a, set_foot(a, p, s))
<1> DEFINE f == With(a.foot, p + s, s)
<1>1. set_foot(a, p, s) = [a EXCEPT !.foot = f]
  BY DEF set_foot
<1>2. f \in Partial(Int, Int) /\ DOMAIN f = {p + s} \cup DOMAIN a.foot
      /\ \A z \in DOMAIN f : f[z] = IF z = p + s THEN s ELSE a.foot[z]
  <2>1. a.foot \in Partial(Int, Int)
    BY DEF Fit, Arenas
  <2>2. p + s \in Int
    OBVIOUS
  <2>3. f \in Partial(Int, Int)
    BY <2>1, <2>2, PartialWith
  <2> QED
    BY <2>3 DEF With
<1> HIDE DEF f
<1> QED
  BY <1>1, <1>2 DEF Fit, Keeps, Safe, Arenas, FeetFine

LEMMA PinType ==
  ASSUME NEW h \in Partial(Int, Header), NEW p, NEW b \in BOOLEAN
  PROVE  [h EXCEPT ![p].pin = b] \in Partial(Int, Header)
<1>1. PICK D \in SUBSET Int : h \in [D -> Header]
  BY DEF Partial
<1>2. [h EXCEPT ![p].pin = b] \in [D -> Header]
  BY <1>1 DEF Header
<1> QED
  BY <1>2 DEF Partial

LEMMA InuseBitKeeps ==
  ASSUME NEW a \in Fit, NEW p
  PROVE  Keeps(a, set_inuse_bit(a, p)) /\ Keeps(a, clear_inuse_bit(a, p))
<1>1. a.hdr \in Partial(Int, Header) /\ a.foot \in Partial(Int, Int)
  BY DEF Fit, Arenas
<1> DEFINE h == [a.hdr EXCEPT ![p].pin = TRUE]
           k == [a.hdr EXCEPT ![p].pin = FALSE]
           f == Without(a.foot, {p})
<1>2. h \in Partial(Int, Header) /\ k \in Partial(Int, Header)
  BY <1>1, PinType
<1>3. f \in Partial(Int, Int) /\ DOMAIN f \subseteq DOMAIN a.foot /\ \A z \in DOMAIN f : f[z] = a.foot[z]
  <2>1. f \in Partial(Int, Int)
    BY <1>1, PartialWithout
  <2> QED
    BY <2>1 DEF Without
<1>4. set_inuse_bit(a, p) = [a EXCEPT !.hdr = h, !.foot = f] /\ clear_inuse_bit(a, p) = [a EXCEPT !.hdr = k]
  BY DEF set_inuse_bit, clear_inuse_bit, Fit, Arenas
<1> HIDE DEF h, k, f
<1> QED
  BY <1>2, <1>3, <1>4 DEF Fit, Keeps, Safe, Arenas, FeetFine

-----------------------------------------------------------------------------
(* Lists *)

LEMMA SubSeqType ==
  ASSUME NEW T, NEW s \in Seq(T), NEW m \in Nat \ {0}, NEW n \in Int, n <= Len(s)
  PROVE  SubSeq(s, m, n) \in Seq(T)
<1>1. CASE m <= n
  <2>1. n \in Nat /\ m .. n \subseteq 1 .. Len(s)
    BY <1>1
  <2> QED
    BY <1>1, <2>1
<1>2. CASE m > n
  <2>1. SubSeq(s, m, n) = <<>>
    BY <1>2
  <2> QED
    BY <2>1
<1> QED
  BY <1>1, <1>2

LEMMA RemoveAtType ==
  ASSUME NEW T, NEW s \in Seq(T), NEW k \in DOMAIN s
  PROVE  RemoveAt(s, k) \in Seq(T)
<1>1. k \in Nat \ {0} /\ k <= Len(s)
  OBVIOUS
<1>2. SubSeq(s, 1, k - 1) \in Seq(T) /\ SubSeq(s, k + 1, Len(s)) \in Seq(T)
  BY <1>1, SubSeqType
<1> QED
  BY <1>2 DEF RemoveAt

LEMMA InsertAtType ==
  ASSUME NEW T, NEW s \in Seq(T), NEW k \in 1 .. Len(s) + 1, NEW x \in T
  PROVE  InsertAt(s, k, x) \in Seq(T)
<1>1. k \in Nat \ {0} /\ k <= Len(s) + 1
  OBVIOUS
<1>2. SubSeq(s, 1, k - 1) \in Seq(T) /\ SubSeq(s, k, Len(s)) \in Seq(T)
  BY <1>1, SubSeqType
<1> QED
  BY <1>2 DEF InsertAt

LEMMA PositionIn ==
  ASSUME NEW s, NEW p \in ToSet(s)
  PROVE  Position(s, p) \in DOMAIN s /\ s[Position(s, p)] = p
  BY DEF ToSet, Position

LEMMA BinsKeep ==
  ASSUME NEW a \in Fit, NEW b \in Bins
  PROVE  Keeps(a, [a EXCEPT !.bins = b])
  BY DEF Fit, Keeps, Safe, Arenas, FeetFine

LEMMA BinType ==
  ASSUME NEW a \in Fit, NEW i \in 1 .. NBINS - 1, NEW s \in Seq(Int)
  PROVE  /\ a.bins[i] \in Seq(Int)
         /\ [a.bins EXCEPT ![i] = s] \in Bins
         /\ DOMAIN a.bins = 1 .. NBINS - 1
  BY DEF Fit, Arenas, Bins

LEMMA EmptyInts == <<>> \in Seq(Int)
  OBVIOUS

LEMMA UnlinkKeeps ==
  ASSUME NEW a \in Fit, NEW p
  PROVE  /\ Keeps(a, unlink_chunk(a, p))
         /\ unlink_chunk(a, p).died \/ chunksize(a, p) = prev_size(a, next_chunk(a, p))
<1>1. CASE BinsOf(a, p) = {} \/ chunksize(a, p) # prev_size(a, next_chunk(a, p))
  <2>1. unlink_chunk(a, p) = [a EXCEPT !.died = TRUE]
    BY <1>1 DEF unlink_chunk
  <2> QED
    BY <2>1 DEF Fit, Keeps, Safe, Arenas, FeetFine
<1>2. CASE ~(BinsOf(a, p) = {} \/ chunksize(a, p) # prev_size(a, next_chunk(a, p)))
  <2> DEFINE i == CHOOSE j \in BinsOf(a, p) : TRUE
             heir == fd(a.bins[i], p)
             s == RemoveAt(a.bins[i], Position(a.bins[i], p))
             k == IF p \in a.skip THEN (a.skip \ {p}) \cup (IF heir = NULL THEN {} ELSE {heir})
                                  ELSE a.skip
  <2>1. i \in BinsOf(a, p)
    BY <1>2
  <2>2. i \in DOMAIN a.bins /\ p \in ToSet(a.bins[i])
    BY <2>1 DEF BinsOf
  <2>3. i \in 1 .. NBINS - 1 /\ a.bins[i] \in Seq(Int)
    BY <2>2 DEF Fit, Arenas, Bins
  <2>4. Position(a.bins[i], p) \in DOMAIN a.bins[i]
    BY <2>2, PositionIn
  <2>5. unlink_chunk(a, p) = [a EXCEPT !.bins = [a.bins EXCEPT ![i] = s], !.skip = k]
    BY <1>2 DEF unlink_chunk, Fit, Arenas
  <2> HIDE DEF i
  <2>6. s \in Seq(Int)
    BY <2>3, <2>4, RemoveAtType
  <2>7. heir \in Int
    BY <2>3, <2>4 DEF fd, NULL
  <2> HIDE DEF s, heir
  <2>8. k \in SUBSET Int
    BY <2>7 DEF Fit, Arenas
  <2> HIDE DEF k
  <2>9. [a.bins EXCEPT ![i] = s] \in Bins
    BY <2>3, <2>6, BinType
  <2> QED
    BY <1>2, <2>5, <2>8, <2>9 DEF Fit, Keeps, Safe, Arenas, FeetFine
<1> QED
  BY <1>1, <1>2

LEMMA UnsortedKeeps ==
  ASSUME NEW a \in Fit, NEW p \in Int
  PROVE  Keeps(a, to_unsorted(a, p))
<1>1. CASE 1 \in 1 .. NBINS - 1
  <2>1. a.bins[1] \in Seq(Int)
    BY <1>1, BinType, EmptyInts
  <2>2. <<p>> \o a.bins[1] \in Seq(Int)
    BY <2>1
  <2>3. [a.bins EXCEPT ![1] = <<p>> \o @] \in Bins
    BY <1>1, <2>2, BinType
  <2> QED
    BY <2>3, BinsKeep DEF to_unsorted
<1>2. CASE 1 \notin 1 .. NBINS - 1
  <2>1. [a.bins EXCEPT ![1] = <<p>> \o @] = a.bins
    BY <1>2 DEF Fit, Arenas, Bins
  <2>2. a.bins \in Bins
    BY DEF Fit, Arenas
  <2> QED
    BY <2>1, <2>2, BinsKeep DEF to_unsorted
<1> QED
  BY <1>1, <1>2

-----------------------------------------------------------------------------
(* Freeing *)

\* The chunk at p is no smaller than a chunk can be.
Sized(a, p) == a.died \/ chunksize(a, p) >= Least

LEMMA Sizes ==
  /\ Least \in Nat /\ CHUNK_HDR_SZ \in Nat \ {0} /\ MINSIZE \in Nat /\ MINSIZE >= Least
  /\ MALLOC_ALIGNMENT \in Nat \ {0} /\ MALLOC_ALIGN_MASK \in Nat /\ SIZE_SZ \in Nat \ {0}
  /\ PageSize \in Nat \ {0}
  BY SizesAssumption, ArenaAssumption, Layout DEF Least

LEMMA FitType ==
  ASSUME NEW a \in Fit, NEW p
  PROVE  /\ a \in Arenas
         /\ chunksize(a, p) \in Int /\ prev_inuse(a, p) \in BOOLEAN
         /\ prev_size(a, p) \in Int
         /\ p \in Int => next_chunk(a, p) \in Int
         /\ inuse(a, p) \in BOOLEAN
         /\ a.died \/ prev_size(a, p) >= 0
<1>1. a \in Arenas
  BY DEF Fit
<1>2. a.died \/ prev_size(a, p) >= 0
  <2>1. prev_size(a, p) \in Int
    BY <1>1, HdrType
  <2>2. CASE p \in DOMAIN a.foot
    <3>1. a.died \/ prev_size(a, p) >= Least
      BY <2>2 DEF Fit, FeetFine, prev_size
    <3> QED
      BY <2>1, <3>1, Sizes
  <2>3. CASE p \notin DOMAIN a.foot
    BY <2>3 DEF prev_size
  <2> QED
    BY <2>2, <2>3
<1> QED
  BY <1>1, <1>2, HdrType

\* What is read at p after set_head there.
LEMMA HeadIsSet ==
  ASSUME NEW a \in Fit, NEW p \in Int, NEW s \in Int, NEW pin \in BOOLEAN
  PROVE  chunksize(set_head(a, p, s, pin), p) = s
<1>1. set_head(a, p, s, pin).hdr
        = With(Without(a.hdr, p + 1 .. p + s - 1), p, [sz |-> s, pin |-> pin])
  BY DEF set_head, Fit, Arenas
<1> QED
  BY <1>1 DEF chunksize, With

LEMMA MergeBaseType ==
  ASSUME NEW a \in Fit, NEW p \in Int
  PROVE  MergeBase(a, p) \in Int
  BY FitType DEF MergeBase

LEMMA JoinPrevKeeps ==
  ASSUME NEW a \in Fit, NEW p \in Int, Sized(a, p)
  PROVE  /\ Keeps(a, JoinPrev(a, p))
         /\ Sized(JoinPrev(a, p), MergeBase(a, p))
<1>1. CASE prev_inuse(a, p)
  <2>1. JoinPrev(a, p) = a /\ MergeBase(a, p) = p /\ a \in Arenas
    BY <1>1, FitType DEF JoinPrev, MergeBase
  <2> QED
    BY <2>1, KeepsSelf
<1>2. CASE ~prev_inuse(a, p)
  <2> DEFINE q == MergeBase(a, p)
             s == prev_size(a, p) + chunksize(a, p)
             ok == chunksize(a, q) = prev_size(a, p)
             b == Checked(a, ok)
             c == unlink_chunk(b, q)
             d == set_head(c, q, s, TRUE)
  <2>1. JoinPrev(a, p) = d
    BY <1>2 DEF JoinPrev
  <2>2. q \in Int /\ s \in Int /\ (a.died \/ s >= Least)
    BY FitType, MergeBaseType, Sizes DEF Sized
  <2>3. Keeps(a, b)
    BY CheckedKeeps
  <2> HIDE DEF b
  <2>4. Keeps(b, c)
    BY <2>3, UnlinkKeeps DEF Keeps, Safe
  <2> HIDE DEF c
  <2>5. Keeps(c, d) /\ chunksize(d, q) = s
    BY <2>2, <2>4, SetHeadKeeps, HeadIsSet DEF Keeps, Safe
  <2> HIDE DEF d, q
  <2>6. Keeps(a, d)
    BY <2>3, <2>4, <2>5, KeepsTrans
  <2>7. Sized(d, q)
    BY <2>2, <2>5, <2>6 DEF Sized, Keeps, Safe
  <2> QED
    BY <2>1, <2>6, <2>7 DEF q
<1> QED
  BY <1>1, <1>2

LEMMA JoinNextKeeps ==
  ASSUME NEW a \in Fit, NEW p \in Int, Sized(a, p)
  PROVE  Keeps(a, JoinNext(a, p)) /\ Sized(JoinNext(a, p), p)
<1> DEFINE n == next_chunk(a, p)
<1>0. n \in Int
  BY FitType
<1>1. CASE inuse(a, n)
  <2> DEFINE b == clear_inuse_bit(a, n)
  <2>1. JoinNext(a, p) = b
    BY <1>1 DEF JoinNext
  <2>2. Keeps(a, b)
    BY InuseBitKeeps
  <2>3. chunksize(b, p) = chunksize(a, p)
    <3>1. PICK D \in SUBSET Int : a.hdr \in [D -> Header]
      BY DEF Fit, Arenas, Partial
    <3>2. b.hdr = [a.hdr EXCEPT ![n].pin = FALSE]
      BY DEF clear_inuse_bit, Fit, Arenas
    <3>3. DOMAIN b.hdr = D /\ \A q \in D : b.hdr[q].sz = a.hdr[q].sz
      BY <3>1, <3>2 DEF Header
    <3> QED
      BY <3>1, <3>3 DEF chunksize
  <2> QED
    BY <2>1, <2>2, <2>3 DEF Sized, Keeps, Safe
<1>2. CASE ~inuse(a, n)
  <2> DEFINE s == chunksize(a, p) + chunksize(a, n)
             b == unlink_chunk(a, n)
             c == set_head_size(b, p, s)
  <2>1. JoinNext(a, p) = c
    BY <1>2 DEF JoinNext
  <2>2. Keeps(a, b) /\ (b.died \/ chunksize(a, n) = prev_size(a, next_chunk(a, n)))
    BY UnlinkKeeps
  <2>3. s \in Int /\ (b.died \/ s >= Least)
    BY <2>2, FitType, Sizes DEF Sized, Keeps, Safe
  <2> HIDE DEF b
  <2>4. Keeps(b, c) /\ chunksize(c, p) = s
    <3>1. b \in Fit /\ prev_inuse(b, p) \in BOOLEAN
      BY <2>2, FitType DEF Keeps, Safe
    <3> QED
      BY <2>3, <3>1, SetHeadKeeps, HeadIsSet DEF set_head_size
  <2> HIDE DEF c
  <2>5. Keeps(a, c)
    BY <2>2, <2>4, KeepsTrans
  <2> QED
    BY <2>1, <2>3, <2>4, <2>5 DEF Sized, Keeps, Safe
<1> QED
  BY <1>1, <1>2

LEMMA TopKeeps ==
  ASSUME NEW a \in Fit, NEW p \in Int
  PROVE  Keeps(a, [a EXCEPT !.top = p])
  BY DEF Fit, Keeps, Safe, Arenas, FeetFine

LEMMA PutFreeKeeps ==
  ASSUME NEW a \in Fit, NEW p \in Int, Sized(a, p)
  PROVE  Keeps(a, PutFree(a, p))
<1>1. CASE next_chunk(a, p) = a.top
  <2> DEFINE s == chunksize(a, p) + chunksize(a, a.top)
             b == set_head(a, p, s, TRUE)
  <2>1. PutFree(a, p) = [b EXCEPT !.top = p]
    BY <1>1 DEF PutFree
  <2>2. s \in Int
    BY FitType
  <2>3. Keeps(a, b)
    BY <2>2, SetHeadKeeps
  <2> HIDE DEF b
  <2>4. Keeps(b, [b EXCEPT !.top = p])
    BY <2>3, TopKeeps DEF Keeps, Safe
  <2> QED
    BY <2>1, <2>3, <2>4, KeepsTrans
<1>2. CASE next_chunk(a, p) # a.top
  <2> DEFINE b == JoinNext(a, p)
             c == to_unsorted(b, p)
             d == set_foot(c, p, chunksize(b, p))
  <2>1. PutFree(a, p) = d
    BY <1>2 DEF PutFree
  <2>2. Keeps(a, b) /\ Sized(b, p)
    BY JoinNextKeeps
  <2> HIDE DEF b
  <2>3. Keeps(b, c)
    BY <2>2, UnsortedKeeps DEF Keeps, Safe
  <2>4. chunksize(b, p) \in Int /\ (c.died \/ chunksize(b, p) >= Least)
    BY <2>2, <2>3, FitType DEF Keeps, Safe, Sized
  <2> HIDE DEF c
  <2>5. Keeps(c, d)
    BY <2>3, <2>4, SetFootKeeps DEF Keeps, Safe
  <2> HIDE DEF d
  <2> QED
    BY <2>1, <2>2, <2>3, <2>5, KeepsTrans
<1> QED
  BY <1>1, <1>2

LEMMA CoalesceKeeps ==
  ASSUME NEW a \in Fit, NEW p \in Int, Sized(a, p)
  PROVE  Keeps(a, Coalesce(a, p))
<1>1. Keeps(a, JoinPrev(a, p)) /\ Sized(JoinPrev(a, p), MergeBase(a, p))
  BY JoinPrevKeeps
<1>2. Keeps(JoinPrev(a, p), PutFree(JoinPrev(a, p), MergeBase(a, p)))
  BY <1>1, PutFreeKeeps, MergeBaseType DEF Keeps, Safe
<1> QED
  BY <1>1, <1>2, KeepsTrans DEF Coalesce

LEMMA FastSized ==
  ASSUME NEW sz \in Int, NEW i \in FastIdx, fastbin_index(sz) = i
  PROVE  sz >= Least
<1> DEFINE q == sz \div CHUNK_HDR_SZ
<1>1. i \in Int /\ i >= 0
  BY DEF FastIdx
<1>2. q - 2 = i
  BY DEF fastbin_index
<1>3. q \in Int /\ sz >= CHUNK_HDR_SZ * q
  BY Sizes
<1> HIDE DEF q
<1>4. q >= 2
  BY <1>1, <1>2, <1>3
<1>5. CHUNK_HDR_SZ * q >= CHUNK_HDR_SZ * 2
  BY <1>3, <1>4, Sizes
<1> QED
  BY <1>3, <1>5, Sizes DEF Least

LEMMA CoalesceFastKeeps ==
  ASSUME NEW a, NEW b \in Fit, NEW p \in Int
  PROVE  Keeps(b, CoalesceFast(a, b, p))
<1> DEFINE ok == aligned_OK(p) /\ InItsFastBin(a, p, chunksize(b, p))
           c == Checked(b, ok)
<1>1. Keeps(b, c) /\ (c.died \/ ok)
  BY CheckedKeeps
<1>2. chunksize(c, p) = chunksize(b, p) /\ chunksize(b, p) \in Int
  BY FitType DEF Checked, chunksize, Fit, Arenas
<1>3. Sized(c, p)
  BY <1>1, <1>2, FastSized DEF Sized, InItsFastBin
<1>4. CoalesceFast(a, b, p) = Coalesce(c, p)
  BY DEF CoalesceFast
<1> HIDE DEF c
<1>5. Keeps(c, Coalesce(c, p))
  BY <1>1, <1>3, CoalesceKeeps DEF Keeps, Safe
<1> QED
  BY <1>1, <1>4, <1>5, KeepsTrans

\* The chunks s of the fast bins of a are freed for good in base.
AllFreed(a, base, s) ==
  LET free(b, p) == CoalesceFast(a, b, p) IN FoldLeft(free, base, s)

LEMMA AllFreedKeeps ==
  ASSUME NEW a, NEW base \in Fit, NEW s \in Seq(Int)
  PROVE  Keeps(base, AllFreed(a, base, s))
<1> DEFINE V == {b \in Fit : Keeps(base, b)}
           next == [x \in V \X Int |-> CoalesceFast(a, x[1], x[2])]
           Eqn(g) == g = [t \in SUBSET DOMAIN s |->
                           IF t = {} THEN base ELSE CoalesceFast(a, g[t \ {Max(t)}], s[Max(t)])]
           iter == CHOOSE g : Eqn(g)
<1>1. base \in V
  BY KeepsSelf
<1>2. ASSUME NEW b \in V, NEW p \in Int PROVE CoalesceFast(a, b, p) \in V
  <2>1. Keeps(base, b) /\ b \in Fit
    OBVIOUS
  <2>2. Keeps(b, CoalesceFast(a, b, p))
    BY <2>1, CoalesceFastKeeps
  <2>3. Keeps(base, CoalesceFast(a, b, p)) /\ CoalesceFast(a, b, p) \in Fit
    BY <2>1, <2>2, KeepsTrans DEF Keeps, Safe
  <2> QED
    BY <2>3
<1> HIDE DEF V
<1>3. next \in [V \X Int -> V]
  BY <1>2
<1>4. PICK f : IsFold(f, V, next, base, s)
  <2> HIDE DEF next
  <2> QED
    BY <1>1, <1>3, FoldExists
<1>5. \A t \in SUBSET DOMAIN s : t # {} => Max(t) \in t /\ s[Max(t)] \in Int
  <2> SUFFICES ASSUME NEW t \in SUBSET DOMAIN s, t # {}
               PROVE  Max(t) \in t /\ s[Max(t)] \in Int
    OBVIOUS
  <2>1. Len(s) \in Nat /\ DOMAIN s = 1 .. Len(s)
    OBVIOUS
  <2>2. Max(t) \in t
    BY <2>1, MaxOf
  <2> QED
    BY <2>2
<1>6. Eqn(f)
  <2>1. ASSUME NEW t \in SUBSET DOMAIN s
        PROVE  f[t] = IF t = {} THEN base ELSE CoalesceFast(a, f[t \ {Max(t)}], s[Max(t)])
    <3>1. CASE t = {}
      BY <1>4, <3>1 DEF IsFold
    <3>2. CASE t # {}
      <4>1. t \ {Max(t)} \in SUBSET DOMAIN s
        OBVIOUS
      <4>2. f[t \ {Max(t)}] \in V /\ s[Max(t)] \in Int
        BY <1>4, <1>5, <3>2, <4>1 DEF IsFold
      <4>3. f[t] = next[<<f[t \ {Max(t)}], s[Max(t)]>>]
        BY <1>4, <3>2 DEF IsFold
      <4> QED
        BY <3>2, <4>2, <4>3
    <3> QED
      BY <3>1, <3>2
  <2>2. f = [t \in SUBSET DOMAIN s |-> f[t]]
    BY <1>4 DEF IsFold
  <2> QED
    BY <2>1, <2>2
<1>7. Eqn(iter)
  <2> HIDE DEF Eqn
  <2> QED
    BY <1>6
<1> HIDE DEF iter
<1>8. iter[1 .. Len(s)] \in V
  <2>1. Len(s) \in Nat /\ DOMAIN s = 1 .. Len(s)
    OBVIOUS
  <2>2. iter[{}] \in V
    BY <1>1, <1>7
  <2>3. ASSUME NEW t \in SUBSET (1 .. Len(s)), t # {}, iter[t \ {Max(t)}] \in V
        PROVE  iter[t] \in V
    <3>1. iter[t] = CoalesceFast(a, iter[t \ {Max(t)}], s[Max(t)])
      BY <1>7, <2>1, <2>3
    <3>2. s[Max(t)] \in Int
      BY <1>5, <2>1, <2>3
    <3> QED
      BY <1>2, <2>3, <3>1, <3>2
  <2> QED
    BY <2>1, <2>2, <2>3, FoldStays
<1>9. AllFreed(a, base, s) = iter[DOMAIN s]
  BY DEF AllFreed, FoldLeft, MapThenFoldSet, iter
<1>10. iter[DOMAIN s] \in V
  <2>1. DOMAIN s = 1 .. Len(s)
    OBVIOUS
  <2> QED
    BY <1>8, <2>1
<1>11. Keeps(base, iter[DOMAIN s])
  BY <1>10 DEF V
<1> QED
  BY <1>9, <1>11

LEMMA FlattenType ==
  ASSUME NEW T, NEW n \in Nat \ {0}, NEW q \in [1 .. n -> Seq(T)]
  PROVE  FlattenSeq(q) \in Seq(T)
<1> DEFINE Flat(m, f) == \A i \in 1 .. m : f[i] = IF i = 1 THEN q[i] ELSE f[i - 1] \o q[i]
           Some(m) == \E f \in [1 .. m -> Seq(T)] : Flat(m, f)
           S == {m \in Nat : m <= n => Some(m)}
<1>1. 0 \in S
  <2> DEFINE f == [i \in 1 .. 0 |-> q[i]]
  <2>1. f \in [1 .. 0 -> Seq(T)] /\ Flat(0, f)
    OBVIOUS
  <2>2. Some(0)
    BY <2>1
  <2> HIDE DEF Some
  <2> QED
    BY <2>2
<1>2. ASSUME NEW m \in Nat, m \in S
      PROVE  m + 1 \in S
  <2> SUFFICES ASSUME m + 1 <= n
               PROVE  Some(m + 1)
    <3> HIDE DEF Some
    <3> QED
      OBVIOUS
  <2>1. Some(m)
    <3> HIDE DEF Some
    <3> QED
      BY <1>2
  <2>2. PICK f \in [1 .. m -> Seq(T)] : Flat(m, f)
    BY <2>1, Zenon
  <2> DEFINE g == [i \in 1 .. m + 1 |->
                     IF i <= m THEN f[i] ELSE IF m = 0 THEN q[1] ELSE f[m] \o q[m + 1]]
  <2>3. g \in [1 .. m + 1 -> Seq(T)]
    <3>1. q[m + 1] \in Seq(T) /\ q[1] \in Seq(T)
      OBVIOUS
    <3>2. m # 0 => f[m] \o q[m + 1] \in Seq(T)
      BY <3>1
    <3> QED
      BY <3>1, <3>2
  <2>4. Flat(m + 1, g)
    <3> SUFFICES ASSUME NEW i \in 1 .. m + 1
                 PROVE  g[i] = IF i = 1 THEN q[i] ELSE g[i - 1] \o q[i]
      OBVIOUS
    <3>1. CASE i <= m
      <4>1. f[i] = IF i = 1 THEN q[i] ELSE f[i - 1] \o q[i]
        <5>1. i \in 1 .. m
          BY <3>1
        <5> HIDE DEF g, Some, S
        <5> QED
          BY <2>2, <5>1
      <4>2. g[i] = f[i] /\ (i # 1 => g[i - 1] = f[i - 1])
        BY <3>1
      <4> QED
        BY <4>1, <4>2
    <3>2. CASE i = m + 1
      BY <3>2
    <3> QED
      BY <3>1, <3>2
  <2> HIDE DEF g
  <2> QED
    BY <2>3, <2>4
<1>3. Some(n)
  <2> HIDE DEF Some
  <2>1. Nat \subseteq S
    <3> HIDE DEF S
    <3> QED
      BY <1>1, <1>2, SetInduction
  <2> QED
    BY <2>1
<1>4. PICK f \in [1 .. n -> Seq(T)] : Flat(n, f)
  BY <1>3, Zenon
<1> DEFINE Eqn(g) == g = [i \in 1 .. n |-> IF i = 1 THEN q[i] ELSE g[i - 1] \o q[i]]
           flatten == CHOOSE g : Eqn(g)
<1>5. Eqn(f)
  <2>1. f = [i \in 1 .. n |-> f[i]]
    OBVIOUS
  <2> QED
    BY <1>4, <2>1
<1>6. Eqn(flatten)
  <2> HIDE DEF Eqn
  <2> QED
    BY <1>5
<1> HIDE DEF flatten
<1>7. flatten[n] \in Seq(T)
  <2> DEFINE R == {m \in Nat : m + 1 <= n => flatten[m + 1] \in Seq(T)}
  <2>1. 0 \in R
    BY <1>6
  <2>2. ASSUME NEW m \in Nat, m \in R
        PROVE  m + 1 \in R
    <3> SUFFICES ASSUME m + 2 <= n
                 PROVE  flatten[m + 2] \in Seq(T)
      OBVIOUS
    <3>1. flatten[m + 1] \in Seq(T) /\ q[m + 2] \in Seq(T)
      BY <2>2
    <3>2. flatten[m + 2] = flatten[m + 1] \o q[m + 2]
      <4>1. \A i \in 1 .. n : flatten[i] = IF i = 1 THEN q[i] ELSE flatten[i - 1] \o q[i]
        BY <1>6
      <4>2. m + 2 \in 1 .. n /\ m + 2 # 1 /\ (m + 2) - 1 = m + 1
        OBVIOUS
      <4> HIDE DEF Eqn
      <4> QED
        BY <4>1, <4>2
    <3> QED
      BY <3>1, <3>2
  <2>3. Nat \subseteq R
    <3> HIDE DEF R
    <3> QED
      BY <2>1, <2>2, SetInduction
  <2>4. n - 1 \in R /\ (n - 1) + 1 = n
    <3> HIDE DEF R
    <3> QED
      BY <2>3
  <2>5. flatten[(n - 1) + 1] \in Seq(T)
    BY <2>4
  <2> QED
    BY <2>4, <2>5
<1>8. Len(q) = n /\ n # 0
  OBVIOUS
<1>9. FlattenSeq(q) = flatten[n]
  BY <1>8 DEF FlattenSeq, flatten
<1> QED
  BY <1>7, <1>9

LEMMA FastBinsExist == NFASTBINS \in Nat \ {0} /\ FastIdx = 0 .. NFASTBINS - 1
<1> DEFINE s == request2size(MAX_FAST_SIZE)
           q == s \div CHUNK_HDR_SZ
<1>1. s \in Nat /\ s >= Least
  BY RequestFits, ArenaAssumption, Sizes
<1> HIDE DEF s
<1>2. q \in Nat /\ s = CHUNK_HDR_SZ * q + (s % CHUNK_HDR_SZ) /\ s % CHUNK_HDR_SZ \in 0 .. CHUNK_HDR_SZ - 1
  BY <1>1, Sizes, Division
<1>3. NFASTBINS = q - 1
  BY <1>2 DEF NFASTBINS, fastbin_index, s
<1> HIDE DEF q
<1>4. q >= 2
  <2>1. CASE q <= 1
    <3>1. CHUNK_HDR_SZ * q <= CHUNK_HDR_SZ
      BY <1>2, <2>1, Sizes
    <3>2. s < 2 * CHUNK_HDR_SZ
      BY <1>2, <3>1, Sizes
    <3> QED
      BY <1>1, <3>2, Sizes DEF Least
  <2> QED
    BY <1>2, <2>1
<1> QED
  BY <1>2, <1>3, <1>4 DEF FastIdx

LEMMA FastChunksType ==
  ASSUME NEW a \in Fit
  PROVE  FastChunks(a) \in Seq(Int)
<1> DEFINE q == [k \in 1 .. NFASTBINS |-> a.fast[k - 1]]
<1>1. a.fast \in [FastIdx -> Seq(Int)]
  BY DEF Fit, Arenas, Fasts
<1>2. q \in [1 .. NFASTBINS -> Seq(Int)]
  BY <1>1, FastBinsExist
<1> HIDE DEF q
<1>3. FlattenSeq(q) \in Seq(Int)
  BY <1>2, FlattenType, FastBinsExist
<1> QED
  BY <1>3 DEF FastChunks, q

\* A consolidation empties the fast bins, clears their flag, and leaves the tcache.
LEMMA Consolidates ==
  ASSUME NEW a \in Fit
  PROVE  /\ Safe(a, malloc_consolidate(a))
         /\ malloc_consolidate(a).have_fastchunks = FALSE
         /\ malloc_consolidate(a).cached = a.cached
<1> DEFINE none == [i \in FastIdx |-> <<>>]
           b == [a EXCEPT !.have_fastchunks = FALSE, !.fast = none]
           s == FastChunks(a)
<1>1. none \in Fasts
  BY EmptyInts DEF Fasts
<1> HIDE DEF none
<1>2. Safe(a, b) /\ b.have_fastchunks = FALSE /\ b.cached = a.cached
  BY <1>1 DEF Fit, Safe, Arenas, FeetFine
<1>3. malloc_consolidate(a) = AllFreed(a, b, s)
  BY DEF malloc_consolidate, AllFreed, none
<1> HIDE DEF b
<1>4. Keeps(b, AllFreed(a, b, s))
  <2>1. b \in Fit /\ s \in Seq(Int)
    BY <1>2, FastChunksType DEF Safe
  <2> HIDE DEF s
  <2> QED
    BY <2>1, AllFreedKeeps
<1> QED
  BY <1>2, <1>3, <1>4, SafeTrans DEF Keeps

\* The parameters that mp_ keeps; chunks beyond the largest fast bin never count
\* as fast.
Params ==
  {g \in [trim_threshold : Int, top_pad : Nat, mmap_threshold : Int, n_mmaps : Int,
          n_mmaps_max : Int, no_dyn_threshold : BOOLEAN, mmapped_mem : Int,
          sbrk_base : Int, max_fast : Int] :
     \A sz \in Nat : sz >= MINSIZE /\ sz <= g.max_fast => fastbin_index(sz) \in FastIdx}

LEMMA ParamsType ==
  ASSUME NEW g \in Params
  PROVE  /\ g.trim_threshold \in Int /\ g.top_pad \in Nat /\ g.max_fast \in Int
         /\ g.mmap_threshold \in Int /\ g.n_mmaps \in Int /\ g.n_mmaps_max \in Int
         /\ g.mmapped_mem \in Int /\ g.sbrk_base \in Int
  BY DEF Params

LEMMA AlignType ==
  ASSUME NEW x \in Int, NEW n \in Nat \ {0}
  PROVE  ALIGN_DOWN(x, n) \in Int /\ ALIGN_UP(x, n) \in Int
<1>1. x \div n \in Int /\ (x + n - 1) \div n \in Int
  OBVIOUS
<1> QED
  BY <1>1 DEF ALIGN_DOWN, ALIGN_UP

LEMMA BreakKeeps ==
  ASSUME NEW a \in Fit, NEW b \in Int, NEW m \in Int, NEW c \in BOOLEAN
  PROVE  Keeps(a, [a EXCEPT !.brk = b, !.system_mem = m])
         /\ Keeps(a, [a EXCEPT !.contiguous = c, !.system_mem = m])
         /\ Keeps(a, [a EXCEPT !.brk = b])
  BY DEF Fit, Keeps, Safe, Arenas, FeetFine

LEMMA FieldType ==
  ASSUME NEW a \in Fit
  PROVE  /\ a.top \in Int /\ a.brk \in Int /\ a.system_mem \in Int
         /\ a.tcache \in Int /\ a.last_remainder \in Int
         /\ a.have_fastchunks \in BOOLEAN /\ a.contiguous \in BOOLEAN /\ a.died \in BOOLEAN
         /\ a.binmap \subseteq 1 .. NBINS - 1
         /\ a.bins \in Bins /\ a.fast \in Fasts /\ a.cached \in Caches
  BY DEF Fit, Arenas

LEMMA SystrimKeeps ==
  ASSUME NEW a \in Fit, NEW pad \in Int
  PROVE  Keeps(a, systrim(a, pad))
<1> DEFINE top_size == chunksize(a, a.top)
           extra == ALIGN_DOWN((top_size - MINSIZE - 1) - pad, PageSize)
           b == set_head(a, a.top, top_size - extra, TRUE)
<1>1. systrim(a, pad) = a \/ systrim(a, pad) = [b EXCEPT !.brk = @ - extra, !.system_mem = @ - extra]
  BY DEF systrim
<1>2. top_size \in Int /\ extra \in Int /\ a.top \in Int
  BY FitType, FieldType, Sizes, AlignType
<1> HIDE DEF top_size, extra
<1>3. Keeps(a, b)
  <2>1. top_size - extra \in Int
    BY <1>2
  <2> QED
    BY <1>2, <2>1, SetHeadKeeps
<1> HIDE DEF b
<1>4. Keeps(b, [b EXCEPT !.brk = @ - extra, !.system_mem = @ - extra])
  <2>1. b \in Fit
    BY <1>3 DEF Keeps, Safe
  <2>2. b.brk - extra \in Int /\ b.system_mem - extra \in Int
    BY <1>2, <2>1, FieldType
  <2> QED
    BY <2>1, <2>2, BreakKeeps
<1> QED
  BY <1>1, <1>3, <1>4, KeepsTrans, KeepsSelf

LEMMA AfterFreeSafe ==
  ASSUME NEW a \in Fit, NEW p, mp \in Params
  PROVE  Safe(a, AfterFree(a, p))
<1>1. ASSUME NEW b \in Fit PROVE Safe(b, ReduceTop(b))
  <2>1. Keeps(b, systrim(b, mp.top_pad)) /\ Keeps(b, b)
    BY SystrimKeeps, KeepsSelf, ParamsType
  <2> QED
    BY <2>1 DEF ReduceTop, Keeps
<1>2. Safe(a, malloc_consolidate(a)) /\ Safe(a, a)
  BY Consolidates, KeepsSelf DEF Keeps
<1>3. ASSUME NEW b, Safe(a, b) PROVE Safe(a, ReduceTop(b))
  <2>1. b \in Fit
    BY <1>3 DEF Safe
  <2> QED
    BY <1>1, <1>3, <2>1, SafeTrans
<1> QED
  BY <1>2, <1>3 DEF AfterFree

LEMMA CacheKeeps ==
  ASSUME NEW a \in Fit, NEW i, NEW s, i \in CacheIdx => s \in Seq(Int)
  PROVE  /\ Safe(a, [a EXCEPT !.cached[i] = s])
         /\ [a EXCEPT !.cached[i] = s].have_fastchunks = a.have_fastchunks
         /\ [a EXCEPT !.cached[i] = s].bins = a.bins
<1>1. [a.cached EXCEPT ![i] = s] \in Caches
  BY FieldType DEF Caches
<1> QED
  BY <1>1 DEF Fit, Safe, Arenas, FeetFine

LEMMA TcachePutSafe ==
  ASSUME NEW a \in Fit, NEW p \in Int, NEW sz
  PROVE  /\ Safe(a, tcache_put(a, p, sz))
         /\ tcache_put(a, p, sz).have_fastchunks = a.have_fastchunks
         /\ tcache_put(a, p, sz).bins = a.bins
<1> DEFINE i == csize2tidx(sz)
           s == <<p>> \o a.cached[i]
<1>1. tcache_put(a, p, sz) = [a EXCEPT !.cached[i] = s]
  BY DEF tcache_put, Fit, Arenas
<1>2. i \in CacheIdx => s \in Seq(Int)
  BY FieldType DEF Caches
<1> HIDE DEF i, s
<1>3. /\ Safe(a, [a EXCEPT !.cached[i] = s])
      /\ [a EXCEPT !.cached[i] = s].have_fastchunks = a.have_fastchunks
      /\ [a EXCEPT !.cached[i] = s].bins = a.bins
  BY <1>2, CacheKeeps
<1> QED
  BY <1>1, <1>3

LEMMA FastKeeps ==
  ASSUME NEW a \in Fit, NEW i, NEW s, i \in FastIdx => s \in Seq(Int), NEW h \in BOOLEAN
  PROVE  Safe(a, [a EXCEPT !.have_fastchunks = h, !.fast[i] = s])
         /\ Safe(a, [a EXCEPT !.fast[i] = s])
<1>1. [a.fast EXCEPT ![i] = s] \in Fasts
  BY FieldType DEF Fasts
<1> QED
  BY <1>1 DEF Fit, Safe, Arenas, FeetFine

LEMMA FreeFastSafe ==
  ASSUME NEW a \in Fit, NEW p \in Int, NEW i, NEW lock
  PROVE  Safe(a, FreeFast(a, p, i, lock))
<1> DEFINE ok == NextOK(a, p) /\ OldFirstOK(a, p, i, lock)
           b == Checked(a, ok)
           s == <<p>> \o b.fast[i]
<1>1. Keeps(a, b)
  BY CheckedKeeps
<1>2. b \in Fit
  BY <1>1 DEF Keeps, Safe
<1>3. FreeFast(a, p, i, lock) = [b EXCEPT !.have_fastchunks = TRUE, !.fast[i] = s]
  BY <1>2 DEF FreeFast, Fit, Arenas
<1> HIDE DEF b
<1>4. i \in FastIdx => s \in Seq(Int)
  BY <1>2, FieldType DEF Fasts
<1> HIDE DEF s
<1>5. Safe(b, [b EXCEPT !.have_fastchunks = TRUE, !.fast[i] = s])
  BY <1>2, <1>4, FastKeeps
<1> QED
  BY <1>1, <1>3, <1>5, SafeTrans DEF Keeps

LEMMA DeathSafe ==
  ASSUME NEW a \in Fit
  PROVE  Safe(a, [a EXCEPT !.died = TRUE])
  BY DEF Fit, Safe, Arenas, FeetFine

LEMMA IntFreeSafe ==
  ASSUME NEW a \in Fit, NEW p \in Int, NEW lock, mp \in Params
  PROVE  Safe(a, _int_free(a, p, lock))
<1> DEFINE size == chunksize(a, p)
           sound == /\ p # a.top
                    /\ a.contiguous => next_chunk(a, p) < next_chunk(a, a.top)
                    /\ inuse(a, p) /\ NextOK(a, p)
           b == Checked(a, sound)
           c == Coalesce(b, p)
<1>1. CASE size < MINSIZE \/ ~aligned_OK(size) \/ ~aligned_OK(p)
  <2>1. _int_free(a, p, lock) = [a EXCEPT !.died = TRUE]
    BY <1>1 DEF _int_free
  <2> QED
    BY <2>1, DeathSafe
<1>2. CASE ~(size < MINSIZE \/ ~aligned_OK(size) \/ ~aligned_OK(p))
  <2>1. \/ _int_free(a, p, lock) = tcache_put(a, p, size)
        \/ _int_free(a, p, lock) = FreeFast(a, p, fastbin_index(size), lock)
        \/ _int_free(a, p, lock) = AfterFree(c, MergeBase(a, p))
    BY <1>2 DEF _int_free
  <2>2. Keeps(a, b)
    BY CheckedKeeps
  <2>3. Sized(b, p)
    <3>1. chunksize(b, p) = size
      BY DEF Checked, chunksize, Fit, Arenas
    <3>2. size \in Int
      BY FitType
    <3>3. size >= MINSIZE
      BY <1>2, <3>2, Sizes
    <3>4. size >= Least
      BY <3>2, <3>3, Sizes
    <3> QED
      BY <3>1, <3>4 DEF Sized
  <2> HIDE DEF b, size
  <2>4. Keeps(b, c)
    BY <2>2, <2>3, CoalesceKeeps DEF Keeps, Safe
  <2> HIDE DEF c
  <2>5. Safe(c, AfterFree(c, MergeBase(a, p)))
    <3>1. c \in Fit
      BY <2>4 DEF Keeps, Safe
    <3> QED
      BY <3>1, AfterFreeSafe
  <2> QED
    BY <2>1, <2>2, <2>4, <2>5, TcachePutSafe, FreeFastSafe, SafeTrans DEF Keeps
<1> QED
  BY <1>1, <1>2

-----------------------------------------------------------------------------
(* Cutting and binning *)

LEMMA SplitOffKeeps ==
  ASSUME NEW a \in Fit, NEW v \in Int, NEW nb \in Int
  PROVE  Keeps(a, SplitOff(a, v, nb))
<1> DEFINE size == chunksize(a, v)
<1>0. size \in Int
  BY FitType
<1>1. CASE size - nb < MINSIZE
  BY <1>1, InuseBitKeeps DEF SplitOff
<1>2. CASE ~(size - nb < MINSIZE)
  <2> DEFINE rest == size - nb
             r == v + nb
             b == to_unsorted(a, r)
             c == set_head(b, v, nb, TRUE)
             d == set_head(c, r, rest, TRUE)
             e == set_foot(d, r, rest)
  <2>1. SplitOff(a, v, nb) = e
    BY <1>2 DEF SplitOff
  <2>2. rest \in Int /\ rest >= Least /\ r \in Int
    BY <1>0, <1>2, Sizes
  <2> HIDE DEF rest, r
  <2>3. Keeps(a, b)
    BY <2>2, UnsortedKeeps
  <2> HIDE DEF b
  <2>4. Keeps(b, c)
    BY <2>3, SetHeadKeeps DEF Keeps, Safe
  <2> HIDE DEF c
  <2>5. Keeps(c, d)
    BY <2>2, <2>4, SetHeadKeeps DEF Keeps, Safe
  <2> HIDE DEF d
  <2>6. Keeps(d, e)
    BY <2>2, <2>5, SetFootKeeps DEF Keeps, Safe
  <2> QED
    BY <2>1, <2>3, <2>4, <2>5, <2>6, KeepsTrans
<1> QED
  BY <1>1, <1>2

LEMMA SplitTopKeeps ==
  ASSUME NEW a \in Fit, NEW nb \in Int
  PROVE  Keeps(a, SplitTop(a, nb))
<1> DEFINE b == set_head(a, a.top, nb, TRUE)
           n == a.top + nb
           s == chunksize(a, a.top) - nb
           c == set_head(b, n, s, TRUE)
<1>1. SplitTop(a, nb) = [c EXCEPT !.top = n]
  BY DEF SplitTop
<1>2. a.top \in Int /\ n \in Int /\ s \in Int
  BY FitType, FieldType
<1>3. Keeps(a, b)
  BY <1>2, SetHeadKeeps
<1> HIDE DEF b, n, s
<1>4. Keeps(b, c)
  BY <1>2, <1>3, SetHeadKeeps DEF Keeps, Safe
<1> HIDE DEF c
<1>5. Keeps(c, [c EXCEPT !.top = n])
  BY <1>2, <1>4, TopKeeps DEF Keeps, Safe
<1> QED
  BY <1>1, <1>3, <1>4, <1>5, KeepsTrans

LEMMA MinOf ==
  ASSUME NEW S, S \subseteq Nat, S # {}
  PROVE  Min(S) \in S
<1>1. \E x \in S : \A y \in S : x <= y
  BY NatMin
<1> QED
  BY <1>1 DEF Min

\* Every chunk has a bin behind the unsorted list.
LEMMA BinOfSized ==
  ASSUME NEW sz \in Int, sz >= Least
  PROVE  bin_index(sz) \in 2 .. NBINS - 1
<1>0. sz \in Nat /\ NBINS - 1 = LAST_BIN /\ LAST_BIN \in Nat
  BY Sizes, LadderAssumption DEF NBINS
<1>1. CASE in_smallbin_range(sz)
  <2> DEFINE q == sz \div MALLOC_ALIGNMENT
  <2>1. q \in Nat /\ sz = MALLOC_ALIGNMENT * q + (sz % MALLOC_ALIGNMENT)
        /\ sz % MALLOC_ALIGNMENT \in 0 .. MALLOC_ALIGNMENT - 1
    BY <1>0, Sizes, Division
  <2>2. bin_index(sz) = q + SMALLBIN_CORRECTION /\ bin_index(sz) <= NSMALLBINS
    BY <1>0, <1>1, SmallIndex
  <2> HIDE DEF q
  <2>3. q >= 2
    <3>1. CASE q <= 1
      <4>1. MALLOC_ALIGNMENT * q <= MALLOC_ALIGNMENT
        BY <2>1, <3>1, Sizes
      <4>2. sz < 2 * MALLOC_ALIGNMENT
        BY <1>0, <2>1, <4>1, Sizes
      <4> QED
        BY <4>2, <1>0, ArenaAssumption, Sizes DEF Least
    <3> QED
      BY <2>1, <3>1
  <2> QED
    BY <1>0, <2>1, <2>2, <2>3, Layout, SmallShape, SizesAssumption
<1>2. CASE ~in_smallbin_range(sz)
  BY <1>0, <1>2, LargeIndex, SizesAssumption
<1> QED
  BY <1>1, <1>2

LEMMA PlaceInBinKeeps ==
  ASSUME NEW a \in Fit, NEW v \in Int, chunksize(a, v) >= Least
  PROVE  /\ Keeps(a, PlaceInBin(a, v))
         /\ PlaceInBin(a, v).bins[1] = a.bins[1]
<1> DEFINE size == chunksize(a, v)
           i == bin_index(size)
           bin == a.bins[i]
           notLarger == {k \in DOMAIN bin : bin[k] \in a.skip /\ chunksize(a, bin[k]) <= size}
           at == IF notLarger = {} THEN Len(bin) + 1 ELSE Min(notLarger)
           tie == notLarger # {} /\ chunksize(a, bin[at]) = size
           place == IF tie THEN SecondPlace(at) ELSE at
           front == <<v>> \o bin
           mid == InsertAt(bin, place, v)
           skip == IF tie THEN a.skip ELSE a.skip \cup {v}
           map == a.binmap \cup {i}
<1>1. size \in Int /\ i \in 2 .. NBINS - 1
  BY FitType, BinOfSized
<1>2. i \in 1 .. NBINS - 1 /\ i # 1 /\ 1 \in 1 .. NBINS - 1
  <2>1. NBINS - 1 \in Nat
    BY LadderAssumption DEF NBINS
  <2> HIDE DEF size, i
  <2> QED
    BY <1>1, <2>1
<1>3. bin \in Seq(Int) /\ DOMAIN a.bins = 1 .. NBINS - 1
  BY <1>2, FieldType DEF Bins
<1>4. \/ PlaceInBin(a, v) = [a EXCEPT !.binmap = map, !.bins = [a.bins EXCEPT ![i] = front]]
      \/ PlaceInBin(a, v) = [a EXCEPT !.binmap = map, !.bins = [a.bins EXCEPT ![i] = mid], !.skip = skip]
  BY DEF PlaceInBin, mark_bin, Fit, Arenas
<1> HIDE DEF size, i, bin
<1>5. front \in Seq(Int)
  BY <1>3
<1>6. at \in 1 .. Len(bin) + 1 /\ (tie => at \in 1 .. Len(bin))
  <2>1. notLarger \subseteq 1 .. Len(bin)
    BY <1>3
  <2>2. notLarger # {} => Min(notLarger) \in notLarger
    <3>1. notLarger \subseteq Nat
      BY <2>1
    <3> HIDE DEF notLarger
    <3> QED
      BY <3>1, MinOf
  <2>3. Len(bin) \in Nat
    BY <1>3
  <2> HIDE DEF notLarger
  <2>4. CASE notLarger = {}
    <3>1. at = Len(bin) + 1 /\ ~tie
      BY <2>4
    <3> QED
      BY <2>3, <3>1
  <2>5. CASE notLarger # {}
    <3>1. at = Min(notLarger)
      BY <2>5
    <3>2. Min(notLarger) \in 1 .. Len(bin)
      BY <2>1, <2>2, <2>5, Zenon
    <3> HIDE DEF at, tie
    <3>3. at \in 1 .. Len(bin)
      BY <3>1, <3>2, Zenon
    <3> QED
      BY <2>3, <3>3
  <2> QED
    BY <2>4, <2>5
<1> HIDE DEF at, tie
<1>7. place \in 1 .. Len(bin) + 1
  <2>1. Len(bin) \in Nat
    BY <1>3
  <2> QED
    BY <1>6, <2>1 DEF SecondPlace
<1> HIDE DEF place
<1>8. mid \in Seq(Int)
  BY <1>3, <1>7, InsertAtType
<1>9. skip \in SUBSET Int /\ map \in SUBSET (1 .. NBINS - 1)
  BY <1>2 DEF Fit, Arenas
<1> HIDE DEF front, mid, skip, map
<1>10. /\ [a.bins EXCEPT ![i] = front] \in Bins /\ [a.bins EXCEPT ![i] = mid] \in Bins
       /\ [a.bins EXCEPT ![i] = front][1] = a.bins[1] /\ [a.bins EXCEPT ![i] = mid][1] = a.bins[1]
  BY <1>2, <1>3, <1>5, <1>8, BinType
<1> QED
  BY <1>4, <1>9, <1>10 DEF Fit, Keeps, Safe, Arenas, FeetFine

LEMMA UnsortedSized ==
  ASSUME NEW a \in Fit, NEW p, UnsortedOK(a, p), ~a.died
  PROVE  chunksize(a, p) >= Least
<1> DEFINE n == next_chunk(a, p)
<1>1. chunksize(a, p) > 0 /\ prev_size(a, n) = chunksize(a, p)
  BY FitType, Sizes DEF UnsortedOK
<1>2. n \in DOMAIN a.foot /\ prev_size(a, n) = a.foot[n]
  BY <1>1 DEF prev_size
<1> QED
  BY <1>1, <1>2 DEF Fit, FeetFine

-----------------------------------------------------------------------------
(* The ways out of the search *)

\* The chunks s, of size sz, go to the tcache.
AllCached(base, s, sz) ==
  LET put(b, p) == tcache_put(b, p, sz) IN FoldLeft(put, base, s)

LEMMA AllCachedSafe ==
  ASSUME NEW base \in Fit, NEW s \in Seq(Int), NEW sz
  PROVE  Safe(base, AllCached(base, s, sz))
<1> DEFINE V == {b \in Fit : Safe(base, b)}
           next == [x \in V \X Int |-> tcache_put(x[1], x[2], sz)]
           Eqn(g) == g = [t \in SUBSET DOMAIN s |->
                           IF t = {} THEN base ELSE tcache_put(g[t \ {Max(t)}], s[Max(t)], sz)]
           iter == CHOOSE g : Eqn(g)
<1>1. base \in V
  BY KeepsSelf DEF Keeps
<1>2. ASSUME NEW b \in V, NEW p \in Int PROVE tcache_put(b, p, sz) \in V
  <2>1. Safe(base, b) /\ b \in Fit
    OBVIOUS
  <2>2. Safe(b, tcache_put(b, p, sz))
    BY <2>1, TcachePutSafe
  <2>3. Safe(base, tcache_put(b, p, sz)) /\ tcache_put(b, p, sz) \in Fit
    BY <2>1, <2>2, SafeTrans DEF Safe
  <2> QED
    BY <2>3
<1> HIDE DEF V
<1>3. next \in [V \X Int -> V]
  BY <1>2
<1>4. PICK f : IsFold(f, V, next, base, s)
  <2> HIDE DEF next
  <2> QED
    BY <1>1, <1>3, FoldExists
<1>5. \A t \in SUBSET DOMAIN s : t # {} => Max(t) \in t /\ s[Max(t)] \in Int
  <2> SUFFICES ASSUME NEW t \in SUBSET DOMAIN s, t # {}
               PROVE  Max(t) \in t /\ s[Max(t)] \in Int
    OBVIOUS
  <2>1. Len(s) \in Nat /\ DOMAIN s = 1 .. Len(s)
    OBVIOUS
  <2>2. Max(t) \in t
    BY <2>1, MaxOf
  <2> QED
    BY <2>2
<1>6. Eqn(f)
  <2>1. ASSUME NEW t \in SUBSET DOMAIN s
        PROVE  f[t] = IF t = {} THEN base ELSE tcache_put(f[t \ {Max(t)}], s[Max(t)], sz)
    <3>1. CASE t = {}
      BY <1>4, <3>1 DEF IsFold
    <3>2. CASE t # {}
      <4>1. t \ {Max(t)} \in SUBSET DOMAIN s
        OBVIOUS
      <4>2. f[t \ {Max(t)}] \in V /\ s[Max(t)] \in Int
        BY <1>4, <1>5, <3>2, <4>1 DEF IsFold
      <4>3. f[t] = next[<<f[t \ {Max(t)}], s[Max(t)]>>]
        BY <1>4, <3>2 DEF IsFold
      <4> QED
        BY <3>2, <4>2, <4>3
    <3> QED
      BY <3>1, <3>2
  <2>2. f = [t \in SUBSET DOMAIN s |-> f[t]]
    BY <1>4 DEF IsFold
  <2> QED
    BY <2>1, <2>2
<1>7. Eqn(iter)
  <2> HIDE DEF Eqn
  <2> QED
    BY <1>6
<1> HIDE DEF iter
<1>8. iter[1 .. Len(s)] \in V
  <2>1. Len(s) \in Nat /\ DOMAIN s = 1 .. Len(s)
    OBVIOUS
  <2>2. iter[{}] \in V
    BY <1>1, <1>7
  <2>3. ASSUME NEW t \in SUBSET (1 .. Len(s)), t # {}, iter[t \ {Max(t)}] \in V
        PROVE  iter[t] \in V
    <3>1. iter[t] = tcache_put(iter[t \ {Max(t)}], s[Max(t)], sz)
      BY <1>7, <2>1, <2>3
    <3>2. s[Max(t)] \in Int
      BY <1>5, <2>1, <2>3
    <3> QED
      BY <1>2, <2>3, <3>1, <3>2
  <2> QED
    BY <2>1, <2>2, <2>3, FoldStays
<1>9. AllCached(base, s, sz) = iter[DOMAIN s]
  BY DEF AllCached, FoldLeft, MapThenFoldSet, iter
<1>10. iter[DOMAIN s] \in V
  <2>1. DOMAIN s = 1 .. Len(s)
    OBVIOUS
  <2> QED
    BY <1>8, <2>1
<1>11. Safe(base, iter[DOMAIN s])
  BY <1>10 DEF V
<1> QED
  BY <1>9, <1>11

\* The chunks s, of size nb, are marked as in use.
AllUsed(base, s, nb) ==
  LET use(b, p) == set_inuse_bit(b, p + nb) IN FoldLeft(use, base, s)

LEMMA AllUsedSafe ==
  ASSUME NEW base \in Fit, NEW s \in Seq(Int), NEW nb \in Int
  PROVE  Safe(base, AllUsed(base, s, nb))
<1> DEFINE V == {b \in Fit : Safe(base, b)}
           next == [x \in V \X Int |-> set_inuse_bit(x[1], x[2] + nb)]
           Eqn(g) == g = [t \in SUBSET DOMAIN s |->
                           IF t = {} THEN base ELSE set_inuse_bit(g[t \ {Max(t)}], s[Max(t)] + nb)]
           iter == CHOOSE g : Eqn(g)
<1>1. base \in V
  BY KeepsSelf DEF Keeps
<1>2. ASSUME NEW b \in V, NEW p \in Int PROVE set_inuse_bit(b, p + nb) \in V
  <2>1. Safe(base, b) /\ b \in Fit
    OBVIOUS
  <2>2. Safe(b, set_inuse_bit(b, p + nb))
    BY <2>1, InuseBitKeeps DEF Keeps
  <2>3. Safe(base, set_inuse_bit(b, p + nb)) /\ set_inuse_bit(b, p + nb) \in Fit
    BY <2>1, <2>2, SafeTrans DEF Safe
  <2> QED
    BY <2>3
<1> HIDE DEF V
<1>3. next \in [V \X Int -> V]
  BY <1>2
<1>4. PICK f : IsFold(f, V, next, base, s)
  <2> HIDE DEF next
  <2> QED
    BY <1>1, <1>3, FoldExists
<1>5. \A t \in SUBSET DOMAIN s : t # {} => Max(t) \in t /\ s[Max(t)] \in Int
  <2> SUFFICES ASSUME NEW t \in SUBSET DOMAIN s, t # {}
               PROVE  Max(t) \in t /\ s[Max(t)] \in Int
    OBVIOUS
  <2>1. Len(s) \in Nat /\ DOMAIN s = 1 .. Len(s)
    OBVIOUS
  <2>2. Max(t) \in t
    BY <2>1, MaxOf
  <2> QED
    BY <2>2
<1>6. Eqn(f)
  <2>1. ASSUME NEW t \in SUBSET DOMAIN s
        PROVE  f[t] = IF t = {} THEN base ELSE set_inuse_bit(f[t \ {Max(t)}], s[Max(t)] + nb)
    <3>1. CASE t = {}
      BY <1>4, <3>1 DEF IsFold
    <3>2. CASE t # {}
      <4>1. t \ {Max(t)} \in SUBSET DOMAIN s
        OBVIOUS
      <4>2. f[t \ {Max(t)}] \in V /\ s[Max(t)] \in Int
        BY <1>4, <1>5, <3>2, <4>1 DEF IsFold
      <4>3. f[t] = next[<<f[t \ {Max(t)}], s[Max(t)]>>]
        BY <1>4, <3>2 DEF IsFold
      <4> QED
        BY <3>2, <4>2, <4>3
    <3> QED
      BY <3>1, <3>2
  <2>2. f = [t \in SUBSET DOMAIN s |-> f[t]]
    BY <1>4 DEF IsFold
  <2> QED
    BY <2>1, <2>2
<1>7. Eqn(iter)
  <2> HIDE DEF Eqn
  <2> QED
    BY <1>6
<1> HIDE DEF iter
<1>8. iter[1 .. Len(s)] \in V
  <2>1. Len(s) \in Nat /\ DOMAIN s = 1 .. Len(s)
    OBVIOUS
  <2>2. iter[{}] \in V
    BY <1>1, <1>7
  <2>3. ASSUME NEW t \in SUBSET (1 .. Len(s)), t # {}, iter[t \ {Max(t)}] \in V
        PROVE  iter[t] \in V
    <3>1. iter[t] = set_inuse_bit(iter[t \ {Max(t)}], s[Max(t)] + nb)
      BY <1>7, <2>1, <2>3
    <3>2. s[Max(t)] \in Int
      BY <1>5, <2>1, <2>3
    <3> QED
      BY <1>2, <2>3, <3>1, <3>2
  <2> QED
    BY <2>1, <2>2, <2>3, FoldStays
<1>9. AllUsed(base, s, nb) = iter[DOMAIN s]
  BY DEF AllUsed, FoldLeft, MapThenFoldSet, iter
<1>10. iter[DOMAIN s] \in V
  <2>1. DOMAIN s = 1 .. Len(s)
    OBVIOUS
  <2> QED
    BY <1>8, <2>1
<1>11. Safe(base, iter[DOMAIN s])
  BY <1>10 DEF V
<1> QED
  BY <1>9, <1>11

\* Where chunks of a size go in the tcache.
LEMMA CacheIdxOf ==
  ASSUME NEW sz \in Nat, sz >= MINSIZE, csize2tidx(sz) < TCACHE_BINS
  PROVE  csize2tidx(sz) \in CacheIdx
<1> DEFINE x == sz - MINSIZE + MALLOC_ALIGNMENT - 1
<1>1. x \in Nat
  BY Sizes
<1>2. csize2tidx(sz) = x \div MALLOC_ALIGNMENT
  BY DEF csize2tidx
<1> HIDE DEF x
<1>3. csize2tidx(sz) \in Nat
  BY <1>1, <1>2, Sizes, Division
<1> QED
  BY <1>3, ArenaAssumption DEF CacheIdx

LEMMA RoomType ==
  ASSUME NEW sz \in Nat, sz >= MINSIZE, av \in Fit
  PROVE  Room(sz) \in Nat
<1>1. CASE CacheRoom(av, sz)
  <2> DEFINE i == csize2tidx(sz)
  <2>1. i \in CacheIdx
    BY <1>1, CacheIdxOf DEF CacheRoom
  <2>2. Len(av.cached[i]) \in Nat
    <3>1. av.cached[i] \in Seq(Int)
      BY <2>1, FieldType DEF Caches
    <3> QED
      BY <3>1
  <2>3. Len(av.cached[i]) < TCACHE_COUNT /\ Room(sz) = TCACHE_COUNT - Len(av.cached[i])
    BY <1>1 DEF CacheRoom, Room
  <2> QED
    BY <2>2, <2>3, ArenaAssumption
<1>2. CASE ~CacheRoom(av, sz)
  BY <1>2 DEF Room
<1> QED
  BY <1>1, <1>2

LEMMA PairMin ==
  ASSUME NEW x \in Nat, NEW y \in Nat
  PROVE  Min({x, y}) \in Nat /\ Min({x, y}) <= x /\ Min({x, y}) <= y
<1>1. \E z \in {x, y} : \A w \in {x, y} : z <= w
  OBVIOUS
<1>2. Min({x, y}) \in {x, y} /\ \A w \in {x, y} : Min({x, y}) <= w
  BY <1>1 DEF Min
<1> QED
  BY <1>2

LEMMA StashSafe ==
  ASSUME NEW a \in Fit, av \in Fit, NEW s \in Seq(Int), s # <<>>,
         call.nb \in Nat, call.nb >= MINSIZE
  PROVE  /\ Safe(a, Stash(a, s))
         /\ Taken(s) \in 1 .. Len(s)
<1> DEFINE k == Min({Room(call.nb), Len(s) - 1})
<1>1. Len(s) - 1 \in Nat /\ Len(s) \in Nat
  OBVIOUS
<1>2. k \in Nat /\ k <= Len(s) - 1
  BY <1>1, RoomType, PairMin
<1>3. Taken(s) = 1 + k
  BY DEF Taken
<1>4. Stash(a, s) = AllCached(a, SubSeq(s, 2, 1 + k), call.nb)
  BY DEF Stash, AllCached
<1> HIDE DEF k
<1>5. SubSeq(s, 2, 1 + k) \in Seq(Int)
  BY <1>1, <1>2, SubSeqType
<1>6. Safe(a, Stash(a, s))
  BY <1>4, <1>5, AllCachedSafe, Zenon
<1> QED
  BY <1>1, <1>2, <1>3, <1>6

LEMMA FreeTailSafe ==
  ASSUME NEW a \in Fit, NEW p \in Int, NEW newsize \in Int, NEW nb \in Int, mp \in Params
  PROVE  Safe(a, FreeTail(a, p, newsize, nb))
<1> DEFINE b == set_head_size(a, p, newsize)
           c == set_inuse_bit(b, p + newsize)
           d == set_head_size(a, p, nb)
           n == p + nb
           r == newsize - nb
           e == set_head(d, n, r, TRUE)
           f == set_inuse_bit(e, p + newsize)
           g == _int_free(f, n, TRUE)
<1>1. FreeTail(a, p, newsize, nb) = c \/ FreeTail(a, p, newsize, nb) = g
  BY DEF FreeTail
<1>2. n \in Int /\ r \in Int
  OBVIOUS
<1>3. Safe(a, c)
  <2>1. Keeps(a, b)
    BY SetHeadSizeKeeps
  <2> HIDE DEF b
  <2>2. Keeps(b, c)
    BY <2>1, InuseBitKeeps DEF Keeps, Safe
  <2> QED
    BY <2>1, <2>2, SafeTrans DEF Keeps
<1>4. Safe(a, g)
  <2>1. Keeps(a, d)
    BY SetHeadSizeKeeps
  <2> HIDE DEF d, n, r
  <2>2. Keeps(d, e)
    BY <1>2, <2>1, SetHeadKeeps DEF Keeps, Safe
  <2> HIDE DEF e
  <2>3. Keeps(e, f)
    BY <2>2, InuseBitKeeps DEF Keeps, Safe
  <2> HIDE DEF f
  <2>4. Safe(f, g)
    BY <1>2, <2>3, IntFreeSafe DEF Keeps, Safe
  <2> HIDE DEF g
  <2> QED
    BY <2>1, <2>2, <2>3, <2>4, SafeTrans DEF Keeps
<1> QED
  BY <1>1, <1>3, <1>4

LEMMA AlignedInType ==
  ASSUME NEW p \in Int, NEW align \in Nat \ {0}
  PROVE  AlignedIn(p, align) \in Int
<1>1. ALIGN_UP(mem_of(p), align) \in Int
  BY AlignType, Sizes DEF mem_of
<1> QED
  BY <1>1, Sizes DEF AlignedIn

LEMMA FreeLeadSafe ==
  ASSUME NEW a \in Fit, NEW p \in Int, NEW newp \in Int, mp \in Params
  PROVE  Safe(a, FreeLead(a, p, newp))
<1> DEFINE s == chunksize(a, p) - (newp - p)
           b == set_head(a, newp, s, TRUE)
           c == set_inuse_bit(b, newp + s)
           n == newp - p
           d == set_head_size(c, p, n)
           e == _int_free(d, p, TRUE)
<1>1. FreeLead(a, p, newp) = a \/ FreeLead(a, p, newp) = e
  BY DEF FreeLead
<1>2. s \in Int /\ n \in Int
  BY FitType
<1> HIDE DEF s, n
<1>3. Keeps(a, b)
  BY <1>2, SetHeadKeeps
<1> HIDE DEF b
<1>4. Keeps(b, c)
  BY <1>3, InuseBitKeeps DEF Keeps, Safe
<1> HIDE DEF c
<1>5. Keeps(c, d)
  BY <1>2, <1>4, SetHeadSizeKeeps DEF Keeps, Safe
<1> HIDE DEF d
<1>6. Safe(d, e)
  BY <1>5, IntFreeSafe DEF Keeps, Safe
<1> HIDE DEF e
<1>7. Safe(a, a)
  BY KeepsSelf DEF Keeps
<1> QED
  BY <1>1, <1>3, <1>4, <1>5, <1>6, <1>7, SafeTrans DEF Keeps

LEMMA FreeSpareSafe ==
  ASSUME NEW a \in Fit, NEW p \in Int, NEW nb \in Int, mp \in Params
  PROVE  Safe(a, FreeSpare(a, p, nb))
<1> DEFINE n == p + nb
           r == chunksize(a, p) - nb
           b == set_head(a, n, r, TRUE)
           c == set_head_size(b, p, nb)
           d == _int_free(c, n, TRUE)
<1>1. FreeSpare(a, p, nb) = a \/ FreeSpare(a, p, nb) = d
  BY DEF FreeSpare
<1>2. n \in Int /\ r \in Int
  BY FitType
<1> HIDE DEF n, r
<1>3. Keeps(a, b)
  BY <1>2, SetHeadKeeps
<1> HIDE DEF b
<1>4. Keeps(b, c)
  BY <1>3, SetHeadSizeKeeps DEF Keeps, Safe
<1> HIDE DEF c
<1>5. Safe(c, d)
  BY <1>2, <1>4, IntFreeSafe DEF Keeps, Safe
<1> HIDE DEF d
<1>6. Safe(a, a)
  BY KeepsSelf DEF Keeps
<1> QED
  BY <1>1, <1>3, <1>4, <1>5, <1>6, SafeTrans DEF Keeps

LEMMA NewTopSafe ==
  ASSUME NEW a \in Fit, NEW at \in Int, NEW size \in Int, av \in Fit, mp \in Params
  PROVE  Safe(a, NewTop(a, at, size))
<1> DEFINE b == [a EXCEPT !.top = at]
           moved == set_head(b, at, size, TRUE)
           kept == ALIGN_DOWN(old_size - 2 * CHUNK_HDR_SZ, MALLOC_ALIGNMENT)
           fence == av.top + kept
           c == set_head(moved, av.top, kept, TRUE)
           d == set_head(c, fence, CHUNK_HDR_SZ, TRUE)
           fenced == set_head(d, fence + CHUNK_HDR_SZ, CHUNK_HDR_SZ, TRUE)
           e == _int_free(fenced, av.top, TRUE)
<1>1. NewTop(a, at, size) = moved \/ NewTop(a, at, size) = fenced \/ NewTop(a, at, size) = e
  BY DEF NewTop
<1>2. kept \in Int /\ av.top \in Int /\ fence \in Int /\ CHUNK_HDR_SZ \in Int
      /\ fence + CHUNK_HDR_SZ \in Int
  <2>1. old_size - 2 * CHUNK_HDR_SZ \in Int
    BY FitType, Sizes DEF old_size
  <2>2. kept \in Int
    BY <2>1, AlignType, Sizes
  <2> HIDE DEF kept
  <2> QED
    BY <2>2, FieldType, Sizes
<1> HIDE DEF kept, fence
<1>3. Keeps(a, b)
  BY TopKeeps
<1> HIDE DEF b
<1>4. Keeps(b, moved)
  BY <1>3, SetHeadKeeps DEF Keeps, Safe
<1> HIDE DEF moved
<1>5. Keeps(moved, c)
  BY <1>2, <1>4, SetHeadKeeps DEF Keeps, Safe
<1> HIDE DEF c
<1>6. Keeps(c, d)
  BY <1>2, <1>5, SetHeadKeeps DEF Keeps, Safe
<1> HIDE DEF d
<1>7. Keeps(d, fenced)
  BY <1>2, <1>6, SetHeadKeeps DEF Keeps, Safe
<1> HIDE DEF fenced
<1>8. Safe(fenced, e)
  BY <1>2, <1>7, IntFreeSafe DEF Keeps, Safe
<1> HIDE DEF e
<1>9. Safe(a, moved)
  BY <1>3, <1>4, SafeTrans DEF Keeps
<1>10. Safe(a, fenced)
  BY <1>5, <1>6, <1>7, <1>9, SafeTrans DEF Keeps
<1> QED
  BY <1>1, <1>8, <1>9, <1>10, SafeTrans

-----------------------------------------------------------------------------
(* The states of a call *)

Kinds == {"malloc", "calloc", "free", "realloc", "copy", "memalign"}
Ops == [kind : Kinds, mem : Int, align : Nat \ {0}, bytes : Nat]

Searches ==
  {c \in [pc : {"bins", "unsorted"}, op : Ops, init : BOOLEAN, nb : Nat, idx : Int,
          return_cached : BOOLEAN, iters : Int, tried_mmap : BOOLEAN] :
     /\ c.nb >= MINSIZE /\ c.idx = bin_index(c.nb)
     /\ c.init \/ c.op.kind # "free"}
Founds ==
  {c \in [pc : {"got"}, op : Ops, init : BOOLEAN, p : Int] :
     c.init \/ c.op.kind # "free"}
Resumed == [pc : {"resume"}, op : Ops]
Unmapping == {c \in [pc : {"unmap"}, op : Ops] : c.op.kind = "copy"}
Calls == {Idle} \cup Searches \cup Founds \cup Resumed \cup Unmapping

Mappings == Partial(Int, [sz : Int, prev_size : Int])

\* The exact fit that a search has put into the tcache stays there.
CachedStays ==
  call \in Searches /\ call.return_cached =>
    csize2tidx(call.nb) \in CacheIdx /\ av.cached[csize2tidx(call.nb)] # <<>>

\* The mapped chunk that is copied stays mapped.
CopyMapped ==
  call # Idle /\ call.op.kind = "copy" => call.op.mem \in DOMAIN mmapped

Alive ==
  /\ av \in Fit /\ mp \in Params /\ mmapped \in Mappings /\ live \in Partial(Int, Nat)
  /\ call \in Calls /\ CachedStays /\ CopyMapped

\* While the process has not died, its state is sound.
MInv == av.died \/ Alive

\* What every step of a call does.
Advances == MInv' /\ (call = Idle \/ av'.died \/ LexBelow(Pending', Pending))

\* How much an early phase weighs: one of a copy is behind one of a realloc.
Early(c) == IF c.op.kind = "copy" THEN 3 ELSE 6

LEMMA CallShape ==
  ASSUME NEW c \in Calls
  PROVE  /\ c.pc = "idle" <=> c = Idle
         /\ c \in Searches <=> c.pc \in {"bins", "unsorted"}
         /\ c \in Founds <=> c.pc = "got"
         /\ c \in Resumed <=> c.pc = "resume"
         /\ c \in Unmapping <=> c.pc = "unmap"
         /\ c # Idle => c.op \in Ops
<1>1. Idle.pc = "idle" /\ Idle = [pc |-> "idle"]
  BY DEF Idle
<1>2. /\ \A d \in Searches : d.pc \in {"bins", "unsorted"} /\ d.op \in Ops
      /\ \A d \in Founds : d.pc = "got" /\ d.op \in Ops
      /\ \A d \in Resumed : d.pc = "resume" /\ d.op \in Ops
      /\ \A d \in Unmapping : d.pc = "unmap" /\ d.op \in Ops
  BY DEF Searches, Founds, Resumed, Unmapping
<1> QED
  BY <1>1, <1>2 DEF Calls

LEMMA SearchType ==
  ASSUME NEW c \in Searches
  PROVE  /\ c.op \in Ops /\ c.init \in BOOLEAN /\ c.nb \in Nat /\ c.nb >= MINSIZE
         /\ c.idx = bin_index(c.nb) /\ c.return_cached \in BOOLEAN
         /\ c.tried_mmap \in BOOLEAN /\ c.pc \in {"bins", "unsorted"} /\ c.iters \in Int
         /\ c.init \/ c.op.kind # "free"
  BY DEF Searches

LEMMA FoundType ==
  ASSUME NEW c \in Founds
  PROVE  /\ c.op \in Ops /\ c.init \in BOOLEAN /\ c.p \in Int /\ c.pc = "got"
         /\ c.init \/ c.op.kind # "free"
  BY DEF Founds

LEMMA PhaseOf ==
  /\ Phase(Idle) = 0
  /\ \A c \in Unmapping : Phase(c) = 1
  /\ \A c \in Founds : Phase(c) = IF c.init THEN Early(c) + 2 ELSE 2
  /\ \A c \in Searches : Phase(c) = IF c.init THEN Early(c) + 3 ELSE 3
  /\ \A c \in Resumed : Phase(c) = Early(c) + 1
<1>1. Phase(Idle) = 0
  BY DEF Phase, Idle
<1>2. \A c \in Unmapping : Phase(c) = 1
  BY DEF Phase, Unmapping
<1>3. ASSUME NEW c \in Founds PROVE Phase(c) = IF c.init THEN Early(c) + 2 ELSE 2
  BY FoundType DEF Phase, Early
<1>4. ASSUME NEW c \in Searches PROVE Phase(c) = IF c.init THEN Early(c) + 3 ELSE 3
  BY SearchType DEF Phase, Early
<1>5. ASSUME NEW c \in Resumed PROVE Phase(c) = Early(c) + 1
  BY DEF Phase, Early, Resumed
<1> QED
  BY <1>1, <1>2, <1>3, <1>4, <1>5

LEMMA EarlyIs == ASSUME NEW c PROVE Early(c) \in {3, 6}
  BY DEF Early

LEMMA PhaseType == ASSUME NEW c \in Calls PROVE Phase(c) \in Nat
<1>1. Early(c) \in Nat
  BY EarlyIs
<1> QED
  BY <1>1, PhaseOf DEF Calls

\* A step to a later phase leaves less to do.
LEMMA PhaseFalls ==
  ASSUME call \in Calls, call' \in Calls, Phase(call') < Phase(call)
  PROVE  LexBelow(Pending', Pending)
<1> DEFINE s == Pending'
           t == Pending
<1>1. s[1] = Phase(call') /\ 1 \in DOMAIN s
  BY DEF Pending
<1>2. t[1] = Phase(call)
  BY DEF Pending
<1> HIDE DEF s, t
<1>3. s[1] < t[1]
  BY <1>1, <1>2
<1>4. LexBelow(s, t)
  BY <1>1, <1>3 DEF LexBelow
<1> QED
  BY <1>4 DEF s, t

LEMMA GotType ==
  ASSUME NEW op \in Ops, NEW init \in BOOLEAN, NEW p \in Int, init \/ op.kind # "free"
  PROVE  /\ Got(op, init, p) \in Founds /\ Got(op, init, p).op = op
         /\ Got(op, init, p).init = init
  BY DEF Got, Founds

LEMMA ResumeType ==
  ASSUME NEW op \in Ops
  PROVE  [pc |-> "resume", op |-> op] \in Resumed /\ [pc |-> "resume", op |-> op].op = op
  BY DEF Resumed

\* A search that has found a chunk.
LEMMA FoundSteps ==
  ASSUME Alive, call \in Searches, NEW a \in Fit, NEW p \in Int, Found(a, p),
         mp' \in Params, mmapped' \in Mappings, DOMAIN mmapped \subseteq DOMAIN mmapped'
  PROVE  Advances
<1>1. call.op \in Ops /\ call.init \in BOOLEAN /\ (call.init \/ call.op.kind # "free")
  BY SearchType
<1>2. call' \in Founds /\ call'.op = call.op /\ call'.init = call.init
  BY <1>1, GotType DEF Found
<1>3. call' \in Calls /\ call' \notin Searches
  <2>1. call' \in Calls
    BY <1>2 DEF Calls
  <2> QED
    BY <1>2, <2>1, CallShape
<1>4. CachedStays'
  BY <1>3 DEF CachedStays
<1>5. CopyMapped'
  <2>1. call # Idle
    BY CallShape, SearchType DEF Alive
  <2> QED
    BY <1>2, <2>1 DEF CopyMapped, Alive
<1>6. MInv'
  BY <1>3, <1>4, <1>5 DEF MInv, Alive, Found
<1>7. Phase(call') < Phase(call)
  <2>1. Early(call') = Early(call) /\ Early(call) \in {3, 6}
    BY <1>2, EarlyIs DEF Early
  <2> QED
    BY <1>1, <1>2, <2>1, PhaseOf
<1>8. LexBelow(Pending', Pending)
  BY <1>3, <1>7, PhaseFalls DEF Alive
<1> QED
  BY <1>6, <1>8 DEF Advances

\* A search that has found nothing.
LEMMA NotFoundSteps ==
  ASSUME Alive, call \in Searches, NEW a \in Fit, NotFound(a),
         mp' \in Params, mmapped' \in Mappings, DOMAIN mmapped \subseteq DOMAIN mmapped'
  PROVE  Advances
<1>1. call.op \in Ops /\ call.init \in BOOLEAN
  BY SearchType
<1>2. \/ call' \in Resumed /\ call'.op = call.op /\ call.init
      \/ call' = Idle
  BY <1>1, ResumeType DEF NotFound
<1>3. call' \in Calls /\ call' \notin Searches
  <2>1. call' \in Calls
    BY <1>2 DEF Calls
  <2> QED
    BY <1>2, <2>1, CallShape
<1>4. CachedStays'
  BY <1>3 DEF CachedStays
<1>5. CopyMapped'
  <2>1. call # Idle
    BY CallShape, SearchType DEF Alive
  <2> QED
    BY <1>2, <2>1 DEF CopyMapped, Alive
<1>6. MInv'
  BY <1>3, <1>4, <1>5 DEF MInv, Alive, NotFound
<1>7. Phase(call') < Phase(call)
  <2>1. Early(call) \in {3, 6} /\ (call' # Idle => Early(call') = Early(call))
    BY <1>2, EarlyIs DEF Early
  <2> QED
    BY <1>1, <1>2, <2>1, PhaseOf
<1>8. LexBelow(Pending', Pending)
  BY <1>3, <1>7, PhaseFalls DEF Alive
<1> QED
  BY <1>6, <1>8 DEF Advances

\* A search that goes on: one of the weights falls, and those before it stay.
Flag(P) == IF P THEN 1 ELSE 0
Weights(b, c) ==
  <<Phase(c), Flag(c.pc = "bins"), Flag(b.have_fastchunks), Len(b.bins[1]), Flag(~c.tried_mmap)>>

LEMMA WeightsFall ==
  ASSUME NEW s, NEW t, NEW k \in 1 .. 5, DOMAIN s = 1 .. 5, s[k] < t[k],
         \A j \in 1 .. k - 1 : s[j] = t[j]
  PROVE  LexBelow(s, t)
  BY DEF LexBelow

LEMMA SearchGoesOn ==
  ASSUME Alive, call \in Searches, call' \in Searches,
         call'.op = call.op, call'.init = call.init,
         av' \in Fit, UNCHANGED <<mp, mmapped, live>>, CachedStays',
         \/ Flag(call'.pc = "bins") < Flag(call.pc = "bins")
         \/ /\ call'.pc = call.pc
            /\ \/ Flag(av'.have_fastchunks) < Flag(av.have_fastchunks)
               \/ /\ av'.have_fastchunks = av.have_fastchunks
                  /\ \/ Len(av'.bins[1]) < Len(av.bins[1])
                     \/ /\ av'.bins[1] = av.bins[1]
                        /\ Flag(~call'.tried_mmap) < Flag(~call.tried_mmap)
  PROVE  Advances
<1>1. call' \in Calls
  BY DEF Calls
<1>2. CopyMapped'
  <2>1. call # Idle
    BY CallShape, SearchType DEF Alive
  <2> QED
    BY <2>1 DEF CopyMapped, Alive
<1>3. MInv'
  BY <1>1, <1>2 DEF MInv, Alive
<1>4. Phase(call') = Phase(call)
  <2>1. Early(call') = Early(call)
    BY DEF Early
  <2> QED
    BY <2>1, PhaseOf
<1>5. Pending = Weights(av, call) /\ Pending' = Weights(av', call')
  BY SearchType DEF Pending, Weights, Flag
<1> DEFINE s == Weights(av', call')
           t == Weights(av, call)
<1>6. DOMAIN s = 1 .. 5 /\ s[1] = t[1]
  BY <1>4 DEF Weights
<1>7. CASE Flag(call'.pc = "bins") < Flag(call.pc = "bins")
  <2>1. s[2] < t[2]
    BY <1>7 DEF Weights
  <2> HIDE DEF s, t
  <2>2. \A j \in 1 .. 2 - 1 : s[j] = t[j]
    BY <1>6
  <2> QED
    BY <1>3, <1>5, <1>6, <2>1, <2>2, WeightsFall DEF Advances, s, t
<1>8. CASE call'.pc = call.pc /\ Flag(av'.have_fastchunks) < Flag(av.have_fastchunks)
  <2>1. s[2] = t[2] /\ s[3] < t[3]
    BY <1>8 DEF Weights
  <2> HIDE DEF s, t
  <2>2. \A j \in 1 .. 3 - 1 : s[j] = t[j]
    BY <1>6, <2>1
  <2> QED
    BY <1>3, <1>5, <1>6, <2>1, <2>2, WeightsFall DEF Advances, s, t
<1>9. CASE /\ call'.pc = call.pc /\ av'.have_fastchunks = av.have_fastchunks
           /\ Len(av'.bins[1]) < Len(av.bins[1])
  <2>1. s[2] = t[2] /\ s[3] = t[3] /\ s[4] < t[4]
    BY <1>9 DEF Weights
  <2> HIDE DEF s, t
  <2>2. \A j \in 1 .. 4 - 1 : s[j] = t[j]
    BY <1>6, <2>1
  <2> QED
    BY <1>3, <1>5, <1>6, <2>1, <2>2, WeightsFall DEF Advances, s, t
<1>10. CASE /\ call'.pc = call.pc /\ av'.have_fastchunks = av.have_fastchunks
            /\ av'.bins[1] = av.bins[1] /\ Flag(~call'.tried_mmap) < Flag(~call.tried_mmap)
  <2>1. s[2] = t[2] /\ s[3] = t[3] /\ s[4] = t[4] /\ s[5] < t[5]
    BY <1>10 DEF Weights
  <2> HIDE DEF s, t
  <2>2. \A j \in 1 .. 5 - 1 : s[j] = t[j]
    BY <1>6, <2>1
  <2> QED
    BY <1>3, <1>5, <1>6, <2>1, <2>2, WeightsFall DEF Advances, s, t
<1> QED
  BY <1>7, <1>8, <1>9, <1>10

-----------------------------------------------------------------------------
(* The steps of a search *)

LEMMA InSearch ==
  ASSUME MInv, At("bins") \/ At("unsorted")
  PROVE  Alive /\ call \in Searches /\ ~av.died
<1>1. Alive /\ ~av.died /\ call.pc \in {"bins", "unsorted"}
  BY DEF At, MInv
<1> QED
  BY <1>1, CallShape DEF Alive

\* What does not touch mp_ or the mappings.
LEMMA Untouched ==
  ASSUME Alive, UNCHANGED <<mp, mmapped>>
  PROVE  mp' \in Params /\ mmapped' \in Mappings /\ DOMAIN mmapped \subseteq DOMAIN mmapped'
  BY DEF Alive

LEMMA FastbinServesSteps == ASSUME MInv, FastbinServes PROVE Advances
<1> DEFINE i == fastbin_index(call.nb)
           s == FastList
           ok == chunksize(av, FastList[1]) = call.nb
           b == Stash(av, s)
           c == Checked(b, ok)
           t == SubSeq(c.fast[i], Taken(s) + 1, Len(c.fast[i]))
           a == [c EXCEPT !.fast[i] = t]
<1>1. Alive /\ call \in Searches /\ s # <<>>
  BY InSearch DEF FastbinServes
<1>2. call.nb \in Nat /\ call.nb >= MINSIZE /\ call.nb <= mp.max_fast
  BY <1>1, SearchType DEF FastList
<1>3. i \in FastIdx
  BY <1>1, <1>2 DEF Alive, Params
<1>4. av \in Fit /\ s = av.fast[i]
  BY <1>1, <1>2 DEF Alive, FastList
<1> HIDE DEF s
<1>5. s \in Seq(Int) /\ s # <<>>
  BY <1>1, <1>3, <1>4, FieldType DEF Fasts
<1>6. Safe(av, b) /\ Taken(s) \in 1 .. Len(s)
  BY <1>2, <1>4, <1>5, StashSafe
<1> HIDE DEF b
<1>7. Keeps(b, c)
  BY <1>6, CheckedKeeps DEF Safe
<1>8. c \in Fit /\ Taken(s) + 1 \in Nat \ {0}
  BY <1>6, <1>7 DEF Keeps, Safe
<1> HIDE DEF c, i
<1>9. c.fast[i] \in Seq(Int)
  BY <1>3, <1>8, FieldType DEF Fasts
<1>10. t \in Seq(Int)
  <2>1. Len(c.fast[i]) \in Int /\ Len(c.fast[i]) <= Len(c.fast[i])
    BY <1>9
  <2> QED
    BY <1>8, <1>9, <2>1, SubSeqType
<1>11. [c EXCEPT !.fast[i] = SubSeq(@, Taken(s) + 1, Len(@))] = a
  BY <1>8, FieldType DEF Fit, Arenas
<1> HIDE DEF t
<1>12. a \in Fit
  BY <1>8, <1>10, FastKeeps DEF Safe
<1>13. s[1] \in Int
  BY <1>5
<1>14. Found(a, s[1])
  BY <1>11 DEF FastbinServes, a, b, c, s, i
<1>15. UNCHANGED <<mp, mmapped>>
  BY DEF FastbinServes
<1> HIDE DEF a
<1> QED
  BY <1>1, <1>12, <1>13, <1>14, <1>15, Untouched, FoundSteps

LEMMA ReverseType == ASSUME NEW T, NEW s \in Seq(T) PROVE Reverse(s) \in Seq(T) /\ Len(Reverse(s)) = Len(s)
<1>1. Reverse(s) = [i \in 1 .. Len(s) |-> s[Len(s) - i + 1]]
  BY DEF Reverse
<1>2. \A i \in 1 .. Len(s) : Len(s) - i + 1 \in 1 .. Len(s)
  OBVIOUS
<1> QED
  BY <1>1, <1>2

LEMMA OwnBin ==
  ASSUME NEW a \in Fit, NEW nb \in Nat, nb >= MINSIZE
  PROVE  bin_index(nb) \in 2 .. NBINS - 1 /\ bin_index(nb) \in 1 .. NBINS - 1
         /\ a.bins[bin_index(nb)] \in Seq(Int) /\ a.bins[1] \in Seq(Int) /\ 1 \in 1 .. NBINS - 1
<1>1. bin_index(nb) \in 2 .. NBINS - 1
  <2>1. NBINS - 1 = LAST_BIN
    BY LadderAssumption DEF NBINS
  <2> QED
    BY <2>1, BinExists
<1>2. NBINS - 1 \in Nat
  BY LadderAssumption DEF NBINS
<1>3. bin_index(nb) \in 1 .. NBINS - 1 /\ 1 \in 1 .. NBINS - 1
  BY <1>1, <1>2
<1> QED
  BY <1>1, <1>3, FieldType DEF Bins

LEMMA SmallbinServesSteps == ASSUME MInv, SmallbinServes PROVE Advances
<1> DEFINE i == call.idx
           s == SmallList
           left == SubSeq(av.bins[i], 1, Len(s) - Taken(s))
           b == Stash(av, s)
           first == SubSeq(s, 1, Taken(s))
           c == AllUsed(b, first, call.nb)
           a == [c EXCEPT !.bins[i] = left]
<1>1. Alive /\ call \in Searches /\ s # <<>>
  BY InSearch DEF SmallbinServes
<1>2. call.nb \in Nat /\ call.nb >= MINSIZE /\ i = bin_index(call.nb) /\ av \in Fit
  BY <1>1, SearchType DEF Alive
<1>3. i \in 1 .. NBINS - 1 /\ av.bins[i] \in Seq(Int)
  BY <1>2, OwnBin
<1>4. s = Reverse(av.bins[i])
  BY <1>1 DEF SmallList
<1> HIDE DEF s, i
<1>5. s \in Seq(Int) /\ s # <<>> /\ Len(s) = Len(av.bins[i])
  BY <1>1, <1>3, <1>4, ReverseType
<1>6. Safe(av, b) /\ Taken(s) \in 1 .. Len(s)
  BY <1>2, <1>5, StashSafe
<1> HIDE DEF b
<1>7. first \in Seq(Int) /\ left \in Seq(Int)
  <2>1. /\ Taken(s) \in Int /\ Taken(s) <= Len(s)
        /\ Len(s) - Taken(s) \in Int /\ Len(s) - Taken(s) <= Len(av.bins[i])
    BY <1>5, <1>6
  <2> DEFINE m == Taken(s)
             n == Len(s) - Taken(s)
             bin == av.bins[i]
  <2>2. 1 \in Nat \ {0}
    OBVIOUS
  <2> HIDE DEF m, n, bin
  <2>3. SubSeq(s, 1, m) \in Seq(Int)
    <3>1. m \in Int /\ m <= Len(s)
      BY <2>1 DEF m
    <3> QED
      BY <1>5, <2>2, <3>1, SubSeqType
  <2>4. SubSeq(bin, 1, n) \in Seq(Int)
    <3>1. n \in Int /\ n <= Len(bin) /\ bin \in Seq(Int)
      BY <1>3, <2>1 DEF n, bin
    <3> QED
      BY <2>2, <3>1, SubSeqType
  <2> QED
    BY <2>3, <2>4 DEF m, n, bin
<1>8. Safe(b, c)
  <2>1. b \in Fit /\ call.nb \in Int
    BY <1>2, <1>6 DEF Safe
  <2> HIDE DEF first
  <2> QED
    BY <1>7, <2>1, AllUsedSafe
<1> HIDE DEF c, left
<1>9. a \in Fit
  <2>1. c \in Fit
    BY <1>8 DEF Safe
  <2>2. [c.bins EXCEPT ![i] = left] \in Bins
    BY <1>3, <1>7, <2>1, BinType
  <2>3. a = [c EXCEPT !.bins = [c.bins EXCEPT ![i] = left]]
    OBVIOUS
  <2> HIDE DEF a
  <2> QED
    BY <2>1, <2>2, <2>3, BinsKeep DEF Keeps, Safe
<1>10. s[1] \in Int
  BY <1>5
<1>11. Found(a, s[1])
  BY DEF SmallbinServes, AllUsed, a, b, c, s, i, left
<1>12. UNCHANGED <<mp, mmapped>>
  BY DEF SmallbinServes
<1> HIDE DEF a
<1> QED
  BY <1>1, <1>9, <1>10, <1>11, <1>12, Untouched, FoundSteps

LEMMA SearchWith ==
  ASSUME NEW c \in Searches
  PROVE  /\ \A pc \in {"bins", "unsorted"} : [c EXCEPT !.pc = pc] \in Searches
         /\ \A r \in BOOLEAN : [c EXCEPT !.return_cached = r] \in Searches
         /\ \A n \in Int : [c EXCEPT !.iters = n] \in Searches
         /\ \A n \in Int : [c EXCEPT !.idx = bin_index(c.nb), !.iters = n] \in Searches
         /\ \A t \in BOOLEAN : [c EXCEPT !.tried_mmap = t] \in Searches
<1>1. /\ \A pc \in {"bins", "unsorted"} : [c EXCEPT !.pc = pc] \in Searches
      /\ \A r \in BOOLEAN : [c EXCEPT !.return_cached = r] \in Searches
  BY DEF Searches
<1>2. /\ \A n \in Int : [c EXCEPT !.iters = n] \in Searches
      /\ \A t \in BOOLEAN : [c EXCEPT !.tried_mmap = t] \in Searches
  BY DEF Searches
<1>3. ASSUME NEW n \in Int
      PROVE  [c EXCEPT !.idx = bin_index(c.nb), !.iters = n] \in Searches
  <2>1. bin_index(c.nb) = c.idx
    BY SearchType
  <2>2. [c EXCEPT !.idx = bin_index(c.nb), !.iters = n] = [c EXCEPT !.iters = n]
    BY <2>1 DEF Searches
  <2> QED
    BY <1>2, <2>2
<1> QED
  BY <1>1, <1>2, <1>3

LEMMA EntersLoopSteps == ASSUME MInv, EntersLoop PROVE Advances
<1>1. Alive /\ call \in Searches /\ call.pc = "bins"
  BY InSearch DEF EntersLoop, At
<1>2. call' = [call EXCEPT !.pc = "unsorted"]
  BY DEF EntersLoop
<1>3. call' \in Searches /\ call'.op = call.op /\ call'.init = call.init /\ call'.pc = "unsorted"
      /\ call'.nb = call.nb /\ call'.return_cached = call.return_cached
  <2>1. call' \in Searches
    BY <1>1, <1>2, SearchWith
  <2> QED
    BY <1>1, <1>2, <2>1 DEF Searches
<1>4. av' \in Fit /\ av'.cached = av.cached
  <2>1. av \in Fit
    BY <1>1 DEF Alive
  <2>2. malloc_consolidate(av) \in Fit /\ malloc_consolidate(av).cached = av.cached
    BY <2>1, Consolidates DEF Safe
  <2> QED
    BY <2>1, <2>2 DEF EntersLoop
<1>5. CachedStays'
  BY <1>1, <1>3, <1>4 DEF CachedStays, Alive
<1>6. Flag(call'.pc = "bins") < Flag(call.pc = "bins")
  BY <1>1, <1>3 DEF Flag
<1>7. UNCHANGED <<mp, mmapped, live>>
  BY DEF EntersLoop
<1> QED
  BY <1>1, <1>3, <1>4, <1>5, <1>6, <1>7, SearchGoesOn

\* The chunk at the end of the unsorted list, and the arena without it there.
LEMMA VictimTaken ==
  ASSUME MInv, HasUnsorted
  PROVE  /\ Alive /\ call \in Searches /\ call.pc = "unsorted" /\ ~av.died /\ av \in Fit
         /\ call.nb \in Nat /\ call.nb >= MINSIZE
         /\ Victim \in Int
         /\ Keeps(av, TakenOff) /\ TakenOff \in Fit
         /\ Len(TakenOff.bins[1]) < Len(av.bins[1])
         /\ \A p : chunksize(TakenOff, p) = chunksize(av, p)
         /\ TakenOff.died \/ UnsortedOK(av, Victim)
<1> DEFINE s == av.bins[1]
           b == Checked(av, UnsortedOK(av, Victim))
<1>1. Alive /\ call \in Searches /\ call.pc = "unsorted" /\ ~av.died /\ av \in Fit
  BY InSearch DEF HasUnsorted, At, Alive
<1>2. call.nb \in Nat /\ call.nb >= MINSIZE
  BY <1>1, SearchType
<1>3. s \in Seq(Int) /\ s # <<>> /\ 1 \in 1 .. NBINS - 1
  BY <1>1, <1>2, OwnBin DEF HasUnsorted
<1>4. Victim = s[Len(s)]
  BY DEF Victim, Last
<1>5. Keeps(av, b) /\ (b.died \/ UnsortedOK(av, Victim)) /\ b.bins = av.bins /\ b.hdr = av.hdr
  <2>1. UnsortedOK(av, Victim) \in BOOLEAN
    BY DEF UnsortedOK
  <2>2. b.bins = av.bins /\ b.hdr = av.hdr
    BY <1>1 DEF Checked, Fit, Arenas
  <2> QED
    BY <1>1, <2>1, <2>2, CheckedKeeps
<1>6. TakenOff = [b EXCEPT !.bins = [av.bins EXCEPT ![1] = Front(s)]]
  BY <1>1, <1>5 DEF TakenOff, Keeps, Safe, Fit, Arenas
<1> HIDE DEF b, s
<1>7. Victim \in Int /\ Len(s) \in Nat /\ Front(s) \in Seq(Int) /\ Len(Front(s)) < Len(s)
  <2>1. Len(s) \in Nat \ {0}
    BY <1>3
  <2>2. Len(s) - 1 \in Int /\ Len(s) - 1 <= Len(s)
    BY <2>1
  <2>3. Front(s) = SubSeq(s, 1, Len(s) - 1)
    BY DEF Front
  <2>4. Front(s) \in Seq(Int)
    BY <1>3, <2>2, <2>3, SubSeqType
  <2>5. Len(SubSeq(s, 1, Len(s) - 1)) = Len(s) - 1
    <3>1. CASE Len(s) = 1
      <4>1. SubSeq(s, 1, 0) = <<>>
        BY <1>3
      <4> QED
        BY <3>1, <4>1
    <3>2. CASE Len(s) # 1
      <4> DEFINE n == Len(s)
      <4>1. n - 1 \in Nat /\ 1 <= n - 1 /\ 1 .. n - 1 \subseteq 1 .. n
        <5>1. n \in Nat \ {0} /\ n # 1
          BY <2>1, <3>2
        <5> HIDE DEF n
        <5> QED
          BY <5>1
      <4> QED
        BY <1>3, <4>1
    <3> QED
      BY <3>1, <3>2
  <2> QED
    BY <1>3, <1>4, <2>1, <2>3, <2>4, <2>5
<1>8. [av.bins EXCEPT ![1] = Front(s)] \in Bins /\ [av.bins EXCEPT ![1] = Front(s)][1] = Front(s)
  BY <1>1, <1>3, <1>7, BinType
<1>9. Keeps(b, TakenOff) /\ TakenOff.died = b.died /\ TakenOff.hdr = b.hdr
      /\ TakenOff.bins[1] = Front(s)
  <2>1. b \in Fit
    BY <1>5 DEF Keeps, Safe
  <2>2. Keeps(b, TakenOff)
    BY <1>6, <1>8, <2>1, BinsKeep
  <2>3. TakenOff.died = b.died /\ TakenOff.hdr = b.hdr
    BY <1>6, <2>1 DEF Fit, Arenas
  <2>4. TakenOff.bins = [av.bins EXCEPT ![1] = Front(s)]
    BY <1>6, <2>1 DEF Fit, Arenas
  <2> QED
    BY <1>8, <2>2, <2>3, <2>4
<1>10. Keeps(av, TakenOff) /\ TakenOff \in Fit
  BY <1>5, <1>9, KeepsTrans DEF Keeps, Safe
<1>11. \A p : chunksize(TakenOff, p) = chunksize(av, p)
  BY <1>5, <1>9 DEF chunksize
<1>12. Len(TakenOff.bins[1]) < Len(av.bins[1])
  BY <1>7, <1>9 DEF s
<1> QED
  BY <1>1, <1>2, <1>5, <1>7, <1>9, <1>10, <1>11, <1>12

LEMMA RemainderKeeps ==
  ASSUME NEW a \in Fit, NEW p \in Int
  PROVE  [a EXCEPT !.last_remainder = p] \in Fit
  BY DEF Fit, Arenas, FeetFine

LEMMA LastRemainderServesSteps == ASSUME MInv, LastRemainderServes PROVE Advances
<1> DEFINE b == SplitOff(TakenOff, Victim, call.nb)
           a == [b EXCEPT !.last_remainder = Victim + call.nb]
<1>1. Alive /\ call \in Searches /\ call.nb \in Int /\ Victim \in Int /\ TakenOff \in Fit
  BY VictimTaken DEF LastRemainderServes
<1>2. b \in Fit
  BY <1>1, SplitOffKeeps DEF Keeps, Safe
<1> HIDE DEF b
<1>3. a \in Fit
  BY <1>1, <1>2, RemainderKeeps
<1>4. Found(a, Victim) /\ UNCHANGED <<mp, mmapped>>
  BY DEF LastRemainderServes, a, b
<1> HIDE DEF a
<1> QED
  BY <1>1, <1>3, <1>4, Untouched, FoundSteps

LEMMA ExactFitServesSteps == ASSUME MInv, ExactFitServes PROVE Advances
<1> DEFINE a == set_inuse_bit(TakenOff, next_chunk(av, Victim))
<1>1. Alive /\ call \in Searches /\ Victim \in Int /\ TakenOff \in Fit
  BY VictimTaken DEF ExactFitServes
<1>2. a \in Fit
  BY <1>1, InuseBitKeeps DEF Keeps, Safe
<1>3. Found(a, Victim) /\ UNCHANGED <<mp, mmapped>>
  BY DEF ExactFitServes
<1> HIDE DEF a
<1> QED
  BY <1>1, <1>2, <1>3, Untouched, FoundSteps

LEMMA ExactFitCachedSteps == ASSUME MInv, ExactFitCached PROVE Advances
<1> DEFINE i == csize2tidx(call.nb)
           b == set_inuse_bit(TakenOff, next_chunk(av, Victim))
           c == tcache_put(b, Victim, call.nb)
<1>1. /\ Alive /\ call \in Searches /\ call.pc = "unsorted" /\ Victim \in Int
      /\ TakenOff \in Fit /\ Keeps(av, TakenOff) /\ Len(TakenOff.bins[1]) < Len(av.bins[1])
      /\ call.nb \in Nat /\ call.nb >= MINSIZE
  BY VictimTaken DEF ExactFitCached
<1>2. Keeps(TakenOff, b) /\ b.bins = TakenOff.bins
  <2>1. b.bins = TakenOff.bins
    BY <1>1 DEF set_inuse_bit, Fit, Arenas
  <2> QED
    BY <1>1, <2>1, InuseBitKeeps
<1> HIDE DEF b
<1>3. i \in CacheIdx
  BY <1>1, CacheIdxOf DEF ExactFitCached, CacheRoom
<1>4. /\ c \in Fit /\ c.have_fastchunks = b.have_fastchunks /\ c.bins = b.bins
      /\ c.cached[i] # <<>>
  <2>1. b \in Fit
    BY <1>2 DEF Keeps, Safe
  <2>2. c.cached[i] = <<Victim>> \o b.cached[i] /\ b.cached[i] \in Seq(Int)
    BY <1>3, <2>1 DEF tcache_put, Fit, Arenas, Caches
  <2>3. c.cached[i] # <<>>
    <3> HIDE DEF i, c
    <3> QED
      BY <1>1, <2>2
  <2> QED
    BY <1>1, <2>1, <2>3, TcachePutSafe DEF Safe
<1>5. av' = c /\ call' = [call EXCEPT !.return_cached = TRUE] /\ UNCHANGED <<mp, mmapped, live>>
  BY DEF ExactFitCached, b
<1> HIDE DEF c
<1>6. /\ call' \in Searches /\ call'.op = call.op /\ call'.init = call.init
      /\ call'.pc = call.pc /\ call'.nb = call.nb
  <2>1. call' \in Searches
    BY <1>1, <1>5, SearchWith
  <2> QED
    BY <1>1, <1>5, <2>1 DEF Searches
<1>7. CachedStays'
  BY <1>3, <1>4, <1>5, <1>6 DEF CachedStays
<1>8. av'.have_fastchunks = av.have_fastchunks /\ Len(av'.bins[1]) < Len(av.bins[1]) /\ av' \in Fit
  BY <1>1, <1>2, <1>4, <1>5 DEF Keeps
<1> QED
  BY <1>1, <1>5, <1>6, <1>7, <1>8, SearchGoesOn

LEMMA PlaceDies ==
  ASSUME NEW a \in Fit, NEW v
  PROVE  PlaceInBin(a, v).died = a.died
  BY DEF PlaceInBin, mark_bin, Fit, Arenas

LEMMA UnfitGoesToBinSteps == ASSUME MInv, UnfitGoesToBin PROVE Advances
<1>1. /\ Alive /\ call \in Searches /\ call.pc = "unsorted" /\ Victim \in Int /\ ~av.died
      /\ TakenOff \in Fit /\ Keeps(av, TakenOff) /\ Len(TakenOff.bins[1]) < Len(av.bins[1])
      /\ chunksize(TakenOff, Victim) = chunksize(av, Victim) /\ av \in Fit
      /\ TakenOff.died \/ UnsortedOK(av, Victim)
  BY VictimTaken DEF UnfitGoesToBin
<1>2. /\ av' = PlaceInBin(TakenOff, Victim) /\ call' = [call EXCEPT !.iters = @ + 1]
      /\ UNCHANGED <<mp, mmapped, live>>
  BY DEF UnfitGoesToBin
<1>3. CASE TakenOff.died
  <2>1. av'.died
    BY <1>1, <1>2, <1>3, PlaceDies
  <2> QED
    BY <2>1 DEF Advances, MInv
<1>4. CASE ~TakenOff.died
  <2>1. chunksize(TakenOff, Victim) >= Least
    BY <1>1, <1>4, UnsortedSized
  <2>2. Keeps(TakenOff, av') /\ av'.bins[1] = TakenOff.bins[1]
    BY <1>1, <1>2, <2>1, PlaceInBinKeeps
  <2>3. /\ call' \in Searches /\ call'.op = call.op /\ call'.init = call.init
        /\ call'.pc = call.pc /\ call'.nb = call.nb /\ call'.return_cached = call.return_cached
    <3>1. call.iters + 1 \in Int
      BY <1>1, SearchType
    <3>2. call' \in Searches
      BY <1>1, <1>2, <3>1, SearchWith
    <3> QED
      BY <1>1, <1>2, <3>2 DEF Searches
  <2>4. av' \in Fit /\ av'.have_fastchunks = av.have_fastchunks /\ av'.cached = av.cached
        /\ Len(av'.bins[1]) < Len(av.bins[1])
    BY <1>1, <2>2 DEF Keeps, Safe
  <2>5. CachedStays'
    BY <1>1, <2>3, <2>4 DEF CachedStays, Alive
  <2> QED
    BY <1>1, <1>2, <2>3, <2>4, <2>5, SearchGoesOn
<1> QED
  BY <1>3, <1>4

LEMMA LoopEnds ==
  ASSUME MInv, LoopDone
  PROVE  /\ Alive /\ call \in Searches /\ call.pc = "unsorted" /\ ~av.died /\ av \in Fit
         /\ call.nb \in Nat /\ call.nb >= MINSIZE
  BY InSearch, SearchType DEF LoopDone, At, Alive

LEMMA CachedServesSteps == ASSUME MInv, CachedServes PROVE Advances
<1> DEFINE i == csize2tidx(call.nb)
           s == av.cached[i]
           a == [av EXCEPT !.cached[i] = Tail(s)]
<1>1. Alive /\ call \in Searches /\ call.pc = "unsorted" /\ av \in Fit /\ call.return_cached
  BY LoopEnds DEF CachedServes
<1>2. i \in CacheIdx /\ s # <<>>
  BY <1>1 DEF Alive, CachedStays
<1> HIDE DEF i
<1>3. s \in Seq(Int)
  BY <1>1, <1>2, FieldType DEF Caches
<1> HIDE DEF s
<1>4. Tail(s) \in Seq(Int) /\ Head(s) \in Int
  BY <1>2, <1>3
<1>5. a \in Fit
  BY <1>1, <1>4, CacheKeeps DEF Safe
<1>6. Found(a, Head(s)) /\ UNCHANGED <<mp, mmapped>>
  BY <1>1 DEF CachedServes, a, s, i, Fit, Arenas
<1> HIDE DEF a
<1> QED
  BY <1>1, <1>4, <1>5, <1>6, Untouched, FoundSteps

\* A chunk is unlinked, cut and found.
LEMMA UnlinkAndSplit ==
  ASSUME NEW a \in Fit, NEW v \in Int, NEW nb \in Int
  PROVE  SplitOff(unlink_chunk(a, v), v, nb) \in Fit
<1>1. unlink_chunk(a, v) \in Fit
  BY UnlinkKeeps DEF Keeps, Safe
<1> QED
  BY <1>1, SplitOffKeeps DEF Keeps, Safe

LEMMA LargeBinServesSteps == ASSUME MInv, LargeBinServes PROVE Advances
<1> DEFINE bin == av.bins[call.idx]
           k == Max(OwnFits)
           victim == IF k < Len(bin) /\ chunksize(av, bin[k + 1]) = chunksize(av, bin[k])
                     THEN bin[k + 1] ELSE bin[k]
           a == SplitOff(unlink_chunk(av, victim), victim, call.nb)
<1>1. /\ Alive /\ call \in Searches /\ av \in Fit /\ call.nb \in Nat /\ call.nb >= MINSIZE
      /\ call.idx = bin_index(call.nb)
  BY LoopEnds, SearchType DEF LargeBinServes
<1>2. bin \in Seq(Int)
  BY <1>1, OwnBin
<1>3. OwnFits # {} /\ OwnFits \subseteq DOMAIN bin
  BY DEF LargeBinServes, OwnFits
<1> HIDE DEF bin
<1>4. k \in 1 .. Len(bin)
  <2>1. OwnFits \in SUBSET (1 .. Len(bin)) /\ Len(bin) \in Nat
    BY <1>2, <1>3
  <2> QED
    BY <1>3, <2>1, MaxOf
<1> HIDE DEF k
<1>5. victim \in Int
  <2>1. bin[k] \in Int
    BY <1>2, <1>4
  <2>2. k < Len(bin) => bin[k + 1] \in Int
    <3>1. k < Len(bin) => k + 1 \in 1 .. Len(bin)
      BY <1>2, <1>4
    <3> QED
      BY <1>2, <3>1
  <2> QED
    BY <2>1, <2>2
<1>6. Found(a, victim) /\ UNCHANGED <<mp, mmapped>>
  BY DEF LargeBinServes, a, victim, k, bin
<1> HIDE DEF victim
<1>7. a \in Fit
  BY <1>1, <1>5, UnlinkAndSplit
<1> HIDE DEF a
<1> QED
  BY <1>1, <1>5, <1>6, <1>7, Untouched, FoundSteps

LEMMA UnmarkedKeeps ==
  ASSUME av \in Fit, NEW n
  PROVE  Keeps(av, Unmarked(n))
<1>1. {i \in av.binmap : i \in Marked /\ i < n => i \in Larger} \in SUBSET (1 .. NBINS - 1)
  BY FieldType
<1> QED
  BY <1>1 DEF Unmarked, Fit, Keeps, Safe, Arenas, FeetFine

LEMMA SweptKeeps ==
  ASSUME av \in Fit
  PROVE  Keeps(av, Swept)
<1>1. Keeps(av, Unmarked(NBINS))
  BY UnmarkedKeeps
<1>2. Keeps(Unmarked(NBINS), Swept)
  <2>1. Unmarked(NBINS) \in Fit
    BY <1>1 DEF Keeps, Safe
  <2>2. (chunksize(av, av.top) <= av.system_mem) \in BOOLEAN
    OBVIOUS
  <2> QED
    BY <2>1, <2>2, CheckedKeeps DEF Swept
<1> QED
  BY <1>1, <1>2, KeepsTrans

LEMMA BinServesSteps == ASSUME MInv, BinServes PROVE Advances
<1> DEFINE i == Min(Larger)
           victim == Last(av.bins[i])
           ok == chunksize(av, victim) >= call.nb
           b == Checked(Unmarked(i), ok)
           remains == chunksize(av, victim) - call.nb >= MINSIZE
           c == SplitOff(unlink_chunk(b, victim), victim, call.nb)
           r == IF remains /\ in_smallbin_range(call.nb) THEN victim + call.nb
                ELSE c.last_remainder
           a == [c EXCEPT !.last_remainder = r]
<1>1. Alive /\ call \in Searches /\ av \in Fit /\ call.nb \in Int /\ call.nb >= MINSIZE
      /\ Larger # {}
  BY LoopEnds DEF BinServes
<1>2. i \in Larger
  <2>1. Larger \subseteq Nat
    BY <1>1, FieldType DEF Larger, Marked
  <2> QED
    BY <1>1, <2>1, MinOf
<1>3. i \in 1 .. NBINS - 1 /\ av.bins[i] # <<>>
  BY <1>1, <1>2, FieldType DEF Larger, Marked
<1> HIDE DEF i
<1>4. victim \in Int
  <2>1. av.bins[i] \in Seq(Int)
    BY <1>1, <1>3, FieldType DEF Bins
  <2>2. victim = av.bins[i][Len(av.bins[i])]
    BY DEF Last
  <2> QED
    BY <1>3, <2>1, <2>2
<1>5. b \in Fit
  <2>1. Unmarked(i) \in Fit
    BY <1>1, UnmarkedKeeps DEF Keeps, Safe
  <2>2. ok \in BOOLEAN
    OBVIOUS
  <2> HIDE DEF ok, victim
  <2> QED
    BY <2>1, <2>2, CheckedKeeps DEF Keeps, Safe
<1>6. c \in Fit
  <2> HIDE DEF b, victim
  <2> QED
    BY <1>1, <1>4, <1>5, UnlinkAndSplit
<1>7. Found(a, victim) /\ UNCHANGED <<mp, mmapped>>
  BY <1>6 DEF BinServes, i, Fit, Arenas
<1> HIDE DEF c, victim, b
<1>8. a \in Fit
  <2>1. r \in Int
    BY <1>1, <1>4, <1>6, FieldType
  <2> HIDE DEF r
  <2> QED
    BY <1>6, <2>1, RemainderKeeps
<1> HIDE DEF a
<1> QED
  BY <1>1, <1>4, <1>7, <1>8, Untouched, FoundSteps

LEMMA TopServesSteps == ASSUME MInv, TopServes PROVE Advances
<1> DEFINE a == SplitTop(Swept, call.nb)
<1>1. Alive /\ call \in Searches /\ av \in Fit /\ call.nb \in Int /\ av.top \in Int
  BY LoopEnds, FieldType DEF TopServes, UsesTop
<1>2. a \in Fit
  BY <1>1, SweptKeeps, SplitTopKeeps DEF Keeps, Safe
<1>3. Found(a, av.top) /\ UNCHANGED <<mp, mmapped>>
  BY DEF TopServes
<1> HIDE DEF a
<1> QED
  BY <1>1, <1>2, <1>3, Untouched, FoundSteps

LEMMA ConsolidatesAgainSteps == ASSUME MInv, ConsolidatesAgain PROVE Advances
<1>1. Alive /\ call \in Searches /\ call.pc = "unsorted" /\ av \in Fit
      /\ ~call.return_cached /\ av.have_fastchunks
  BY LoopEnds DEF ConsolidatesAgain, UsesTop
<1>2. /\ av' = malloc_consolidate(Swept) /\ UNCHANGED <<mp, mmapped, live>>
      /\ call' = [call EXCEPT !.idx = bin_index(call.nb), !.iters = 0]
  BY DEF ConsolidatesAgain
<1>3. av' \in Fit /\ av'.have_fastchunks = FALSE
  BY <1>1, <1>2, SweptKeeps, Consolidates DEF Keeps, Safe
<1>4. /\ call' \in Searches /\ call'.op = call.op /\ call'.init = call.init
      /\ call'.pc = call.pc /\ call'.return_cached = call.return_cached
  <2>1. call' \in Searches
    <3>1. \A n \in Int : [call EXCEPT !.idx = bin_index(call.nb), !.iters = n] \in Searches
      BY <1>1, SearchWith
    <3>2. 0 \in Int
      OBVIOUS
    <3> QED
      BY <1>2, <3>1, <3>2, Zenon
  <2> QED
    BY <1>1, <1>2, <2>1 DEF Searches
<1>5. CachedStays'
  BY <1>1, <1>4 DEF CachedStays
<1>6. Flag(av'.have_fastchunks) < Flag(av.have_fastchunks)
  BY <1>1, <1>3 DEF Flag
<1> QED
  BY <1>1, <1>2, <1>3, <1>4, <1>5, <1>6, SearchGoesOn

LEMMA MapIsRefusedSteps == ASSUME MInv, MapIsRefused PROVE Advances
<1>1. Alive /\ call \in Searches /\ call.pc = "unsorted" /\ av \in Fit /\ ~call.tried_mmap
  BY LoopEnds DEF MapIsRefused, NeedsSystem, UsesTop, WantsMmap
<1>2. UNCHANGED <<av, mp, mmapped, live>> /\ call' = [call EXCEPT !.tried_mmap = TRUE]
  BY DEF MapIsRefused
<1>3. /\ call' \in Searches /\ call'.op = call.op /\ call'.init = call.init
      /\ call'.pc = call.pc /\ call'.return_cached = call.return_cached
      /\ call'.nb = call.nb /\ call'.tried_mmap
  <2>1. call' \in Searches
    BY <1>1, <1>2, SearchWith
  <2> QED
    BY <1>1, <1>2, <2>1 DEF Searches
<1>4. CachedStays'
  BY <1>1, <1>2, <1>3 DEF CachedStays, Alive
<1>5. Flag(~call'.tried_mmap) < Flag(~call.tried_mmap)
  BY <1>1, <1>3 DEF Flag
<1> QED
  BY <1>1, <1>2, <1>3, <1>4, <1>5, SearchGoesOn

LEMMA SysmallocAbortsSteps == ASSUME MInv, SysmallocAborts PROVE Advances
<1>1. av \in Fit
  BY LoopEnds DEF SysmallocAborts, NeedsMore, NeedsSystem, UsesTop
<1>2. av' = [av EXCEPT !.died = TRUE]
  BY DEF SysmallocAborts
<1>3. av'.died
  BY <1>1, <1>2 DEF Fit, Arenas
<1> QED
  BY <1>3 DEF Advances, MInv

-----------------------------------------------------------------------------
(* The steps of sysmalloc *)

LEMMA ParamsWith ==
  ASSUME NEW g \in Params, NEW n \in Int, NEW m \in Int
  PROVE  /\ [g EXCEPT !.n_mmaps = n, !.mmapped_mem = m] \in Params
         /\ [g EXCEPT !.mmapped_mem = m] \in Params
         /\ [g EXCEPT !.sbrk_base = n] \in Params
         /\ [g EXCEPT !.mmap_threshold = n, !.trim_threshold = m] \in Params
  BY DEF Params

LEMMA PlaceType ==
  ASSUME NEW size, FreeMaps(size) # {}
  PROVE  Place(size) \in Int
<1>1. FreeMaps(size) \subseteq Nat
  BY MallocAssumption DEF FreeMaps
<1>2. Min(FreeMaps(size)) \in Nat
  BY <1>1, MinOf
<1> QED
  BY <1>2, Sizes DEF Place

LEMMA MapsRequestSteps == ASSUME MInv, MapsRequest PROVE Advances
<1> DEFINE p == Place(MapSize)
           m == [sz |-> MapSize, prev_size |-> 0]
<1>1. Alive /\ call \in Searches /\ av \in Fit /\ call.nb \in Int
  BY LoopEnds DEF MapsRequest, NeedsSystem, UsesTop
<1>2. MapSize \in Int
  <2>1. call.nb + SIZE_SZ \in Int
    BY <1>1, Sizes
  <2> QED
    BY <2>1, AlignType, Sizes DEF MapSize
<1>3. p \in Int
  BY PlaceType DEF MapsRequest
<1>4. /\ mmapped' = With(mmapped, p, m) /\ Found(Swept, p)
      /\ mp' = [mp EXCEPT !.n_mmaps = @ + 1, !.mmapped_mem = @ + MapSize]
  BY DEF MapsRequest
<1> HIDE DEF p
<1>5. mp' \in Params
  <2>1. mp.n_mmaps + 1 \in Int /\ mp.mmapped_mem + MapSize \in Int /\ mp \in Params
    BY <1>1, <1>2, ParamsType DEF Alive
  <2>2. mp' = [mp EXCEPT !.n_mmaps = mp.n_mmaps + 1, !.mmapped_mem = mp.mmapped_mem + MapSize]
    BY <1>4, <2>1 DEF Params
  <2> QED
    BY <2>1, <2>2, ParamsWith
<1>6. mmapped' \in Mappings /\ DOMAIN mmapped \subseteq DOMAIN mmapped'
  <2>1. m \in [sz : Int, prev_size : Int]
    BY <1>2
  <2> HIDE DEF m
  <2>2. mmapped' \in Mappings
    BY <1>1, <1>3, <1>4, <2>1, PartialWith DEF Alive, Mappings
  <2> QED
    BY <1>4, <2>2 DEF With
<1>7. Swept \in Fit
  BY <1>1, SweptKeeps DEF Keeps, Safe
<1> QED
  BY <1>1, <1>3, <1>4, <1>5, <1>6, <1>7, FoundSteps

LEMMA NewTopSteps ==
  ASSUME Alive, call \in Searches, NEW a \in Fit, FromNewTop(a), mp' \in Params,
         UNCHANGED mmapped
  PROVE  Advances
<1>1. mmapped' \in Mappings /\ DOMAIN mmapped \subseteq DOMAIN mmapped'
  BY DEF Alive
<1>2. call.nb \in Int /\ a.top \in Int
  BY SearchType, FieldType
<1>3. SplitTop(a, call.nb) \in Fit
  BY <1>2, SplitTopKeeps DEF Keeps, Safe
<1>4. Found(SplitTop(a, call.nb), a.top) \/ NotFound(a)
  BY DEF FromNewTop
<1> QED
  BY <1>1, <1>2, <1>3, <1>4, FoundSteps, NotFoundSteps

\* What sysmalloc starts from when it has to ask for more.
LEMMA MoreType ==
  ASSUME MInv, NeedsMore
  PROVE  /\ Alive /\ call \in Searches /\ av \in Fit /\ mp \in Params
         /\ call.nb \in Int /\ old_size \in Int /\ MoreSize \in Int
         /\ av.top \in Int /\ av.brk \in Int /\ old_end \in Int
         /\ Swept \in Fit /\ Swept.brk \in Int /\ Swept.system_mem \in Int
<1>1. Alive /\ call \in Searches /\ av \in Fit /\ call.nb \in Int /\ mp \in Params
  BY LoopEnds DEF NeedsMore, NeedsSystem, UsesTop, Alive
<1>2. old_size \in Int /\ av.top \in Int /\ av.brk \in Int
  BY <1>1, FitType, FieldType DEF old_size
<1>3. MoreSize \in Int
  <2>1. call.nb + mp.top_pad + MINSIZE - (IF av.contiguous THEN old_size ELSE 0) \in Int
    BY <1>1, <1>2, ParamsType, Sizes
  <2> QED
    BY <2>1, AlignType, Sizes DEF MoreSize
<1>4. old_end \in Int
  BY <1>2 DEF old_end
<1>5. Swept \in Fit
  BY <1>1, SweptKeeps DEF Keeps, Safe
<1> QED
  BY <1>1, <1>2, <1>3, <1>4, <1>5, FieldType

LEMMA FirstBreakType ==
  ASSUME mp \in Params, NEW b \in Int
  PROVE  FirstBreak(b) \in Params
<1>1. (IF mp.sbrk_base = NULL THEN b ELSE mp.sbrk_base) \in Int
  BY ParamsType
<1>2. FirstBreak(b) = [mp EXCEPT !.sbrk_base = IF mp.sbrk_base = NULL THEN b ELSE mp.sbrk_base]
  BY DEF FirstBreak, Params
<1> QED
  BY <1>1, <1>2, ParamsWith

LEMMA TopGrowsSteps == ASSUME MInv, TopGrows PROVE Advances
<1> DEFINE b == [Swept EXCEPT !.brk = @ + MoreSize, !.system_mem = @ + MoreSize]
           a == set_head(b, av.top, old_size + MoreSize, TRUE)
<1>1. /\ Alive /\ call \in Searches /\ av.top \in Int /\ old_size \in Int /\ MoreSize \in Int
      /\ Swept \in Fit /\ Swept.brk \in Int /\ Swept.system_mem \in Int
  BY MoreType DEF TopGrows
<1>2. b \in Fit
  <2>1. Swept.brk + MoreSize \in Int /\ Swept.system_mem + MoreSize \in Int
    BY <1>1
  <2> QED
    BY <1>1, <2>1, BreakKeeps DEF Keeps, Safe
<1> HIDE DEF b
<1>3. a \in Fit
  <2>1. old_size + MoreSize \in Int
    BY <1>1
  <2> QED
    BY <1>1, <1>2, <2>1, SetHeadKeeps DEF Keeps, Safe
<1>4. FromNewTop(a) /\ UNCHANGED <<mp, mmapped>>
  BY DEF TopGrows, a, b
<1> HIDE DEF a
<1> QED
  BY <1>1, <1>3, <1>4, Untouched, NewTopSteps

LEMMA TopMovesSteps == ASSUME MInv, TopMoves PROVE Advances
<1> DEFINE brk == av.brk
           aligned == ALIGN_UP(mem_of(brk), MALLOC_ALIGNMENT) - CHUNK_HDR_SZ
           wanted == (aligned - brk) + old_size
           end == brk + MoreSize
           correction == ALIGN_UP(end + wanted, PageSize) - end
           gap == IF old_size > 0 THEN brk - old_end ELSE 0
           b(c) == [Swept EXCEPT !.brk = end + c, !.system_mem = @ + MoreSize + gap + c]
           a(c) == NewTop(b(c), aligned, end - aligned + c)
<1>1. /\ Alive /\ call \in Searches /\ av \in Fit /\ mp \in Params
      /\ brk \in Int /\ old_size \in Int /\ MoreSize \in Int /\ old_end \in Int
      /\ Swept \in Fit /\ Swept.system_mem \in Int
  BY MoreType DEF TopMoves
<1>2. PICK c \in {0, correction} : FromNewTop(a(c)) /\ mp' = FirstBreak(brk)
  BY DEF TopMoves
<1>3. aligned \in Int
  <2>1. mem_of(brk) \in Int
    BY <1>1, Sizes DEF mem_of
  <2> QED
    BY <2>1, AlignType, Sizes
<1>4. end \in Int /\ gap \in Int
  BY <1>1
<1>5. correction \in Int
  <2>1. end + wanted \in Int
    BY <1>1, <1>3, <1>4
  <2> HIDE DEF end, wanted
  <2>2. ALIGN_UP(end + wanted, PageSize) \in Int
    BY <2>1, AlignType, Sizes
  <2> QED
    BY <1>4, <2>2
<1> HIDE DEF aligned, wanted, end, correction, gap, brk
<1>6. c \in Int
  BY <1>2, <1>5
<1>7. b(c) \in Fit
  <2>1. end + c \in Int /\ Swept.system_mem + MoreSize + gap + c \in Int
    BY <1>1, <1>4, <1>6
  <2> QED
    BY <1>1, <2>1, BreakKeeps DEF Keeps, Safe
<1> HIDE DEF b
<1>8. a(c) \in Fit
  <2>1. end - aligned + c \in Int
    BY <1>3, <1>4, <1>6
  <2> QED
    BY <1>1, <1>3, <1>7, <2>1, NewTopSafe DEF Safe
<1>9. mp' \in Params /\ UNCHANGED mmapped
  BY <1>1, <1>2, FirstBreakType DEF TopMoves
<1> HIDE DEF a
<1> QED
  BY <1>1, <1>2, <1>8, <1>9, NewTopSteps

LEMMA TopMovesApartSteps == ASSUME MInv, TopMovesApart PROVE Advances
<1> DEFINE ok == aligned_OK(mem_of(av.brk))
           b == Checked(Swept, ok)
           c == [b EXCEPT !.brk = @ + MoreSize, !.system_mem = @ + MoreSize]
           a == NewTop(c, av.brk, MoreSize)
<1>1. /\ Alive /\ call \in Searches /\ av \in Fit /\ mp \in Params
      /\ av.brk \in Int /\ MoreSize \in Int /\ Swept \in Fit
  BY MoreType DEF TopMovesApart
<1>2. b \in Fit
  <2>1. ok \in BOOLEAN
    BY DEF aligned_OK
  <2> HIDE DEF ok
  <2> QED
    BY <1>1, <2>1, CheckedKeeps DEF Keeps, Safe
<1> HIDE DEF b
<1>3. c \in Fit
  <2>1. b.brk + MoreSize \in Int /\ b.system_mem + MoreSize \in Int
    BY <1>1, <1>2, FieldType
  <2> QED
    BY <1>2, <2>1, BreakKeeps DEF Keeps, Safe
<1>4. FromNewTop(a) /\ mp' = FirstBreak(av.brk) /\ UNCHANGED mmapped
  BY DEF TopMovesApart, b
<1> HIDE DEF c
<1>5. a \in Fit
  BY <1>1, <1>3, NewTopSafe DEF Safe
<1>6. mp' \in Params
  BY <1>1, <1>4, FirstBreakType
<1> HIDE DEF a
<1> QED
  BY <1>1, <1>4, <1>5, <1>6, NewTopSteps

LEMMA PairMax ==
  ASSUME NEW x \in Int, NEW y \in Int
  PROVE  Max({x, y}) \in Int
<1>1. \E z \in {x, y} : \A w \in {x, y} : z >= w
  OBVIOUS
<1>2. Max({x, y}) \in {x, y}
  BY <1>1 DEF Max
<1> QED
  BY <1>2

LEMMA TopIsMappedSteps == ASSUME MInv, TopIsMapped PROVE Advances
<1> DEFINE at == Place(BackupSize)
           b == [Swept EXCEPT !.contiguous = FALSE, !.system_mem = @ + BackupSize]
           a == NewTop(b, at, BackupSize)
<1>1. /\ Alive /\ call \in Searches /\ av \in Fit /\ mp \in Params /\ old_size \in Int
      /\ MoreSize \in Int /\ Swept \in Fit /\ Swept.system_mem \in Int
  BY MoreType DEF TopIsMapped
<1>2. BackupSize \in Int
  <2>1. MoreSize + old_size \in Int
    BY <1>1
  <2>2. (IF av.contiguous THEN ALIGN_UP(MoreSize + old_size, PageSize) ELSE MoreSize) \in Int
    BY <1>1, <2>1, AlignType, Sizes
  <2> QED
    BY <2>2, PairMax, MallocAssumption DEF BackupSize
<1>3. at \in Int
  BY PlaceType DEF TopIsMapped
<1>4. FromNewTop(a) /\ mp' = FirstBreak(at) /\ UNCHANGED mmapped
  BY DEF TopIsMapped
<1> HIDE DEF at
<1>5. b \in Fit
  <2>1. Swept.system_mem + BackupSize \in Int
    BY <1>1, <1>2
  <2> QED
    BY <1>1, <2>1, BreakKeeps DEF Keeps, Safe
<1> HIDE DEF b
<1>6. a \in Fit
  BY <1>1, <1>2, <1>3, <1>5, NewTopSafe DEF Safe
<1>7. mp' \in Params
  BY <1>1, <1>3, <1>4, FirstBreakType
<1> HIDE DEF a
<1> QED
  BY <1>1, <1>4, <1>6, <1>7, NewTopSteps

LEMMA NoMemorySteps == ASSUME MInv, NoMemory PROVE Advances
<1>1. Alive /\ call \in Searches /\ Swept \in Fit
  BY MoreType DEF NoMemory
<1>2. NotFound(Swept) /\ UNCHANGED <<mp, mmapped>>
  BY DEF NoMemory
<1> QED
  BY <1>1, <1>2, Untouched, NotFoundSteps

-----------------------------------------------------------------------------
(* The steps of a call *)

LEMMA PartialExcept ==
  ASSUME NEW S, NEW T, NEW f \in Partial(S, T), NEW x, NEW y \in T
  PROVE  [f EXCEPT ![x] = y] \in Partial(S, T)
<1>1. PICK D \in SUBSET S : f \in [D -> T]
  BY DEF Partial
<1>2. [f EXCEPT ![x] = y] \in [D -> T]
  BY <1>1
<1> QED
  BY <1>1, <1>2 DEF Partial

LEMMA LiveWith ==
  ASSUME NEW f \in Partial(Int, Nat), NEW p \in Int, NEW n \in Nat, NEW q
  PROVE  /\ With(f, p, n) \in Partial(Int, Nat)
         /\ Without(f, {q}) \in Partial(Int, Nat)
         /\ With(Without(f, {q}), p, n) \in Partial(Int, Nat)
         /\ [f EXCEPT ![q] = n] \in Partial(Int, Nat)
  BY PartialWith, PartialWithout, PartialExcept

LEMMA MappedType ==
  ASSUME mmapped \in Mappings, NEW p \in DOMAIN mmapped
  PROVE  /\ p \in Int /\ mmapped[p].sz \in Int /\ mmapped[p].prev_size \in Int
         /\ BlockStart(p) \in Int /\ BlockSize(p) \in Int
         /\ mmapped[p] \in [sz : Int, prev_size : Int]
<1>1. p \in Int /\ mmapped[p] \in [sz : Int, prev_size : Int]
  BY PartialType DEF Mappings
<1> QED
  BY <1>1 DEF BlockStart, BlockSize

\* A step to a call that is neither a search nor a copy.
LEMMA AliveNow ==
  ASSUME av' \in Fit, mp' \in Params, mmapped' \in Mappings, live' \in Partial(Int, Nat),
         call' \in Calls, call' \notin Searches,
         call' # Idle /\ call'.op.kind = "copy" => call'.op.mem \in DOMAIN mmapped'
  PROVE  Alive'
  BY DEF Alive, CachedStays, CopyMapped

LEMMA IdleNow ==
  ASSUME av' \in Fit, mp' \in Params, mmapped' \in Mappings, live' \in Partial(Int, Nat),
         call' = Idle
  PROVE  Alive' /\ Phase(call') = 0
<1>1. call' \in Calls /\ call' \notin Searches
  <2>1. call' \in Calls
    BY DEF Calls
  <2> QED
    BY <2>1, CallShape
<1> QED
  BY <1>1, AliveNow, PhaseOf

LEMMA DeliverMallocSteps ==
  ASSUME Alive, NEW op \in Ops, NEW p \in Int, DeliverMalloc(op, p), UNCHANGED mp
  PROVE  Alive' /\ Phase(call') < 2
<1>1. live' \in Partial(Int, Nat)
  BY LiveWith DEF DeliverMalloc, Alive, Ops
<1>2. av' \in Fit /\ mp' \in Params /\ mmapped' \in Mappings /\ call' = Idle
  BY DEF DeliverMalloc, Alive
<1> QED
  BY <1>1, <1>2, IdleNow

LEMMA DeliverReallocSteps ==
  ASSUME Alive, NEW op \in Ops, NEW p \in Int, DeliverRealloc(op, p), UNCHANGED mp
  PROVE  Alive' /\ Phase(call') < 2
<1> DEFINE oldp == op.mem
           n == chunksize(av, oldp) + chunksize(av, p)
           nb == request2size(op.bytes)
<1>1. oldp \in Int /\ op.bytes \in Nat /\ av \in Fit /\ mp \in Params
      /\ live \in Partial(Int, Nat)
  BY DEF Ops, Alive
<1>2. n \in Int /\ nb \in Int
  BY <1>1, FitType, RequestFits
<1>3. av' = FreeTail(av, oldp, n, nb) \/ av' = _int_free(av, oldp, TRUE)
  BY DEF DeliverRealloc
<1> HIDE DEF n, nb
<1>4. av' \in Fit
  BY <1>1, <1>2, <1>3, FreeTailSafe, IntFreeSafe DEF Safe
<1>5. live' \in Partial(Int, Nat)
  BY <1>1, LiveWith DEF DeliverRealloc
<1>6. mp' \in Params /\ mmapped' \in Mappings /\ call' = Idle
  BY DEF DeliverRealloc, Alive
<1> QED
  BY <1>4, <1>5, <1>6, IdleNow

LEMMA DeliverCopySteps ==
  ASSUME Alive, NEW op \in Ops, NEW p \in Int, DeliverCopy(op, p), UNCHANGED mp,
         op.kind = "copy", op.mem \in DOMAIN mmapped
  PROVE  Alive' /\ Phase(call') < 2
<1>1. live' \in Partial(Int, Nat)
  BY LiveWith DEF DeliverCopy, Alive, Ops
<1>2. av' \in Fit /\ mp' \in Params /\ mmapped' = mmapped /\ mmapped' \in Mappings
  BY DEF DeliverCopy, Alive
<1>3. call' \in Unmapping /\ call'.op = op
  BY DEF DeliverCopy, Unmapping
<1>4. call' \in Calls /\ call' \notin Searches
  <2>1. call' \in Calls
    BY <1>3 DEF Calls
  <2> QED
    BY <1>3, <2>1, CallShape
<1>5. Alive'
  BY <1>1, <1>2, <1>3, <1>4, AliveNow
<1> QED
  BY <1>3, <1>5, PhaseOf

LEMMA DeliverMemalignSteps ==
  ASSUME Alive, NEW op \in Ops, NEW p \in Int, DeliverMemalign(op, p), UNCHANGED mp
  PROVE  Alive' /\ Phase(call') < 2
<1> DEFINE newp == AlignedIn(p, op.align)
           nb == request2size(op.bytes)
           lead == FreeLead(av, p, newp)
           ok == chunksize(lead, newp) >= nb
           b == Checked(lead, ok)
           a == FreeSpare(b, newp, nb)
           m == [sz |-> mmapped[p].sz - (newp - p), prev_size |-> mmapped[p].prev_size + (newp - p)]
<1>1. op.align \in Nat \ {0} /\ op.bytes \in Nat /\ av \in Fit /\ mp \in Params
      /\ live \in Partial(Int, Nat) /\ mmapped \in Mappings
  BY DEF Ops, Alive
<1>2. newp \in Int /\ nb \in Int
  BY <1>1, AlignedInType, RequestFits
<1>3. live' = With(live, newp, op.bytes) /\ call' = Idle
  BY DEF DeliverMemalign
<1>4. \/ IsMmapped(p) /\ mmapped' = With(Without(mmapped, {p}), newp, m) /\ av' = av
      \/ av' = a /\ mmapped' = mmapped
  BY DEF DeliverMemalign
<1> HIDE DEF newp, nb
<1>5. live' \in Partial(Int, Nat)
  BY <1>1, <1>2, <1>3, LiveWith
<1>6. a \in Fit
  <2>1. lead \in Fit
    BY <1>1, <1>2, FreeLeadSafe DEF Safe
  <2> HIDE DEF lead
  <2>2. ok \in BOOLEAN
    OBVIOUS
  <2> HIDE DEF ok
  <2>3. b \in Fit
    BY <2>1, <2>2, CheckedKeeps DEF Keeps, Safe
  <2> HIDE DEF b
  <2> QED
    BY <1>1, <1>2, <2>3, FreeSpareSafe DEF Safe
<1> HIDE DEF a
<1>7. IsMmapped(p) => With(Without(mmapped, {p}), newp, m) \in Mappings
  <2> SUFFICES ASSUME IsMmapped(p)
               PROVE  With(Without(mmapped, {p}), newp, m) \in Mappings
    OBVIOUS
  <2>1. m \in [sz : Int, prev_size : Int]
    BY <1>1, <1>2, MappedType DEF IsMmapped
  <2> HIDE DEF m
  <2>2. Without(mmapped, {p}) \in Mappings
    BY <1>1, PartialWithout DEF Mappings
  <2> QED
    BY <1>2, <2>1, <2>2, PartialWith DEF Mappings
<1> HIDE DEF m
<1>8. av' \in Fit /\ mmapped' \in Mappings /\ mp' \in Params
  BY <1>1, <1>4, <1>6, <1>7
<1> QED
  BY <1>3, <1>5, <1>8, IdleNow

LEMMA DeliversSteps == ASSUME MInv, Delivers PROVE Advances
<1>1. Alive /\ call.pc = "got"
  BY DEF MInv, Delivers, At
<1>2. call \in Founds /\ call \in Calls /\ call # Idle
  BY <1>1, CallShape DEF Alive, Idle
<1>3. call.op \in Ops /\ call.init \in BOOLEAN /\ call.p \in Int
      /\ (call.init \/ call.op.kind # "free")
  BY <1>2, FoundType
<1>4. UNCHANGED mp
  BY DEF Delivers
<1>5. CASE call.init
  <2>1. call' = [pc |-> "resume", op |-> call.op] /\ av' = [av EXCEPT !.tcache = call.p]
        /\ UNCHANGED <<mmapped, live>>
    BY <1>5 DEF Delivers
  <2>2. call' \in Resumed /\ call'.op = call.op
    BY <1>3, <2>1, ResumeType
  <2>3. call' \in Calls /\ call' \notin Searches
    <3>1. call' \in Calls
      BY <2>2 DEF Calls
    <3> QED
      BY <2>2, <3>1, CallShape
  <2>4. av' \in Fit
    BY <1>1, <1>3, <2>1 DEF Alive, Fit, Arenas, FeetFine
  <2>5. Alive'
    BY <1>1, <1>2, <1>4, <2>1, <2>2, <2>3, <2>4, AliveNow DEF Alive, CopyMapped
  <2>6. Phase(call') < Phase(call)
    <3>1. Early(call') = Early(call) /\ Early(call) \in {3, 6}
      BY <2>2, EarlyIs DEF Early
    <3> QED
      BY <1>2, <1>5, <2>2, <3>1, PhaseOf
  <2> QED
    BY <1>2, <2>3, <2>5, <2>6, PhaseFalls DEF Advances, MInv
<1>6. CASE ~call.init
  <2>1. Deliver(call.op, call.p)
    BY <1>6 DEF Delivers
  <2>2. Alive' /\ Phase(call') < 2
    <3>1. CASE call.op.kind \in {"malloc", "calloc"}
      BY <1>1, <1>3, <1>4, <2>1, <3>1, DeliverMallocSteps DEF Deliver
    <3>2. CASE call.op.kind = "realloc"
      BY <1>1, <1>3, <1>4, <2>1, <3>2, DeliverReallocSteps DEF Deliver
    <3>3. CASE call.op.kind = "copy"
      <4>1. call.op.mem \in DOMAIN mmapped
        BY <1>1, <1>2, <3>3 DEF Alive, CopyMapped
      <4> QED
        BY <1>1, <1>3, <1>4, <2>1, <3>3, <4>1, DeliverCopySteps DEF Deliver
    <3>4. CASE call.op.kind = "memalign"
      BY <1>1, <1>3, <1>4, <2>1, <3>4, DeliverMemalignSteps DEF Deliver
    <3> QED
      BY <1>3, <1>6, <3>1, <3>2, <3>3, <3>4 DEF Ops, Kinds
  <2>3. Phase(call) = 2
    BY <1>2, <1>6, PhaseOf
  <2>4. call' \in Calls
    BY <2>2 DEF Alive
  <2> QED
    BY <1>2, <2>2, <2>3, <2>4, PhaseFalls DEF Advances, MInv
<1> QED
  BY <1>3, <1>5, <1>6

\* What a call may start from: its own phase, or one that weighs less than an early one.
Starts(op) == Alive' /\ Phase(call') <= IF op.kind = "copy" THEN 3 ELSE 6

LEMMA NewSearch ==
  ASSUME NEW op \in Ops, NEW init \in BOOLEAN, NEW nb \in Nat, nb >= MINSIZE,
         init \/ op.kind # "free"
  PROVE  /\ Search(op, init, nb) \in Searches /\ Search(op, init, nb).op = op
         /\ Search(op, init, nb).init = init /\ Search(op, init, nb).return_cached = FALSE
         /\ Search(op, init, nb) # Idle
<1>1. bin_index(nb) \in Int
  BY BinExists
<1>2. Search(op, init, nb) \in Searches
  BY <1>1 DEF Search, Searches
<1>3. Search(op, init, nb).pc # Idle.pc
  BY DEF Search, Idle
<1> QED
  BY <1>2, <1>3 DEF Search

\* A search for a call begins.
LEMMA SearchBegins ==
  ASSUME Alive, NEW op \in Ops, NEW init \in BOOLEAN, NEW nb \in Nat, nb >= MINSIZE,
         init \/ op.kind # "free", op.kind = "copy" => op.mem \in DOMAIN mmapped,
         av' \in Fit, call' = Search(op, init, nb), mp' \in Params, UNCHANGED mmapped,
         live' \in Partial(Int, Nat)
  PROVE  /\ Alive'
         /\ call' \in Searches
         /\ Phase(call') = IF init THEN (IF op.kind = "copy" THEN 3 ELSE 6) + 3 ELSE 3
<1>1. call' \in Searches /\ call'.op = op /\ call'.init = init /\ call'.return_cached = FALSE
  BY NewSearch
<1>2. call' \in Calls
  BY <1>1 DEF Calls
<1>3. Alive'
  BY <1>1, <1>2 DEF Alive, CachedStays, CopyMapped
<1> QED
  BY <1>1, <1>3, PhaseOf DEF Early

LEMMA StartMallocSteps ==
  ASSUME Alive, NEW op \in Ops, op.kind # "free", StartMalloc(op),
         op.kind = "copy" => op.mem \in DOMAIN mmapped
  PROVE  Starts(op)
<1> DEFINE nb == request2size(op.bytes)
           i == csize2tidx(nb)
           s == av.cached[i]
           a == [av EXCEPT !.cached[i] = Tail(s)]
<1>1. nb \in Nat /\ nb >= MINSIZE /\ av \in Fit /\ mp' \in Params /\ live' \in Partial(Int, Nat)
      /\ UNCHANGED mmapped /\ mmapped' \in Mappings
  BY RequestFits DEF Ops, Alive, StartMalloc
<1>2. CASE i < TCACHE_BINS /\ s # <<>> /\ av' = a /\ call' = Got(op, FALSE, Head(s))
  <2>1. i \in CacheIdx
    BY <1>1, <1>2, CacheIdxOf
  <2> HIDE DEF i, nb
  <2>2. s \in Seq(Int) /\ s # <<>>
    BY <1>1, <1>2, <2>1, FieldType DEF Caches
  <2> HIDE DEF s
  <2>3. Head(s) \in Int /\ Tail(s) \in Seq(Int)
    BY <2>2
  <2>4. a \in Fit
    BY <1>1, <2>3, CacheKeeps DEF Safe
  <2>5. call' \in Founds /\ call'.op = op /\ ~call'.init
    BY <1>2, <2>3, GotType
  <2>6. call' \in Calls /\ call' \notin Searches
    <3>1. call' \in Calls
      BY <2>5 DEF Calls
    <3> QED
      BY <2>5, <3>1, CallShape
  <2>7. Alive'
    BY <1>1, <1>2, <2>4, <2>5, <2>6, AliveNow
  <2> QED
    BY <2>5, <2>7, PhaseOf DEF Starts
<1>3. CASE av' = av /\ call' = Search(op, FALSE, nb)
  <2> HIDE DEF nb
  <2>1. Alive' /\ Phase(call') = 3
    BY <1>1, <1>3, SearchBegins
  <2> QED
    BY <2>1 DEF Starts
<1>4. [av EXCEPT !.cached[i] = Tail(@)] = a
  BY <1>1 DEF Fit, Arenas
<1> QED
  BY <1>2, <1>3, <1>4 DEF StartMalloc

LEMMA StartSearchSteps ==
  ASSUME Alive, NEW op \in Ops, op.kind \in {"calloc", "memalign"}, StartSearch(op)
  PROVE  Starts(op)
<1> DEFINE nb == IF op.kind = "calloc" THEN request2size(op.bytes)
                 ELSE request2size(request2size(op.bytes) + op.align + MINSIZE)
<1>1. nb \in Nat /\ nb >= MINSIZE
  <2>1. op.bytes \in Nat /\ op.align \in Nat
    BY DEF Ops
  <2>2. request2size(op.bytes) \in Nat /\ request2size(op.bytes) >= MINSIZE
    BY <2>1, RequestFits
  <2>3. request2size(op.bytes) + op.align + MINSIZE \in Nat
    BY <2>1, <2>2, Sizes
  <2> QED
    BY <2>2, <2>3, RequestFits
<1>2. call' = Search(op, FALSE, nb) /\ av' \in Fit /\ mp' \in Params /\ UNCHANGED mmapped
      /\ live' \in Partial(Int, Nat)
  BY DEF StartSearch, Alive
<1> HIDE DEF nb
<1>3. Alive' /\ Phase(call') = 3
  BY <1>1, <1>2, SearchBegins
<1> QED
  BY <1>3 DEF Starts

LEMMA UnmapType ==
  ASSUME mmapped \in Mappings, NEW p \in DOMAIN mmapped, NEW g \in Params, munmap_chunk(p, g)
  PROVE  mp' \in Params /\ mmapped' \in Mappings
<1>1. BlockSize(p) \in Int
  BY MappedType
<1>2. mp' = [g EXCEPT !.n_mmaps = g.n_mmaps - 1, !.mmapped_mem = g.mmapped_mem - BlockSize(p)]
  BY DEF munmap_chunk, Params
<1>3. g.n_mmaps - 1 \in Int /\ g.mmapped_mem - BlockSize(p) \in Int
  BY <1>1, ParamsType
<1>4. mp' \in Params
  BY <1>2, <1>3, ParamsWith
<1>5. mmapped' \in Mappings
  BY PartialWithout DEF munmap_chunk, Mappings
<1> QED
  BY <1>4, <1>5

LEMMA CheckedFit ==
  ASSUME NEW a \in Fit, NEW ok
  PROVE  Checked(a, ok) \in Fit
  BY DEF Fit, Checked, Arenas, FeetFine

LEMMA StartFreeSteps ==
  ASSUME Alive, NEW op \in Ops, StartFree(op)
  PROVE  Starts(op)
<1> DEFINE p == op.mem
           raises == /\ ~mp.no_dyn_threshold
                     /\ mmapped[p].sz >= mp.mmap_threshold
                     /\ mmapped[p].sz < DEFAULT_MMAP_THRESHOLD_MAX
           g == IF raises THEN [mp EXCEPT !.mmap_threshold = mmapped[p].sz,
                                          !.trim_threshold = 2 * mmapped[p].sz]
                ELSE mp
<1>1. p \in Int /\ av \in Fit /\ mp \in Params /\ mmapped \in Mappings /\ live \in Partial(Int, Nat)
  BY DEF Ops, Alive
<1>2. live' \in Partial(Int, Nat) /\ call' = Idle
  <2>1. live' = Without(live, {p}) /\ call' = Idle
    BY DEF StartFree
  <2> QED
    BY <1>1, <2>1, PartialWithout
<1>3. CASE IsMmapped(p)
  <2>1. av' = Checked(av, BlockOK(p)) /\ munmap_chunk(p, g)
    BY <1>3 DEF StartFree
  <2>2. g \in Params
    <3>1. mmapped[p].sz \in Int /\ 2 * mmapped[p].sz \in Int
      BY <1>1, <1>3, MappedType DEF IsMmapped
    <3> QED
      BY <1>1, <3>1, ParamsWith
  <2> HIDE DEF g
  <2>3. mp' \in Params /\ mmapped' \in Mappings
    BY <1>1, <1>3, <2>1, <2>2, UnmapType DEF IsMmapped
  <2>4. av' \in Fit
    BY <1>1, <2>1, CheckedFit
  <2>5. Alive' /\ Phase(call') = 0
    BY <1>2, <2>3, <2>4, IdleNow
  <2> QED
    BY <2>5 DEF Starts
<1>4. CASE ~IsMmapped(p)
  <2>1. av' = _int_free(av, p, FALSE) /\ mp' \in Params /\ mmapped' \in Mappings
    BY <1>1, <1>4 DEF StartFree
  <2>2. av' \in Fit
    BY <1>1, <2>1, IntFreeSafe DEF Safe
  <2>3. Alive' /\ Phase(call') = 0
    BY <1>2, <2>1, <2>2, IdleNow
  <2> QED
    BY <2>3 DEF Starts
<1> QED
  BY <1>3, <1>4

LEMMA ReallocMappedSteps ==
  ASSUME Alive, NEW op \in Ops, op.kind = "realloc", IsMmapped(op.mem), ReallocMapped(op)
  PROVE  Starts(op)
<1> DEFINE p == op.mem
           nb == request2size(op.bytes)
           size == ALIGN_UP(nb + mmapped[p].prev_size + SIZE_SZ, PageSize)
           room == {n \in MapPages : PagesOf(n * PageSize, size)
                      \subseteq (MapPages \ maps) \cup PagesOf(BlockStart(p), BlockSize(p))}
           start == IF BlockStart(p) \div PageSize \in room THEN BlockStart(p)
                    ELSE Min(room) * PageSize
           newp == start + mmapped[p].prev_size
           m == [mmapped[p] EXCEPT !.sz = size - mmapped[p].prev_size]
           copy == [op EXCEPT !.kind = "copy"]
<1>1. p \in Int /\ op.bytes \in Nat /\ av \in Fit /\ mp \in Params /\ mmapped \in Mappings
      /\ live \in Partial(Int, Nat) /\ p \in DOMAIN mmapped
  BY DEF Ops, Alive, IsMmapped
<1>2. /\ mmapped[p].sz \in Int /\ mmapped[p].prev_size \in Int
      /\ BlockStart(p) \in Int /\ BlockSize(p) \in Int
      /\ mmapped[p] \in [sz : Int, prev_size : Int]
  BY <1>1, MappedType
<1>3. size \in Int
  <2>1. nb \in Int
    BY <1>1, RequestFits
  <2> HIDE DEF nb
  <2>2. nb + mmapped[p].prev_size + SIZE_SZ \in Int
    BY <1>2, <2>1, Sizes
  <2> QED
    BY <2>2, AlignType, Sizes
<1>4. room # {} => newp \in Int
  <2>1. room # {} => Min(room) \in Nat
    <3>1. room \subseteq Nat
      BY MallocAssumption
    <3> HIDE DEF room
    <3> QED
      BY <3>1, MinOf
  <2> HIDE DEF room
  <2>2. room # {} => start \in Int
    BY <1>2, <2>1, Sizes
  <2> HIDE DEF start
  <2> QED
    BY <1>2, <2>2
<1>5. m \in [sz : Int, prev_size : Int]
  <2> HIDE DEF size
  <2> QED
    BY <1>2, <1>3
<1>6. ASSUME live' = [live EXCEPT ![p] = op.bytes], call' = Idle, av' \in Fit,
             UNCHANGED <<mp, mmapped>>
      PROVE  Starts(op)
  <2>1. live' \in Partial(Int, Nat) /\ mp' \in Params /\ mmapped' \in Mappings
    BY <1>1, <1>6, LiveWith
  <2> QED
    BY <1>6, <2>1, IdleNow DEF Starts
<1>7. CASE /\ live' = [live EXCEPT ![p] = op.bytes] /\ call' = Idle
           /\ av' = Checked(av, BlockOK(p)) /\ UNCHANGED <<mp, maps, mmapped>>
  BY <1>1, <1>6, <1>7, CheckedFit
<1>8. CASE /\ room # {}
           /\ mmapped' = With(Without(mmapped, {p}), newp, m)
           /\ mp' = [mp EXCEPT !.mmapped_mem = @ + size - BlockSize(p)]
           /\ live' = With(Without(live, {p}), newp, op.bytes)
           /\ call' = Idle
           /\ av' = Checked(av, BlockOK(p))
  <2> HIDE DEF room, newp, size, m
  <2>1. newp \in Int
    BY <1>4, <1>8
  <2>2. mmapped' \in Mappings
    BY <1>1, <1>5, <1>8, <2>1, PartialWith, PartialWithout DEF Mappings
  <2>3. live' \in Partial(Int, Nat)
    BY <1>1, <1>8, <2>1, LiveWith
  <2>4. mp' \in Params
    <3>1. mp.mmapped_mem + size - BlockSize(p) \in Int
      BY <1>1, <1>2, <1>3, ParamsType
    <3>2. mp' = [mp EXCEPT !.mmapped_mem = mp.mmapped_mem + size - BlockSize(p)]
      BY <1>1, <1>8 DEF Params
    <3> QED
      BY <1>1, <3>1, <3>2, ParamsWith
  <2>5. av' \in Fit
    BY <1>1, <1>8, CheckedFit
  <2> QED
    BY <1>8, <2>2, <2>3, <2>4, <2>5, IdleNow DEF Starts
<1>9. CASE /\ av' = Checked(av, BlockOK(p))
           /\ call' = IF av.tcache = NULL THEN InitTcache(copy) ELSE [pc |-> "resume", op |-> copy]
           /\ UNCHANGED <<mp, mmapped, maps, live>>
  <2>1. copy \in Ops /\ copy.kind = "copy" /\ copy.mem = p
    BY DEF Ops, Kinds
  <2> HIDE DEF copy
  <2>0. av' \in Fit
    BY <1>1, <1>9, CheckedFit
  <2>2. CASE call' = InitTcache(copy)
    <3>1. request2size(TCACHE_STRUCT) \in Nat /\ request2size(TCACHE_STRUCT) >= MINSIZE
      BY RequestFits, MallocAssumption
    <3>2. av' \in Fit /\ mp' \in Params /\ live' \in Partial(Int, Nat) /\ UNCHANGED mmapped
      BY <1>1, <1>9, <2>0
    <3> DEFINE n == request2size(TCACHE_STRUCT)
    <3>3. call' = Search(copy, TRUE, n)
      BY <2>2 DEF InitTcache
    <3> HIDE DEF n, nb, size, room, start, newp, m
    <3>4. Alive' /\ Phase(call') = (IF copy.kind = "copy" THEN 3 ELSE 6) + 3
      BY <1>1, <2>1, <3>1, <3>2, <3>3, SearchBegins DEF n
    <3> QED
      BY <2>1, <3>4 DEF Starts
  <2>3. CASE call' = [pc |-> "resume", op |-> copy]
    <3>1. call' \in Resumed /\ call'.op = copy
      BY <2>1, <2>3, ResumeType
    <3>2. call' \in Calls /\ call' \notin Searches
      <4>1. call' \in Calls
        BY <3>1 DEF Calls
      <4> QED
        BY <3>1, <4>1, CallShape
    <3>3. Alive'
      BY <1>1, <1>9, <2>0, <2>1, <3>1, <3>2, AliveNow
    <3>4. Phase(call') = 4
      BY <2>1, <3>1, PhaseOf DEF Early
    <3> QED
      BY <3>3, <3>4 DEF Starts
  <2> QED
    BY <1>9, <2>2, <2>3
<1> QED
  BY <1>7, <1>8, <1>9 DEF ReallocMapped

LEMMA ReallocInArenaSteps ==
  ASSUME Alive, NEW op \in Ops, op.kind = "realloc", ReallocInArena(op)
  PROVE  Starts(op)
<1> DEFINE p == op.mem
           nb == request2size(op.bytes)
           size == chunksize(av, p)
           next == p + size
           nextsize == chunksize(av, next)
           ok == /\ MoreThanHeader(av, next) /\ nextsize < av.system_mem
                 /\ MoreThanHeader(av, p) /\ size < av.system_mem
           a == Checked(av, ok)
           intoTop == next = av.top /\ size + nextsize >= nb + MINSIZE
           intoNext == next # av.top /\ ~inuse(av, next) /\ size + nextsize >= nb
           inPlace == size >= nb \/ intoTop \/ intoNext
           b == set_head_size(a, p, nb)
           c == [b EXCEPT !.top = p + nb]
           d == set_head(c, p + nb, size + nextsize - nb, TRUE)
           e == FreeTail(unlink_chunk(a, next), p, size + nextsize, nb)
           f == FreeTail(a, p, size, nb)
           n == request2size(nb - MALLOC_ALIGN_MASK)
<1>1. p \in Int /\ op.bytes \in Nat /\ av \in Fit /\ mp \in Params /\ mmapped \in Mappings
      /\ live \in Partial(Int, Nat)
  BY DEF Ops, Alive
<1>2. nb \in Nat /\ nb >= MINSIZE /\ size \in Int /\ next \in Int /\ nextsize \in Int
  BY <1>1, RequestFits, FitType
<1>3. n \in Nat /\ n >= MINSIZE
  <2>1. MINSIZE >= MALLOC_ALIGN_MASK
    BY Sizes, SizesAssumption, ArenaAssumption DEF Least, MALLOC_ALIGN_MASK
  <2> HIDE DEF nb
  <2>2. nb - MALLOC_ALIGN_MASK \in Nat
    BY <1>2, <2>1, Sizes
  <2> QED
    BY <2>2, RequestFits
<1>4. av' = f \/ av' = d \/ av' = e \/ av' = a
  <2>1. av' = CASE size >= nb -> f
                 [] size < nb /\ intoTop -> d
                 [] size < nb /\ intoNext -> e
                 [] OTHER -> a
    BY DEF ReallocInArena
  <2> HIDE DEF a, d, e, f, size, nb, intoTop, intoNext
  <2> QED
    BY <2>1
<1>5. /\ live' = IF inPlace THEN [live EXCEPT ![p] = op.bytes] ELSE live
      /\ call' = IF inPlace THEN Idle ELSE Search(op, FALSE, n)
      /\ UNCHANGED <<mp, mmapped>>
  BY DEF ReallocInArena
<1> HIDE DEF nb, size, next, nextsize, inPlace, n
<1>6. a \in Fit
  BY <1>1, CheckedFit
<1> HIDE DEF a
<1>7. f \in Fit
  BY <1>1, <1>2, <1>6, FreeTailSafe DEF Safe
<1>8. d \in Fit
  <2>1. b \in Fit
    BY <1>1, <1>2, <1>6, SetHeadSizeKeeps DEF Keeps, Safe
  <2>2. p + nb \in Int /\ size + nextsize - nb \in Int
    BY <1>1, <1>2
  <2> HIDE DEF b
  <2>3. c \in Fit
    BY <2>1, <2>2, TopKeeps DEF Keeps, Safe
  <2> HIDE DEF c
  <2> QED
    BY <2>2, <2>3, SetHeadKeeps DEF Keeps, Safe
<1>9. e \in Fit
  <2>1. unlink_chunk(a, next) \in Fit
    BY <1>6, UnlinkKeeps DEF Keeps, Safe
  <2>2. size + nextsize \in Int
    BY <1>2
  <2> QED
    BY <1>1, <1>2, <2>1, <2>2, FreeTailSafe DEF Safe
<1> HIDE DEF d, e, f
<1>10. av' \in Fit /\ live' \in Partial(Int, Nat) /\ mp' \in Params /\ mmapped' \in Mappings
  <2>1. live' \in Partial(Int, Nat)
    BY <1>1, <1>5, LiveWith
  <2> QED
    BY <1>1, <1>4, <1>5, <1>6, <1>7, <1>8, <1>9, <2>1
<1>11. CASE inPlace
  BY <1>5, <1>10, <1>11, IdleNow DEF Starts
<1>12. CASE ~inPlace
  <2>1. Alive' /\ Phase(call') = 3
    BY <1>3, <1>5, <1>10, <1>12, SearchBegins
  <2> QED
    BY <2>1 DEF Starts
<1> QED
  BY <1>11, <1>12

LEMMA StartSteps ==
  ASSUME Alive, NEW op \in Ops, Start(op), op.kind = "copy" => op.mem \in DOMAIN mmapped
  PROVE  Starts(op)
<1>1. CASE op.kind \in {"malloc", "copy"}
  BY <1>1, StartMallocSteps DEF Start
<1>2. CASE op.kind \in {"calloc", "memalign"}
  BY <1>2, StartSearchSteps DEF Start
<1>3. CASE op.kind = "free"
  BY <1>3, StartFreeSteps DEF Start
<1>4. CASE op.kind = "realloc"
  BY <1>4, ReallocMappedSteps, ReallocInArenaSteps DEF Start
<1> QED
  BY <1>1, <1>2, <1>3, <1>4 DEF Ops, Kinds

LEMMA ResumesSteps == ASSUME MInv, Resumes PROVE Advances
<1>1. Alive /\ call.pc = "resume"
  BY DEF MInv, Resumes, At
<1>2. call \in Resumed /\ call \in Calls /\ call # Idle /\ call.op \in Ops
  BY <1>1, CallShape DEF Alive, Idle
<1>3. call.op.kind = "copy" => call.op.mem \in DOMAIN mmapped
  BY <1>1, <1>2 DEF Alive, CopyMapped
<1>4. Starts(call.op)
  BY <1>1, <1>2, <1>3, StartSteps DEF Resumes
<1>5. Phase(call) = (IF call.op.kind = "copy" THEN 3 ELSE 6) + 1
  BY <1>2, PhaseOf DEF Early
<1>6. call' \in Calls /\ Phase(call') \in Nat
  BY <1>4, PhaseType DEF Starts, Alive
<1>7. Phase(call') < Phase(call)
  BY <1>4, <1>5, <1>6 DEF Starts
<1> QED
  BY <1>2, <1>4, <1>6, <1>7, PhaseFalls DEF Advances, MInv, Starts

LEMMA UnmapsOldSteps == ASSUME MInv, UnmapsOld PROVE Advances
<1>1. Alive /\ call.pc = "unmap"
  BY DEF MInv, UnmapsOld, At
<1>2. call \in Unmapping /\ call \in Calls /\ call # Idle
  BY <1>1, CallShape DEF Alive, Idle
<1>3. call.op.mem \in DOMAIN mmapped
  BY <1>1, <1>2 DEF Alive, CopyMapped, Unmapping
<1>4. av' = Checked(av, BlockOK(call.op.mem)) /\ munmap_chunk(call.op.mem, mp)
      /\ call' = Idle /\ UNCHANGED live
  BY DEF UnmapsOld
<1>5. mp' \in Params /\ mmapped' \in Mappings
  BY <1>1, <1>3, <1>4, UnmapType DEF Alive
<1>6. av' \in Fit /\ live' \in Partial(Int, Nat)
  BY <1>1, <1>4, CheckedFit DEF Alive
<1>7. Alive' /\ Phase(call') = 0
  BY <1>4, <1>5, <1>6, IdleNow
<1>8. Phase(call) = 1 /\ call' \in Calls
  BY <1>2, <1>7, PhaseOf DEF Alive
<1> QED
  BY <1>2, <1>7, <1>8, PhaseFalls DEF Advances, MInv

-----------------------------------------------------------------------------
(* The calls and what happens between them *)

LEMMA BetweenCalls ==
  ASSUME MInv, At("idle")
  PROVE  Alive /\ call = Idle /\ av \in Fit /\ mp \in Params /\ live \in Partial(Int, Nat)
  BY CallShape DEF MInv, At, Alive

LEMMA StartWithTcacheSteps ==
  ASSUME MInv, At("idle"), NEW op \in Ops, StartWithTcache(op), op.kind # "copy"
  PROVE  Advances
<1>1. Alive /\ call = Idle /\ av \in Fit /\ mp \in Params /\ live \in Partial(Int, Nat)
  BY BetweenCalls
<1>2. CASE av.tcache = NULL /\ WantsTcache(op)
  <2> DEFINE n == request2size(TCACHE_STRUCT)
  <2>1. n \in Nat /\ n >= MINSIZE
    BY RequestFits, MallocAssumption
  <2>2. call' = Search(op, TRUE, n) /\ UNCHANGED <<av, mp, mmapped, live>>
    BY <1>2 DEF StartWithTcache, InitTcache
  <2> HIDE DEF n
  <2>3. Alive'
    BY <1>1, <2>1, <2>2, SearchBegins
  <2> QED
    BY <1>1, <2>3 DEF Advances, MInv
<1>3. CASE Start(op)
  BY <1>1, <1>3, StartSteps DEF Advances, MInv, Starts
<1> QED
  BY <1>2, <1>3 DEF StartWithTcache

LEMMA CallsBegin ==
  ASSUME MInv,
         \/ \E bytes \in Requests : Malloc(bytes)
         \/ \E bytes \in CallocRequests : Calloc(bytes)
         \/ \E align \in Alignments, bytes \in AlignedRequests : Memalign(align, bytes)
         \/ \E p \in DOMAIN live : Free(p)
         \/ \E p \in DOMAIN live, bytes \in ReallocRequests : Realloc(p, bytes)
  PROVE  Advances
<1>0. 1 \in Nat \ {0} /\ NULL \in Int /\ 0 \in Nat
  BY DEF NULL
<1>1. ASSUME NEW bytes \in Requests, Malloc(bytes) PROVE Advances
  <2>1. Op("malloc", NULL, 1, bytes) \in Ops /\ Op("malloc", NULL, 1, bytes).kind # "copy"
    BY <1>0, MallocAssumption DEF Op, Ops, Kinds
  <2> QED
    BY <1>1, <2>1, StartWithTcacheSteps DEF Malloc, MayAsk
<1>2. ASSUME NEW bytes \in CallocRequests, Calloc(bytes) PROVE Advances
  <2>1. Op("calloc", NULL, 1, bytes) \in Ops /\ Op("calloc", NULL, 1, bytes).kind # "copy"
    BY <1>0, MallocAssumption DEF Op, Ops, Kinds
  <2> QED
    BY <1>2, <2>1, StartWithTcacheSteps DEF Calloc, MayAsk
<1>3. ASSUME NEW align \in Alignments, NEW bytes \in AlignedRequests, Memalign(align, bytes)
      PROVE  Advances
  <2>1. Op("memalign", NULL, align, bytes) \in Ops
        /\ Op("memalign", NULL, align, bytes).kind # "copy"
    BY <1>0, MallocAssumption DEF Op, Ops, Kinds
  <2> QED
    BY <1>3, <2>1, StartWithTcacheSteps DEF Memalign, MayAsk
<1>4. ASSUME NEW p \in DOMAIN live, Free(p) PROVE Advances
  <2>1. p \in Int
    BY <1>4, BetweenCalls, PartialType DEF Free
  <2>2. Op("free", p, 1, 0) \in Ops /\ Op("free", p, 1, 0).kind # "copy"
    BY <1>0, <2>1 DEF Op, Ops, Kinds
  <2> QED
    BY <1>4, <2>2, StartWithTcacheSteps DEF Free
<1>5. ASSUME NEW p \in DOMAIN live, NEW bytes \in ReallocRequests, Realloc(p, bytes)
      PROVE  Advances
  <2>1. p \in Int
    BY <1>5, BetweenCalls, PartialType DEF Realloc
  <2>2. Op("realloc", p, 1, bytes) \in Ops /\ Op("realloc", p, 1, bytes).kind # "copy"
    BY <1>0, <2>1, MallocAssumption DEF Op, Ops, Kinds
  <2> QED
    BY <1>5, <2>2, StartWithTcacheSteps DEF Realloc
<1> QED
  BY <1>1, <1>2, <1>3, <1>4, <1>5

\* What happens between calls.
LEMMA StaysIdle ==
  ASSUME Alive, call = Idle, av' \in Fit, mp' \in Params, UNCHANGED <<mmapped, live, call>>
  PROVE  Advances
  BY IdleNow DEF Alive, Advances, MInv

LEMMA FastLimit ==
  ASSUME NEW g \in Params, NEW n \in Nat, n <= MAX_FAST_SIZE
  PROVE  [g EXCEPT !.max_fast = max_fast_for(n)] \in Params
<1> DEFINE r == request2size(MAX_FAST_SIZE)
           m == max_fast_for(n)
<1>1. r \in Nat /\ r >= MAX_FAST_SIZE + SIZE_SZ /\ MAX_FAST_SIZE \in Nat
  BY RequestFits, ArenaAssumption
<1>2. m \in Int /\ (m < MINSIZE \/ m <= r)
  <2>1. CASE n <= MALLOC_ALIGN_MASK - SIZE_SZ
    <3>1. MIN_CHUNK_SIZE \div 2 \in Int /\ MIN_CHUNK_SIZE \div 2 < MINSIZE
      BY Layout, SizesAssumption
    <3> QED
      BY <2>1, <3>1 DEF max_fast_for
  <2>2. CASE ~(n <= MALLOC_ALIGN_MASK - SIZE_SZ)
    <3>1. n + SIZE_SZ \in Nat
      BY Sizes
    <3>2. /\ ALIGN_DOWN(n + SIZE_SZ, MALLOC_ALIGNMENT) \in Nat
          /\ ALIGN_DOWN(n + SIZE_SZ, MALLOC_ALIGNMENT) <= n + SIZE_SZ
      BY <3>1, Sizes, AlignDown
    <3>3. m = ALIGN_DOWN(n + SIZE_SZ, MALLOC_ALIGNMENT)
      BY <2>2 DEF max_fast_for
    <3> HIDE DEF r, m
    <3> QED
      BY <1>1, <3>2, <3>3, Sizes
  <2> QED
    BY <2>1, <2>2
<1> HIDE DEF r, m
<1>3. ASSUME NEW sz \in Nat, sz >= MINSIZE, sz <= m
      PROVE  fastbin_index(sz) \in FastIdx
  <2>1. sz <= r
    BY <1>1, <1>2, <1>3, Sizes
  <2> DEFINE q == sz \div CHUNK_HDR_SZ
             s == r \div CHUNK_HDR_SZ
             l == Least \div CHUNK_HDR_SZ
  <2>2. q \in Nat /\ s \in Nat /\ q <= s
    BY <1>1, <2>1, Sizes, Division, QuotientsGrow
  <2>3. l \in Nat /\ l <= q
    <3>1. Least <= sz
      BY <1>3, Sizes
    <3> QED
      BY <2>2, <3>1, Sizes, Division, QuotientsGrow
  <2>4. l = 2
    <3>1. Least = CHUNK_HDR_SZ * 2 /\ CHUNK_HDR_SZ \in Nat \ {0}
      BY Sizes DEF Least
    <3> QED
      BY <3>1
  <2>5. NFASTBINS = (s - 2) + 1
    BY DEF NFASTBINS, fastbin_index, r
  <2>6. fastbin_index(sz) = q - 2
    BY DEF fastbin_index
  <2> HIDE DEF q, s, l
  <2> QED
    BY <2>2, <2>3, <2>4, <2>5, <2>6 DEF FastIdx
<1>4. [g EXCEPT !.max_fast = m] \in Params
  BY <1>2, <1>3 DEF Params
<1> QED
  BY <1>4 DEF m

LEMMA MallocTrimSteps ==
  ASSUME MInv, NEW pad \in TrimPads, MallocTrim(pad)
  PROVE  Advances
<1> DEFINE merged == malloc_consolidate(av)
<1>1. Alive /\ call = Idle /\ av \in Fit /\ mp \in Params
  BY BetweenCalls DEF MallocTrim
<1>2. av' = systrim(merged, pad) \/ av' = merged
  BY DEF MallocTrim
<1>3. merged \in Fit
  BY <1>1, Consolidates DEF Safe
<1> HIDE DEF merged
<1>4. systrim(merged, pad) \in Fit
  <2>1. pad \in Int
    BY MallocAssumption
  <2> QED
    BY <1>3, <2>1, SystrimKeeps DEF Keeps, Safe
<1>5. av' \in Fit /\ UNCHANGED <<mp, mmapped, live, call>>
  BY <1>2, <1>3, <1>4 DEF MallocTrim
<1> QED
  BY <1>1, <1>5, StaysIdle

LEMMA OptionParams ==
  ASSUME NEW g \in Params, NEW v \in Nat
  PROVE  /\ [g EXCEPT !.trim_threshold = v, !.no_dyn_threshold = TRUE] \in Params
         /\ [g EXCEPT !.top_pad = v, !.no_dyn_threshold = TRUE] \in Params
         /\ [g EXCEPT !.mmap_threshold = v, !.no_dyn_threshold = TRUE] \in Params
         /\ [g EXCEPT !.n_mmaps_max = v, !.no_dyn_threshold = TRUE] \in Params
<1>0. v \in Int
  OBVIOUS
<1>1. [g EXCEPT !.trim_threshold = v, !.no_dyn_threshold = TRUE] \in Params
  <2> DEFINE h == [g EXCEPT !.trim_threshold = v]
  <2>1. h \in Params
    BY <1>0 DEF Params
  <2>2. [h EXCEPT !.no_dyn_threshold = TRUE] \in Params
    <3> HIDE DEF h
    <3> QED
      BY <2>1 DEF Params
  <2> QED
    BY <2>2
<1>2. [g EXCEPT !.top_pad = v, !.no_dyn_threshold = TRUE] \in Params
  BY DEF Params
<1>3. [g EXCEPT !.mmap_threshold = v, !.no_dyn_threshold = TRUE] \in Params
  <2> DEFINE h == [g EXCEPT !.mmap_threshold = v]
  <2>1. h \in Params
    BY <1>0 DEF Params
  <2>2. [h EXCEPT !.no_dyn_threshold = TRUE] \in Params
    <3> HIDE DEF h
    <3> QED
      BY <2>1 DEF Params
  <2> QED
    BY <2>2
<1>4. [g EXCEPT !.n_mmaps_max = v, !.no_dyn_threshold = TRUE] \in Params
  <2> DEFINE h == [g EXCEPT !.n_mmaps_max = v]
  <2>1. h \in Params
    BY <1>0 DEF Params
  <2>2. [h EXCEPT !.no_dyn_threshold = TRUE] \in Params
    <3> HIDE DEF h
    <3> QED
      BY <2>1 DEF Params
  <2> QED
    BY <2>2
<1> QED
  BY <1>1, <1>2, <1>3, <1>4

LEMMA MalloptSteps ==
  ASSUME MInv, NEW o \in Options, Mallopt(o)
  PROVE  Advances
<1>1. Alive /\ call = Idle /\ av \in Fit /\ mp \in Params
  BY BetweenCalls DEF Mallopt
<1>2. av' \in Fit
  BY <1>1, Consolidates DEF Mallopt, Safe
<1>3. o.param \in {"trim_threshold", "top_pad", "mmap_threshold", "n_mmaps_max", "max_fast"}
      /\ o.value \in Nat
  BY MallocAssumption
<1>4. mp' \in Params
  <2>0. CASE ~Accepts(o)
    BY <1>1, <2>0 DEF Mallopt
  <2>1. CASE Accepts(o) /\ o.param = "max_fast"
    <3>1. mp' = [mp EXCEPT !.max_fast = max_fast_for(o.value)] /\ o.value <= MAX_FAST_SIZE
      BY <2>1 DEF Mallopt, Accepts
    <3> QED
      BY <1>1, <1>3, <3>1, FastLimit
  <2>2. CASE Accepts(o) /\ o.param # "max_fast"
    <3>1. mp' = [mp EXCEPT ![o.param] = o.value, !.no_dyn_threshold = TRUE]
      BY <2>2 DEF Mallopt
    <3>2. /\ [mp EXCEPT !.trim_threshold = o.value, !.no_dyn_threshold = TRUE] \in Params
          /\ [mp EXCEPT !.top_pad = o.value, !.no_dyn_threshold = TRUE] \in Params
          /\ [mp EXCEPT !.mmap_threshold = o.value, !.no_dyn_threshold = TRUE] \in Params
          /\ [mp EXCEPT !.n_mmaps_max = o.value, !.no_dyn_threshold = TRUE] \in Params
      BY <1>1, <1>3, OptionParams
    <3> QED
      BY <1>3, <2>2, <3>1, <3>2
  <2> QED
    BY <2>0, <2>1, <2>2
<1>5. UNCHANGED <<mmapped, live, call>>
  BY DEF Mallopt
<1> QED
  BY <1>1, <1>2, <1>4, <1>5, StaysIdle

LEMMA ForeignSbrkSteps ==
  ASSUME MInv, NEW n \in ForeignSizes, ForeignSbrk(n)
  PROVE  Advances
<1>1. Alive /\ call = Idle /\ av \in Fit /\ mp \in Params
  BY BetweenCalls DEF ForeignSbrk
<1>2. av' = [av EXCEPT !.brk = av.brk + n]
  BY <1>1 DEF ForeignSbrk, Fit, Arenas
<1>3. av.brk + n \in Int
  BY <1>1, FieldType, MallocAssumption
<1>4. av' \in Fit
  BY <1>1, <1>2, <1>3, BreakKeeps DEF Keeps, Safe
<1>5. mp' \in Params /\ UNCHANGED <<mmapped, live, call>>
  BY <1>1 DEF ForeignSbrk
<1> QED
  BY <1>1, <1>4, <1>5, StaysIdle

LEMMA DeadSteps == ASSUME MInv, Dead PROVE Advances
  BY DEF Dead, Advances, MInv, vars

LEMMA NextAdvances == ASSUME MInv, Next PROVE Advances
<1>1. CASE FastbinServes \/ SmallbinServes \/ EntersLoop
  BY <1>1, FastbinServesSteps, SmallbinServesSteps, EntersLoopSteps
<1>2. CASE LastRemainderServes \/ ExactFitCached \/ ExactFitServes \/ UnfitGoesToBin
  BY <1>2, LastRemainderServesSteps, ExactFitCachedSteps, ExactFitServesSteps, UnfitGoesToBinSteps
<1>3. CASE CachedServes \/ LargeBinServes \/ BinServes \/ TopServes \/ ConsolidatesAgain
  BY <1>3, CachedServesSteps, LargeBinServesSteps, BinServesSteps, TopServesSteps,
     ConsolidatesAgainSteps
<1>4. CASE MapsRequest \/ MapIsRefused \/ SysmallocAborts \/ TopGrows \/ TopMoves
           \/ TopMovesApart \/ TopIsMapped \/ NoMemory
  BY <1>4, MapsRequestSteps, MapIsRefusedSteps, SysmallocAbortsSteps, TopGrowsSteps,
     TopMovesSteps, TopMovesApartSteps, TopIsMappedSteps, NoMemorySteps
<1>5. CASE Delivers \/ Resumes \/ UnmapsOld
  BY <1>5, DeliversSteps, ResumesSteps, UnmapsOldSteps
<1>6. CASE \/ \E bytes \in Requests : Malloc(bytes)
           \/ \E bytes \in CallocRequests : Calloc(bytes)
           \/ \E align \in Alignments, bytes \in AlignedRequests : Memalign(align, bytes)
           \/ \E p \in DOMAIN live : Free(p)
           \/ \E p \in DOMAIN live, bytes \in ReallocRequests : Realloc(p, bytes)
  BY <1>6, CallsBegin
<1>7. CASE \/ \E pad \in TrimPads : MallocTrim(pad)
           \/ \E o \in Options : Mallopt(o)
           \/ \E n \in ForeignSizes : ForeignSbrk(n)
           \/ Dead
  BY <1>7, MallocTrimSteps, MalloptSteps, ForeignSbrkSteps, DeadSteps
<1> QED
  BY <1>1, <1>2, <1>3, <1>4, <1>5, <1>6, <1>7 DEF Next

LEMMA StartsAlive == Init => MInv
<1> SUFFICES ASSUME Init PROVE Alive
  BY DEF MInv
<1>0. << >> \in Partial(Int, Header) /\ << >> \in Partial(Int, Int)
      /\ << >> \in Mappings /\ << >> \in Partial(Int, Nat) /\ DOMAIN << >> = {}
  <2>1. DOMAIN << >> = {}
    OBVIOUS
  <2>2. \A T : << >> \in [{} -> T]
    OBVIOUS
  <2>3. \A S, T : << >> \in Partial(S, T)
    BY <2>2 DEF Partial
  <2> QED
    BY <2>1, <2>3 DEF Mappings
<1> DEFINE bins == [i \in 1 .. NBINS - 1 |-> <<>>]
           fast == [i \in FastIdx |-> <<>>]
           cached == [i \in CacheIdx |-> <<>>]
<1>1. bins \in Bins /\ fast \in Fasts /\ cached \in Caches
  BY EmptyInts DEF Bins, Fasts, Caches
<1>2. PICK b \in InitialBreaks :
        av = [hdr |-> << >>, foot |-> << >>, top |-> NULL,
              bins |-> bins, skip |-> {}, binmap |-> {},
              fast |-> fast, have_fastchunks |-> FALSE,
              last_remainder |-> NULL, system_mem |-> 0, contiguous |-> TRUE,
              tcache |-> NULL, cached |-> cached,
              brk |-> b, died |-> FALSE]
  BY DEF Init
<1>3. b \in Int /\ NULL \in Int
  BY MallocAssumption DEF NULL
<1> HIDE DEF bins, fast, cached
<1>4. av \in Arenas
  BY <1>0, <1>1, <1>2, <1>3 DEF Arenas
<1>5. FeetFine(av)
  BY <1>0, <1>2 DEF FeetFine
<1>6. mp \in Params
  <2> DEFINE n == max_fast_for(DEFAULT_MXFAST)
             off == FALSE
             g(m) == [trim_threshold |-> DEFAULT_TRIM_THRESHOLD, top_pad |-> DEFAULT_TOP_PAD,
                      mmap_threshold |-> DEFAULT_MMAP_THRESHOLD, n_mmaps |-> 0,
                      n_mmaps_max |-> DEFAULT_MMAP_MAX, no_dyn_threshold |-> off,
                      mmapped_mem |-> 0, sbrk_base |-> NULL, max_fast |-> m]
  <2>1. g(0) \in Params
    <3>1. MINSIZE > 0
      <4>1. Least > 0
        BY Sizes DEF Least
      <4> QED
        BY <4>1, Sizes
    <3>2. \A sz \in Nat : sz >= MINSIZE /\ sz <= 0 => fastbin_index(sz) \in FastIdx
      BY <3>1, Sizes
    <3>3. g(0) \in [trim_threshold : Int, top_pad : Nat, mmap_threshold : Int, n_mmaps : Int,
                    n_mmaps_max : Int, no_dyn_threshold : BOOLEAN, mmapped_mem : Int,
                    sbrk_base : Int, max_fast : Int]
      BY <1>3, MallocAssumption
    <3>4. g(0).max_fast = 0
      OBVIOUS
    <3> HIDE DEF g
    <3> QED
      BY <3>2, <3>3, <3>4 DEF Params
  <2>2. mp = g(n)
    BY DEF Init
  <2>3. \A m : [g(0) EXCEPT !.max_fast = m] = g(m)
    <3> HIDE DEF off
    <3> QED
      OBVIOUS
  <2>4. mp = [g(0) EXCEPT !.max_fast = n]
    BY <2>2, <2>3, Zenon
  <2> HIDE DEF g, n
  <2> QED
    BY <2>1, <2>4, FastLimit, MallocAssumption DEF n
<1>7. call = Idle /\ mmapped = << >> /\ live = << >>
  BY DEF Init
<1>8. call \in Calls /\ call \notin Searches
  <2>1. call \in Calls
    BY <1>7 DEF Calls
  <2> QED
    BY <1>7, <2>1, CallShape
<1> QED
  BY <1>0, <1>4, <1>5, <1>6, <1>7, <1>8 DEF Alive, Fit, CachedStays, CopyMapped

\* As long as no assertion has failed, every free chunk is said to be at least a
\* chunk's size, the exact fit a search has cached is still there, and what a
\* realloc copies from is still mapped.
THEOREM StaysSound == Spec => []MInv
<1>1. MInv /\ [Next]_vars => MInv'
  <2> SUFFICES ASSUME MInv, [Next]_vars PROVE MInv'
    OBVIOUS
  <2>1. CASE Next
    BY <2>1, NextAdvances DEF Advances
  <2>2. CASE UNCHANGED vars
    <3>1. UNCHANGED <<av, mp, mmapped, live, call>>
      BY <2>2 DEF vars
    <3> QED
      BY <3>1 DEF MInv, Alive, CachedStays, CopyMapped, Params
  <2> QED
    BY <2>1, <2>2
<1> QED
  BY <1>1, StartsAlive, PTL DEF Spec

\* What a call has to do is measured in natural numbers, so that it cannot become
\* less for ever.
THEOREM WorkIsFinite == Spec => [](~av.died => Pending \in Nat \X Nat \X Nat \X Nat \X Nat)
<1>1. MInv => (~av.died => Pending \in Nat \X Nat \X Nat \X Nat \X Nat)
  <2> SUFFICES ASSUME Alive
               PROVE  Pending \in Nat \X Nat \X Nat \X Nat \X Nat
    BY DEF MInv
  <2>1. Phase(call) \in Nat
    BY PhaseType DEF Alive
  <2>2. CASE call \in Searches
    <3>1. av.bins[1] \in Seq(Int)
      BY <2>2, SearchType, OwnBin DEF Alive
    <3>2. Len(av.bins[1]) \in Nat
      BY <3>1
    <3> QED
      BY <2>1, <3>2 DEF Pending
  <2>3. CASE call \notin Searches
    <3>1. call.pc \notin {"bins", "unsorted"}
      BY <2>3, CallShape DEF Alive
    <3> QED
      BY <2>1, <3>1 DEF Pending
  <2> QED
    BY <2>2, <2>3
<1> QED
  BY <1>1, StaysSound, PTL

\* Every step of a call to the allocator leaves less to do, whatever the requests,
\* the sizes of the build and the kernel's refusals: no call runs for ever, also when malloc
\* consolidates the fast bins and starts over.
THEOREM CallsEnd == Spec => CallsAdvance
<1>1. MInv /\ [Next]_vars => [call # Idle /\ ~av'.died => LexBelow(Pending', Pending)]_vars
  BY NextAdvances DEF Advances
<1> QED
  BY <1>1, StaysSound, PTL DEF Spec, CallsAdvance
-----------------------------------------------------------------------------
(* Lists in which nothing stands twice *)

\* The places where free chunks are kept.
Places == ({"bin"} \X (1 .. NBINS - 1)) \cup ({"fast"} \X FastIdx) \cup ({"cache"} \X CacheIdx)

Once(L) ==
  \A l, m \in DOMAIN L : \A i \in DOMAIN L[l], j \in DOMAIN L[m] :
    L[l][i] = L[m][j] => l = m /\ i = j
Members(L) == UNION {ToSet(L[l]) : l \in DOMAIN L}

LEMMA MemberIs ==
  ASSUME NEW L, NEW x
  PROVE  x \in Members(L) <=> \E l \in DOMAIN L : \E i \in DOMAIN L[l] : x = L[l][i]
  BY DEF Members, ToSet

\* One list is replaced by some of its elements, in whatever order, and at most one
\* that was on no list: m tells where each came from, 0 standing for the new one.
Comes(q, s, x, m) ==
  /\ \A i, j \in DOMAIN s : m[i] = m[j] => i = j
  /\ \A i \in DOMAIN s : \/ m[i] = 0 /\ s[i] = x
                         \/ m[i] \in DOMAIN q \ {0} /\ s[i] = q[m[i]]

LEMMA Reshelved ==
  ASSUME NEW L, Once(L), NEW l \in DOMAIN L
  PROVE  \A s, x, m :
           x \notin Members(L) /\ Comes(L[l], s, x, m) =>
             /\ Once([L EXCEPT ![l] = s])
             /\ Members([L EXCEPT ![l] = s]) = (Members(L) \ ToSet(L[l])) \cup ToSet(s)
<1> SUFFICES ASSUME NEW s, NEW x, NEW m, x \notin Members(L), Comes(L[l], s, x, m)
             PROVE  /\ Once([L EXCEPT ![l] = s])
                    /\ Members([L EXCEPT ![l] = s]) = (Members(L) \ ToSet(L[l])) \cup ToSet(s)
  OBVIOUS
<1> DEFINE S == DOMAIN L
           N == [L EXCEPT ![l] = s]
<1>1. /\ DOMAIN N = S /\ N[l] = s
      /\ \A k \in S : k # l => N[k] = L[k]
      /\ DOMAIN L = S
  OBVIOUS
<1> HIDE DEF N, S
<1>0. /\ \A i, j \in DOMAIN s : m[i] = m[j] => i = j
      /\ \A i \in DOMAIN s : \/ m[i] = 0 /\ s[i] = x
                             \/ m[i] \in DOMAIN L[l] \ {0} /\ s[i] = L[l][m[i]]
  BY DEF Comes
<1>2. \A k \in S : \A i \in DOMAIN L[k] : L[k][i] \in Members(L)
  BY <1>1, MemberIs
<1>3. \A k, n \in S : \A i \in DOMAIN L[k], j \in DOMAIN L[n] : L[k][i] = L[n][j] => k = n /\ i = j
  BY <1>1 DEF Once
<1>4. ASSUME NEW k \in S, NEW n \in S, NEW i \in DOMAIN N[k], NEW j \in DOMAIN N[n], N[k][i] = N[n][j]
      PROVE  k = n /\ i = j
  <2>1. CASE k # l /\ n # l
    BY <1>1, <1>3, <1>4, <2>1
  <2>2. CASE k = l /\ n = l
    <3>1. i \in DOMAIN s /\ j \in DOMAIN s /\ s[i] = s[j]
      BY <1>1, <1>4, <2>2
    <3>2. m[i] = m[j]
      <4>1. CASE m[i] = 0 \/ m[j] = 0
        BY <1>0, <1>1, <1>2, <3>1, <4>1
      <4>2. CASE m[i] # 0 /\ m[j] # 0
        BY <1>0, <1>1, <1>3, <3>1, <4>2
      <4> QED
        BY <4>1, <4>2
    <3> QED
      BY <1>0, <2>2, <3>1, <3>2
  <2>3. CASE k = l /\ n # l
    BY <1>0, <1>1, <1>2, <1>3, <1>4, <2>3
  <2>4. CASE k # l /\ n = l
    BY <1>0, <1>1, <1>2, <1>3, <1>4, <2>4
  <2> QED
    BY <2>1, <2>2, <2>3, <2>4
<1>5. ASSUME NEW y
      PROVE  y \in Members(N) <=> y \in (Members(L) \ ToSet(L[l])) \cup ToSet(s)
  <2>1. y \in Members(N) <=> \E k \in S : \E i \in DOMAIN N[k] : y = N[k][i]
    BY <1>1, MemberIs
  <2>2. y \in Members(L) <=> \E k \in S : \E i \in DOMAIN L[k] : y = L[k][i]
    BY <1>1, MemberIs
  <2>3. y \in ToSet(s) <=> \E i \in DOMAIN s : y = s[i]
    BY DEF ToSet
  <2>4. y \in ToSet(L[l]) <=> \E i \in DOMAIN L[l] : y = L[l][i]
    BY DEF ToSet
  <2>5. ASSUME y \in Members(N) PROVE y \in (Members(L) \ ToSet(L[l])) \cup ToSet(s)
    <3>1. PICK k \in S : \E i \in DOMAIN N[k] : y = N[k][i]
      BY <2>1, <2>5
    <3>2. CASE k = l
      BY <1>0, <1>1, <2>3, <3>1, <3>2
    <3>3. CASE k # l
      BY <1>1, <1>3, <2>2, <2>4, <3>1, <3>3
    <3> QED
      BY <3>2, <3>3
  <2>6. ASSUME y \in (Members(L) \ ToSet(L[l])) \cup ToSet(s) PROVE y \in Members(N)
    <3>1. CASE y \in ToSet(s)
      BY <1>1, <2>1, <2>3, <3>1
    <3>2. CASE y \in Members(L) /\ y \notin ToSet(L[l])
      <4>1. PICK k \in S : \E i \in DOMAIN L[k] : y = L[k][i]
        BY <2>2, <3>2
      <4>2. k # l
        BY <2>4, <3>2, <4>1
      <4> QED
        BY <1>1, <2>1, <4>1, <4>2
    <3> QED
      BY <2>6, <3>1, <3>2
  <2> QED
    BY <2>5, <2>6
<1>6. Once(N)
  BY <1>1, <1>4 DEF Once
<1> QED
  BY <1>5, <1>6 DEF N, S

\* The list s has the new element x at place k.
LEMMA Shelved ==
  ASSUME NEW L \in [Places -> Seq(Int)], Once(L), NEW l \in Places, NEW x \in Int,
         x \notin Members(L), NEW k \in 1 .. Len(L[l]) + 1
  PROVE  LET N == [L EXCEPT ![l] = InsertAt(L[l], k, x)]
         IN  Once(N) /\ Members(N) = Members(L) \cup {x}
<1> DEFINE s == InsertAt(L[l], k, x)
           m == [i \in 1 .. Len(L[l]) + 1 |-> IF i < k THEN i ELSE IF i = k THEN 0 ELSE i - 1]
<1>0. L[l] \in Seq(Int) /\ Len(L[l]) \in Nat /\ DOMAIN L[l] = 1 .. Len(L[l])
  OBVIOUS
<1>1. /\ Len(s) = Len(L[l]) + 1 /\ s \in Seq(Int)
      /\ \A i \in 1 .. Len(L[l]) + 1 :
           s[i] = IF i < k THEN L[l][i] ELSE IF i = k THEN x ELSE L[l][i - 1]
  <2> HIDE DEF m
  <2> DEFINE q == L[l]
             u == SubSeq(q, 1, k - 1)
             v == SubSeq(q, k, Len(q))
  <2>1. s = u \o <<x>> \o v
    BY DEF InsertAt
  <2>2. q \in Seq(Int) /\ k \in 1 .. Len(q) + 1
    BY <1>0
  <2> HIDE DEF q, s
  <2>3. u \in Seq(Int) /\ v \in Seq(Int)
    BY <2>2, SubSeqType
  <2>4. Len(u) = k - 1 /\ Len(v) = Len(q) - k + 1
    BY <2>2
  <2>5. \A i \in 1 .. k - 1 : u[i] = q[i]
    BY <2>2
  <2>6. \A i \in 1 .. Len(q) - k + 1 : v[i] = q[k + i - 1]
    BY <2>2
  <2> HIDE DEF u, v
  <2> DEFINE w == u \o <<x>>
  <2>10. w \in Seq(Int) /\ Len(w) = k /\ w[k] = x /\ \A i \in 1 .. k - 1 : w[i] = u[i]
    <3> DEFINE y == <<x>>
    <3>1. y \in Seq(Int) /\ Len(y) = 1 /\ y[1] = x
      OBVIOUS
    <3> HIDE DEF y
    <3>2. w \in Seq(Int) /\ Len(w) = Len(u) + 1
      BY <2>3, <3>1
    <3>3. w[Len(u) + 1] = y[1] /\ \A i \in 1 .. Len(u) : w[i] = u[i]
      BY <2>3, <3>1
    <3> QED
      BY <2>2, <2>4, <3>1, <3>2, <3>3
  <2>11. s = w \o v
    BY <2>1
  <2> HIDE DEF w
  <2>7. s \in Seq(Int)
    BY <2>3, <2>10, <2>11
  <2>8. Len(s) = Len(q) + 1
    BY <2>2, <2>3, <2>4, <2>10, <2>11
  <2>9. ASSUME NEW i \in 1 .. Len(q) + 1
        PROVE  s[i] = IF i < k THEN q[i] ELSE IF i = k THEN x ELSE q[i - 1]
    <3>1. CASE i < k
      BY <2>2, <2>3, <2>4, <2>5, <2>10, <2>11, <3>1
    <3>2. CASE i = k
      BY <2>2, <2>3, <2>4, <2>10, <2>11, <3>2
    <3>3. CASE i > k
      <4>1. s[i] = v[i - k]
        <5>1. i \in Nat \ {0} /\ i > Len(w) /\ i <= Len(w) + Len(v) /\ i - Len(w) = i - k
          BY <2>2, <2>4, <2>10, <3>3
        <5>2. s[i] = v[i - Len(w)]
          BY <2>3, <2>10, <2>11, <5>1, SMTT(30)
        <5> QED
          BY <5>1, <5>2
      <4>2. v[i - k] = q[i - 1]
        <5>1. i - k \in 1 .. Len(q) - k + 1 /\ k + (i - k) - 1 = i - 1
          BY <2>2, <3>3
        <5> QED
          BY <2>6, <5>1
      <4> QED
        BY <3>3, <4>1, <4>2
    <3> QED
      BY <2>2, <3>1, <3>2, <3>3
  <2> QED
    BY <2>7, <2>8, <2>9 DEF q
<1> HIDE DEF s
<1>2. DOMAIN s = 1 .. Len(L[l]) + 1
  BY <1>1
<1>3. \A i, j \in DOMAIN s : m[i] = m[j] => i = j
  BY <1>0, <1>2
<1>4. \A i \in DOMAIN s : \/ m[i] = 0 /\ s[i] = x
                          \/ m[i] \in DOMAIN L[l] \ {0} /\ s[i] = L[l][m[i]]
  BY <1>0, <1>1, <1>2, SMTT(30)
<1> HIDE DEF m
<1>c. Comes(L[l], s, x, m)
  BY <1>3, <1>4 DEF Comes
<1>5. /\ Once([L EXCEPT ![l] = s])
      /\ Members([L EXCEPT ![l] = s]) = (Members(L) \ ToSet(L[l])) \cup ToSet(s)
  <2>1. \A t, y, f : y \notin Members(L) /\ Comes(L[l], t, y, f) =>
             /\ Once([L EXCEPT ![l] = t])
             /\ Members([L EXCEPT ![l] = t]) = (Members(L) \ ToSet(L[l])) \cup ToSet(t)
    BY Reshelved
  <2> QED
    BY <1>c, <2>1
<1>6. ToSet(s) = ToSet(L[l]) \cup {x}
  <2>1. ASSUME NEW i \in DOMAIN L[l] PROVE \E j \in DOMAIN s : s[j] = L[l][i]
    <3>1. CASE i < k
      <4>1. i \in DOMAIN s /\ s[i] = L[l][i]
        BY <1>0, <1>1, <1>2, <3>1
      <4> QED
        BY <4>1
    <3>2. CASE i >= k
      <4>1. i + 1 \in DOMAIN s /\ s[i + 1] = L[l][i]
        BY <1>0, <1>1, <1>2, <3>2
      <4> QED
        BY <4>1
    <3> QED
      BY <1>0, <3>1, <3>2
  <2>2. s[k] = x /\ k \in DOMAIN s
    BY <1>0, <1>1, <1>2
  <2>3. \A i \in DOMAIN s : s[i] = x \/ \E j \in DOMAIN L[l] : s[i] = L[l][j]
    BY <1>4
  <2> QED
    BY <2>1, <2>2, <2>3 DEF ToSet
<1>7. ToSet(L[l]) \subseteq Members(L)
  BY DEF Members
<1> QED
  BY <1>5, <1>6, <1>7 DEF s

\* What is left of a list after some have been taken from either end.
LEMMA Trimmed ==
  ASSUME NEW L \in [Places -> Seq(Int)], Once(L), NEW l \in Places,
         NEW from \in Nat \ {0}, NEW to \in Nat, to <= Len(L[l])
  PROVE  LET N == [L EXCEPT ![l] = SubSeq(L[l], from, to)]
         IN  /\ Once(N)
             /\ \A x : x \in Members(N)
                         <=> x \in Members(L) /\ \A i \in DOMAIN L[l] :
                               i < from \/ i > to => x # L[l][i]
<1> DEFINE s == SubSeq(L[l], from, to)
           m == [i \in Nat |-> from + i - 1]
<1>0. L[l] \in Seq(Int) /\ Len(L[l]) \in Nat /\ DOMAIN L[l] = 1 .. Len(L[l])
  OBVIOUS
<1>1. PICK none : none \notin Members(L)
  BY NoSetContainsEverything
<1>2. \A i \in DOMAIN s : i \in Nat \ {0} /\ from + i - 1 \in from .. to /\ s[i] = L[l][from + i - 1]
  BY <1>0
<1>8. \A j \in from .. to : j \in DOMAIN L[l]
  BY <1>0
<1>3. \A j \in from .. to : j - from + 1 \in DOMAIN s
  BY <1>0
<1> HIDE DEF s
<1>4. \A i, j \in DOMAIN s : m[i] = m[j] => i = j
  BY <1>2, SMTT(30)
<1>5. \A i \in DOMAIN s : m[i] \in DOMAIN L[l] /\ s[i] = L[l][m[i]]
  BY <1>2, <1>8
<1> HIDE DEF m
<1>c. Comes(L[l], s, none, m)
  BY <1>0, <1>4, <1>5 DEF Comes
<1>6. /\ Once([L EXCEPT ![l] = s])
      /\ Members([L EXCEPT ![l] = s]) = (Members(L) \ ToSet(L[l])) \cup ToSet(s)
  <2>1. \A t, y, f : y \notin Members(L) /\ Comes(L[l], t, y, f) =>
             /\ Once([L EXCEPT ![l] = t])
             /\ Members([L EXCEPT ![l] = t]) = (Members(L) \ ToSet(L[l])) \cup ToSet(t)
    BY Reshelved
  <2> QED
    BY <1>1, <1>c, <2>1
<1>7. ASSUME NEW x
      PROVE  x \in (Members(L) \ ToSet(L[l])) \cup ToSet(s)
               <=> x \in Members(L) /\ \A i \in DOMAIN L[l] : i < from \/ i > to => x # L[l][i]
  <2>1. x \in ToSet(L[l]) <=> \E i \in DOMAIN L[l] : x = L[l][i]
    BY DEF ToSet
  <2>2. x \in ToSet(s) <=> \E j \in from .. to : x = L[l][j]
    <3>1. \A j \in from .. to : L[l][j] = s[j - from + 1]
      BY <1>2, <1>3
    <3> QED
      BY <1>2, <1>3, <3>1, ZenonT(40) DEF ToSet
  <2>3. \A i, j \in DOMAIN L[l] : L[l][i] = L[l][j] => i = j
    BY DEF Once
  <2>4. x \in ToSet(L[l]) => x \in Members(L)
    BY DEF Members
  <2>5. \A i \in DOMAIN L[l] : (i < from \/ i > to) <=> i \notin from .. to
    BY <1>0
  <2>6. CASE x \in ToSet(L[l])
    <3>1. PICK i \in DOMAIN L[l] : x = L[l][i]
      BY <2>1, <2>6
    <3>2. x \in ToSet(s) <=> i \in from .. to
      BY <1>8, <2>2, <2>3, <3>1
    <3>3. (\A j \in DOMAIN L[l] : j < from \/ j > to => x # L[l][j]) <=> i \in from .. to
      BY <2>3, <2>5, <3>1
    <3> QED
      BY <2>4, <2>6, <3>2, <3>3
  <2>7. CASE x \notin ToSet(L[l])
    BY <1>8, <2>1, <2>2, <2>7
  <2> QED
    BY <2>6, <2>7
<1> QED
  BY <1>6, <1>7 DEF s

\* A list without the element at place k.
LEMMA Unshelved ==
  ASSUME NEW L \in [Places -> Seq(Int)], Once(L), NEW l \in Places, NEW k \in DOMAIN L[l]
  PROVE  LET N == [L EXCEPT ![l] = RemoveAt(L[l], k)]
         IN  Once(N) /\ Members(N) = Members(L) \ {L[l][k]}
<1> DEFINE s == RemoveAt(L[l], k)
           m == [i \in Nat |-> IF i < k THEN i ELSE i + 1]
           n == Len(L[l])
<1>0. L[l] \in Seq(Int) /\ n \in Nat /\ DOMAIN L[l] = 1 .. n /\ k \in 1 .. n
  OBVIOUS
<1>1. PICK none : none \notin Members(L)
  BY NoSetContainsEverything
<1>2. /\ Len(s) = n - 1 /\ s \in Seq(Int)
      /\ \A i \in 1 .. n - 1 : s[i] = IF i < k THEN L[l][i] ELSE L[l][i + 1]
  <2> HIDE DEF m
  <2> DEFINE q == L[l]
             u == SubSeq(q, 1, k - 1)
             v == SubSeq(q, k + 1, Len(q))
  <2>1. s = u \o v
    BY DEF RemoveAt
  <2>2. q \in Seq(Int) /\ k \in 1 .. Len(q) /\ n = Len(q) /\ k \in Nat \ {0} /\ n \in Nat
    BY <1>0
  <2> HIDE DEF q, s, n
  <2>3. u \in Seq(Int) /\ v \in Seq(Int)
    BY <2>2, SubSeqType
  <2>4. Len(u) = k - 1 /\ Len(v) = n - k
    BY <2>2
  <2>5. \A i \in 1 .. k - 1 : u[i] = q[i]
    BY <2>2
  <2>6. \A i \in 1 .. n - k : v[i] = q[k + i]
    BY <2>2
  <2> HIDE DEF u, v
  <2>7. s \in Seq(Int)
    BY <2>1, <2>3
  <2>8. Len(s) = n - 1
    <3>1. Len(s) = Len(u) + Len(v)
      BY <2>1, <2>3
    <3> QED
      BY <2>2, <2>4, <3>1
  <2>9. ASSUME NEW i \in 1 .. n - 1
        PROVE  s[i] = IF i < k THEN q[i] ELSE q[i + 1]
    <3>1. CASE i < k
      BY <2>1, <2>2, <2>3, <2>4, <2>5, <3>1
    <3>3. CASE i >= k
      <4>1. s[i] = v[i - k + 1]
        <5>1. i \in Nat \ {0} /\ i > Len(u) /\ i <= Len(u) + Len(v) /\ i - Len(u) = i - k + 1
          BY <2>2, <2>4, <3>3
        <5>2. s[i] = v[i - Len(u)]
          BY <2>1, <2>3, <5>1
        <5> QED
          BY <5>1, <5>2
      <4>2. v[i - k + 1] = q[i + 1]
        BY <2>2, <2>6, <3>3
      <4> QED
        BY <2>2, <3>3, <4>1, <4>2
    <3> QED
      BY <2>2, <3>1, <3>3
  <2> QED
    BY <2>7, <2>8, <2>9 DEF q
<1> HIDE DEF s, n
<1>3. DOMAIN s = 1 .. n - 1
  BY <1>2
<1>4. \A i, j \in DOMAIN s : m[i] = m[j] => i = j
  <2> SUFFICES ASSUME NEW i \in DOMAIN s, NEW j \in DOMAIN s, m[i] = m[j] PROVE i = j
    OBVIOUS
  <2>1. i \in Nat /\ j \in Nat
    BY <1>0, <1>3
  <2> QED
    BY <1>0, <2>1
<1>5. \A i \in DOMAIN s : m[i] \in DOMAIN L[l] /\ s[i] = L[l][m[i]]
  <2> SUFFICES ASSUME NEW i \in DOMAIN s PROVE m[i] \in DOMAIN L[l] /\ s[i] = L[l][m[i]]
    OBVIOUS
  <2>1. i \in 1 .. n - 1 /\ i \in Nat
    BY <1>0, <1>3
  <2>2. m[i] = IF i < k THEN i ELSE i + 1
    BY <2>1
  <2>3. m[i] \in DOMAIN L[l]
    BY <1>0, <2>1, <2>2
  <2> HIDE DEF m
  <2> QED
    BY <1>2, <2>1, <2>2, <2>3
<1> HIDE DEF m
<1>c. Comes(L[l], s, none, m)
  BY <1>0, <1>4, <1>5 DEF Comes
<1>6. /\ Once([L EXCEPT ![l] = s])
      /\ Members([L EXCEPT ![l] = s]) = (Members(L) \ ToSet(L[l])) \cup ToSet(s)
  <2>1. \A t, y, f : y \notin Members(L) /\ Comes(L[l], t, y, f) =>
             /\ Once([L EXCEPT ![l] = t])
             /\ Members([L EXCEPT ![l] = t]) = (Members(L) \ ToSet(L[l])) \cup ToSet(t)
    BY Reshelved
  <2> QED
    BY <1>1, <1>c, <2>1
<1>7. ToSet(s) = ToSet(L[l]) \ {L[l][k]}
  <2>1. \A i, j \in DOMAIN L[l] : L[l][i] = L[l][j] => i = j
    BY DEF Once
  <2>2. ASSUME NEW i \in DOMAIN L[l], i # k PROVE \E j \in DOMAIN s : s[j] = L[l][i]
    <3>1. CASE i < k
      <4>1. i \in DOMAIN s /\ s[i] = L[l][i]
        BY <1>0, <1>2, <1>3, <3>1
      <4> QED
        BY <4>1
    <3>2. CASE i > k
      <4>1. i - 1 \in DOMAIN s /\ s[i - 1] = L[l][i]
        BY <1>0, <1>2, <1>3, <3>2
      <4> QED
        BY <4>1
    <3> QED
      BY <1>0, <2>2, <3>1, <3>2
  <2>3. \A j \in DOMAIN s : \E i \in DOMAIN L[l] : i # k /\ s[j] = L[l][i]
    <3> SUFFICES ASSUME NEW j \in DOMAIN s
                 PROVE  \E i \in DOMAIN L[l] : i # k /\ s[j] = L[l][i]
      OBVIOUS
    <3>1. CASE j < k
      BY <1>0, <1>2, <1>3, <3>1
    <3>2. CASE j >= k
      <4>1. j + 1 \in DOMAIN L[l] /\ j + 1 # k /\ s[j] = L[l][j + 1]
        BY <1>0, <1>2, <1>3, <3>2
      <4> QED
        BY <4>1
    <3> QED
      BY <1>0, <1>3, <3>1, <3>2
  <2> QED
    BY <2>1, <2>2, <2>3 DEF ToSet
<1>8. ToSet(L[l]) \subseteq Members(L) /\ L[l][k] \in ToSet(L[l])
  BY DEF Members, ToSet
<1> QED
  BY <1>6, <1>7, <1>8 DEF s

LEMMA OnOneList ==
  ASSUME NEW L, Once(L), NEW l \in DOMAIN L, NEW m \in DOMAIN L, NEW y,
         y \in ToSet(L[l]), y \in ToSet(L[m])
  PROVE  l = m
<1>1. PICK i \in DOMAIN L[l] : y = L[l][i]
  BY DEF ToSet
<1>2. PICK j \in DOMAIN L[m] : y = L[m][j]
  BY DEF ToSet
<1> QED
  BY <1>1, <1>2 DEF Once

-----------------------------------------------------------------------------
(* Lists one behind the other *)

Distinct(s) == \A i, j \in DOMAIN s : s[i] = s[j] => i = j

LEMMA Joined ==
  ASSUME NEW T, NEW s \in Seq(T), NEW t \in Seq(T)
  PROVE  /\ s \o t \in Seq(T) /\ Len(s \o t) = Len(s) + Len(t)
         /\ \A x : x \in ToSet(s \o t) <=> x \in ToSet(s) \/ x \in ToSet(t)
         /\ Distinct(s) /\ Distinct(t) /\ (\A x \in ToSet(s) : x \notin ToSet(t)) => Distinct(s \o t)
<1> DEFINE u == s \o t
           m == Len(s)
           n == Len(t)
<1>1. /\ u \in Seq(T) /\ Len(u) = m + n /\ m \in Nat /\ n \in Nat
      /\ DOMAIN u = 1 .. m + n /\ DOMAIN s = 1 .. m /\ DOMAIN t = 1 .. n
  OBVIOUS
<1>2. /\ \A i \in 1 .. m : u[i] = s[i]
      /\ \A i \in 1 .. m + n : i > m => u[i] = t[i - m]
  OBVIOUS
<1>3. \A i \in 1 .. n : u[m + i] = t[i]
  <2> TAKE i \in 1 .. n
  <2>1. m + i \in 1 .. m + n /\ m + i > m /\ (m + i) - m = i
    BY <1>1
  <2> HIDE DEF u
  <2> QED
    BY <1>2, <2>1
<1> HIDE DEF u, m, n
<1>4. ASSUME NEW x PROVE x \in ToSet(u) <=> x \in ToSet(s) \/ x \in ToSet(t)
  <2>1. ASSUME x \in ToSet(u) PROVE x \in ToSet(s) \/ x \in ToSet(t)
    <3>1. PICK i \in 1 .. m + n : x = u[i]
      BY <1>1, <2>1 DEF ToSet
    <3>2. CASE i <= m
      <4>1. i \in DOMAIN s /\ x = s[i]
        BY <1>1, <1>2, <3>1, <3>2
      <4> QED
        BY <4>1 DEF ToSet
    <3>3. CASE i > m
      <4>1. i - m \in DOMAIN t /\ x = t[i - m]
        BY <1>1, <1>2, <3>1, <3>3
      <4> QED
        BY <4>1 DEF ToSet
    <3> QED
      BY <1>1, <3>2, <3>3
  <2>2. ASSUME x \in ToSet(s) PROVE x \in ToSet(u)
    <3>1. PICK i \in DOMAIN s : x = s[i]
      BY <2>2 DEF ToSet
    <3>2. i \in DOMAIN u /\ x = u[i]
      BY <1>1, <1>2, <3>1
    <3> QED
      BY <3>2 DEF ToSet
  <2>3. ASSUME x \in ToSet(t) PROVE x \in ToSet(u)
    <3>1. PICK i \in DOMAIN t : x = t[i]
      BY <2>3 DEF ToSet
    <3>2. m + i \in DOMAIN u /\ x = u[m + i]
      BY <1>1, <1>3, <3>1
    <3> QED
      BY <3>2 DEF ToSet
  <2> QED
    BY <2>1, <2>2, <2>3
<1>5. ASSUME Distinct(s), Distinct(t), \A x \in ToSet(s) : x \notin ToSet(t)
      PROVE  Distinct(u)
  <2> SUFFICES ASSUME NEW i \in 1 .. m + n, NEW j \in 1 .. m + n, u[i] = u[j] PROVE i = j
    BY <1>1 DEF Distinct
  <2>1. ASSUME NEW k \in 1 .. m + n, NEW l \in 1 .. m + n, k <= m, ~(l <= m), u[k] = u[l] PROVE FALSE
    <3>1. k \in DOMAIN s /\ u[k] = s[k] /\ l - m \in DOMAIN t /\ u[l] = t[l - m]
      BY <1>1, <1>2, <2>1
    <3>2. u[k] \in ToSet(s) /\ u[l] \in ToSet(t)
      BY <3>1 DEF ToSet
    <3> QED
      BY <1>5, <2>1, <3>2
  <2>2. CASE i <= m /\ j <= m
    <3>1. i \in DOMAIN s /\ j \in DOMAIN s /\ s[i] = s[j]
      BY <1>1, <1>2, <2>2
    <3> QED
      BY <1>5, <3>1 DEF Distinct
  <2>3. CASE ~(i <= m) /\ ~(j <= m)
    <3>1. i - m \in DOMAIN t /\ j - m \in DOMAIN t /\ t[i - m] = t[j - m]
      BY <1>1, <1>2, <2>3
    <3>2. i - m = j - m
      BY <1>5, <3>1 DEF Distinct
    <3> QED
      BY <1>1, <3>2
  <2> QED
    BY <2>1, <2>2, <2>3
<1> QED
  BY <1>1, <1>4, <1>5 DEF u, m, n

\* What stands on the lists q, once, stands once on the one they make.
LEMMA Flattened ==
  ASSUME NEW T, NEW n \in Nat \ {0}, NEW q \in [1 .. n -> Seq(T)]
  PROVE  /\ FlattenSeq(q) \in Seq(T)
         /\ \A x : x \in ToSet(FlattenSeq(q)) <=> \E i \in 1 .. n : x \in ToSet(q[i])
         /\ Once(q) => Distinct(FlattenSeq(q))
<1> DEFINE Flat(m, f) == \A i \in 1 .. m : f[i] = IF i = 1 THEN q[i] ELSE f[i - 1] \o q[i]
           Some(m) == \E f \in [1 .. m -> Seq(T)] : Flat(m, f)
           S == {m \in Nat : m <= n => Some(m)}
<1>1. 0 \in S
  <2> DEFINE f == [i \in 1 .. 0 |-> q[i]]
  <2>1. f \in [1 .. 0 -> Seq(T)] /\ Flat(0, f)
    OBVIOUS
  <2>2. Some(0)
    BY <2>1
  <2> HIDE DEF Some
  <2> QED
    BY <2>2
<1>2. ASSUME NEW m \in Nat, m \in S
      PROVE  m + 1 \in S
  <2> SUFFICES ASSUME m + 1 <= n
               PROVE  Some(m + 1)
    <3> HIDE DEF Some
    <3> QED
      OBVIOUS
  <2>1. Some(m)
    <3> HIDE DEF Some
    <3> QED
      BY <1>2
  <2>2. PICK f \in [1 .. m -> Seq(T)] : Flat(m, f)
    BY <2>1, Zenon
  <2> DEFINE g == [i \in 1 .. m + 1 |->
                     IF i <= m THEN f[i] ELSE IF m = 0 THEN q[1] ELSE f[m] \o q[m + 1]]
  <2>3. g \in [1 .. m + 1 -> Seq(T)]
    <3>1. q[m + 1] \in Seq(T) /\ q[1] \in Seq(T)
      OBVIOUS
    <3>2. m # 0 => f[m] \o q[m + 1] \in Seq(T)
      BY <3>1
    <3> QED
      BY <3>1, <3>2
  <2>4. Flat(m + 1, g)
    <3> SUFFICES ASSUME NEW i \in 1 .. m + 1
                 PROVE  g[i] = IF i = 1 THEN q[i] ELSE g[i - 1] \o q[i]
      OBVIOUS
    <3>1. CASE i <= m
      <4>1. f[i] = IF i = 1 THEN q[i] ELSE f[i - 1] \o q[i]
        <5>1. i \in 1 .. m
          BY <3>1
        <5> HIDE DEF g, Some, S
        <5> QED
          BY <2>2, <5>1
      <4>2. g[i] = f[i] /\ (i # 1 => g[i - 1] = f[i - 1])
        BY <3>1
      <4> QED
        BY <4>1, <4>2
    <3>2. CASE i = m + 1
      BY <3>2
    <3> QED
      BY <3>1, <3>2
  <2> HIDE DEF g
  <2> QED
    BY <2>3, <2>4
<1>3. Some(n)
  <2> HIDE DEF Some
  <2>1. Nat \subseteq S
    <3> HIDE DEF S
    <3> QED
      BY <1>1, <1>2, SetInduction
  <2> QED
    BY <2>1
<1>4. PICK f \in [1 .. n -> Seq(T)] : Flat(n, f)
  BY <1>3, Zenon
<1> DEFINE Eqn(g) == g = [i \in 1 .. n |-> IF i = 1 THEN q[i] ELSE g[i - 1] \o q[i]]
           flatten == CHOOSE g : Eqn(g)
<1>5. Eqn(f)
  <2>1. f = [i \in 1 .. n |-> f[i]]
    OBVIOUS
  <2> QED
    BY <1>4, <2>1
<1>6. Eqn(flatten)
  <2> HIDE DEF Eqn
  <2> QED
    BY <1>5
<1> HIDE DEF flatten
<1>10. \A i \in 1 .. n : flatten[i] = IF i = 1 THEN q[i] ELSE flatten[i - 1] \o q[i]
  BY <1>6
<1>7. flatten \in [1 .. n -> Seq(T)]
  <2> DEFINE R == {m \in Nat : m + 1 <= n => flatten[m + 1] \in Seq(T)}
  <2>1. 0 \in R
    BY <1>6
  <2>2. ASSUME NEW m \in Nat, m \in R
        PROVE  m + 1 \in R
    <3> SUFFICES ASSUME m + 2 <= n
                 PROVE  flatten[m + 2] \in Seq(T)
      OBVIOUS
    <3>1. flatten[m + 1] \in Seq(T) /\ q[m + 2] \in Seq(T)
      BY <2>2
    <3>2. flatten[m + 2] = flatten[m + 1] \o q[m + 2]
      <4>1. \A i \in 1 .. n : flatten[i] = IF i = 1 THEN q[i] ELSE flatten[i - 1] \o q[i]
        BY <1>6
      <4>2. m + 2 \in 1 .. n /\ m + 2 # 1 /\ (m + 2) - 1 = m + 1
        OBVIOUS
      <4> HIDE DEF Eqn
      <4> QED
        BY <4>1, <4>2
    <3> QED
      BY <3>1, <3>2
  <2>3. Nat \subseteq R
    <3> HIDE DEF R
    <3> QED
      BY <2>1, <2>2, SetInduction
  <2>4. ASSUME NEW i \in 1 .. n PROVE flatten[i] \in Seq(T)
    <3>1. i - 1 \in Nat /\ (i - 1) + 1 = i /\ i <= n
      OBVIOUS
    <3>2. i - 1 \in R
      <4> HIDE DEF R
      <4> QED
        BY <2>3, <3>1
    <3>3. (i - 1) + 1 <= n => flatten[(i - 1) + 1] \in Seq(T)
      BY <3>2
    <3> QED
      BY <3>1, <3>3
  <2>5. flatten = [i \in 1 .. n |-> flatten[i]]
    BY <1>6
  <2> QED
    BY <2>4, <2>5
<1>8. Len(q) = n /\ n # 0
  OBVIOUS
<1>9. FlattenSeq(q) = flatten[n]
  BY <1>8 DEF FlattenSeq, flatten
<1>11. flatten[1] = q[1] /\ \A m \in 1 .. n - 1 : flatten[m + 1] = flatten[m] \o q[m + 1]
  <2>1. flatten[1] = q[1]
    BY <1>10
  <2>2. ASSUME NEW m \in 1 .. n - 1 PROVE flatten[m + 1] = flatten[m] \o q[m + 1]
    <3>1. m + 1 \in 1 .. n /\ m + 1 # 1 /\ (m + 1) - 1 = m
      OBVIOUS
    <3> HIDE DEF Eqn
    <3> QED
      BY <1>10, <3>1
  <2> QED
    BY <2>1, <2>2
<1>12. DOMAIN q = 1 .. n /\ \A i \in 1 .. n : q[i] \in Seq(T)
  OBVIOUS
<1> HIDE DEF Eqn, S, Some, Flat
<1> DEFINE Has(m) == \A x : x \in ToSet(flatten[m]) <=> \E i \in 1 .. m : x \in ToSet(q[i])
           Dist(m) == Once(q) => Distinct(flatten[m])
           R == {m \in Nat : m + 1 <= n => Has(m + 1) /\ Dist(m + 1)}
<1>13. 0 \in R
  <2>1. Has(0 + 1)
    <3>1. 1 .. (0 + 1) = {1} /\ 0 + 1 = 1
      OBVIOUS
    <3> QED
      BY <1>11, <3>1
  <2>2. Dist(0 + 1)
    <3>1. flatten[0 + 1] = q[1] /\ 1 \in DOMAIN q
      BY <1>11, <1>12
    <3> QED
      BY <3>1 DEF Once, Distinct
  <2> HIDE DEF Has, Dist
  <2> QED
    BY <2>1, <2>2
<1>14. ASSUME NEW m \in Nat, m \in R
      PROVE  m + 1 \in R
  <2> DEFINE k == m + 1
  <2> SUFFICES ASSUME k + 1 <= n PROVE Has(k + 1) /\ Dist(k + 1)
    OBVIOUS
  <2>1. Has(k) /\ Dist(k) /\ k \in 1 .. n - 1 /\ k \in 1 .. n /\ k + 1 \in 1 .. n
    <3> HIDE DEF Has, Dist
    <3> QED
      BY <1>14
  <2> HIDE DEF k
  <2>2. flatten[k] \in Seq(T) /\ q[k + 1] \in Seq(T) /\ flatten[k + 1] = flatten[k] \o q[k + 1]
    BY <1>7, <1>11, <1>12, <2>1
  <2>3. \A x : x \in ToSet(flatten[k + 1]) <=> x \in ToSet(flatten[k]) \/ x \in ToSet(q[k + 1])
    BY <2>2, Joined
  <2>4. Has(k + 1)
    <3>1. \A i : i \in 1 .. k + 1 <=> i \in 1 .. k \/ i = k + 1
      BY <2>1
    <3> QED
      BY <2>1, <2>3, <3>1
  <2>5. Dist(k + 1)
    <3> SUFFICES ASSUME Once(q) PROVE Distinct(flatten[k + 1])
      OBVIOUS
    <3>1. Distinct(flatten[k])
      BY <2>1
    <3>2. Distinct(q[k + 1])
      BY <1>12, <2>1 DEF Once, Distinct
    <3>3. ASSUME NEW x \in ToSet(flatten[k]), x \in ToSet(q[k + 1]) PROVE FALSE
      <4>1. PICK i \in 1 .. k : x \in ToSet(q[i])
        BY <2>1
      <4>2. i \in DOMAIN q /\ k + 1 \in DOMAIN q /\ i # k + 1
        BY <1>12, <2>1
      <4> QED
        BY <3>3, <4>1, <4>2, OnOneList
    <3> QED
      BY <2>2, <3>1, <3>2, <3>3, Joined
  <2> QED
    BY <2>4, <2>5
<1>15. n - 1 \in R /\ (n - 1) + 1 = n
  <2> HIDE DEF R
  <2>1. Nat \subseteq R
    BY <1>13, <1>14, SetInduction
  <2> QED
    BY <2>1
<1>16. Has(n) /\ Dist(n)
  <2> HIDE DEF Has, Dist
  <2>1. Has((n - 1) + 1) /\ Dist((n - 1) + 1)
    BY <1>15
  <2> QED
    BY <1>15, <2>1
<1> QED
  BY <1>7, <1>9, <1>16
=============================================================================
