------------------------- MODULE MemAllocatorProofs -------------------------
(***************************************************************************)
(* Proofs about MemAllocator for every layout, memory size and client that *)
(* its assumptions allow.  The state of the heap is summed up by the       *)
(* predicates WellFormed and Covers of the headers and the mapped bytes:   *)
(* the first parts show that a merge, a split, a new region and a munmap   *)
(* keep them, and that every action does.                                  *)
(*                                                                         *)
(* The later parts are about the list of blocks.  LinkInv: links lead to   *)
(* blocks as long as heap_init got HEAP_START and every munmap succeeded.  *)
(* ListInv: then the list also reaches every block, so that none is lost   *)
(* and heap_term visits all.  FreeInv: in every heap, what the searches    *)
(* have gone through is intact, so that _free reads headers only.          *)
(* SearchInv: the search is first fit.  The last part walks the list as    *)
(* MCMemAllocator does.                                                    *)
(***************************************************************************)
EXTENDS MCMemAllocator, Induction, TLAPS

USE DEF NULL

-----------------------------------------------------------------------------
(* Sizes *)

\* A number that fits a size_t is not changed by storing it in one.
LEMMA WrapIdentity ==
  ASSUME NEW n \in 0 .. SIZE_MOD - 1
  PROVE  Wrap(n) = n
  BY SpaceAssumption, SMTT(20) DEF Wrap

\* Whatever is stored in a size_t fits.
LEMMA WrapRange ==
  ASSUME NEW n \in Int
  PROVE  Wrap(n) \in 0 .. SIZE_MOD - 1
<1>1. SIZE_MOD \in Nat \ {0}
  BY SpaceAssumption, LayoutAssumption
<1> QED
  BY <1>1, SMTT(20) DEF Wrap

\* Sums and differences of whole pages are whole pages.
LEMMA WholePages ==
  /\ 0 % PAGE = 0
  /\ \A x, y \in Nat : x % PAGE = 0 /\ y % PAGE = 0
                      => (x + y) % PAGE = 0 /\ (y - x) % PAGE = 0
<1>1. PAGE \in Nat \ {0}
  BY LayoutAssumption
<1>2. ASSUME NEW x \in Nat, NEW y \in Nat, x % PAGE = 0, y % PAGE = 0
      PROVE  (x + y) % PAGE = 0 /\ (y - x) % PAGE = 0
  <2> DEFINE i == x \div PAGE
             j == y \div PAGE
  <2>1. i \in Nat /\ j \in Nat /\ x = PAGE * i /\ y = PAGE * j
    BY <1>1, <1>2, SMTT(20)
  <2> HIDE DEF i, j
  <2>2. x + y = PAGE * (i + j) /\ y - x = PAGE * (j - i)
    BY <1>1, <2>1, SMTT(20)
  <2>3. \A k \in Int : (PAGE * k) % PAGE = 0
    BY <1>1, SMTT(20)
  <2> QED
    BY <2>1, <2>2, <2>3
<1> QED
  BY <1>1, <1>2, SMTT(20)

\* pages_count rounds up.
LEMMA PagesCount ==
  ASSUME NEW n \in Nat
  PROVE  /\ pages_count(n) \in Nat
         /\ PAGE * pages_count(n) >= n
         /\ PAGE * pages_count(n) < n + PAGE
<1>1. n = PAGE * (n \div PAGE) + (n % PAGE) /\ n % PAGE \in 0 .. PAGE - 1
      /\ n \div PAGE \in Nat
  BY LayoutAssumption, SMTT(20)
<1> DEFINE d == n \div PAGE
           r == n % PAGE
<1>2. PAGE \in Nat \ {0} /\ d \in Nat /\ r \in 0 .. PAGE - 1 /\ n = PAGE * d + r
  BY <1>1, LayoutAssumption
<1>3. pages_count(n) = d + (IF r # 0 THEN 1 ELSE 0)
  BY DEF pages_count
<1> HIDE DEF d, r
<1>4. PAGE * d \in Nat /\ PAGE * (d + 1) = PAGE * d + PAGE
  BY <1>2, SMTT(20)
<1>5. CASE r = 0
  BY <1>2, <1>3, <1>4, <1>5
<1>6. CASE r # 0
  BY <1>2, <1>3, <1>4, <1>6
<1> QED
  BY <1>5, <1>6

\* round_pages gives whole pages, and is short of its argument only when the
\* next page boundary is SIZE_MOD itself.
LEMMA RoundPages ==
  ASSUME NEW n \in 0 .. SIZE_MOD - 1
  PROVE  /\ round_pages(n) \in 0 .. SIZE_MOD - 1
         /\ round_pages(n) % PAGE = 0
         /\ n + PAGE <= SIZE_MOD => round_pages(n) >= n
<1> DEFINE k == pages_count(n)
           s == SIZE_MOD \div PAGE
<1>1. /\ k \in Nat
      /\ PAGE * k >= n
      /\ PAGE * k < n + PAGE
  BY PagesCount, SpaceAssumption
<1>2. PAGE \in Nat \ {0} /\ SIZE_MOD \in Nat \ {0} /\ n \in Nat /\ n < SIZE_MOD
  BY SpaceAssumption, LayoutAssumption
<1>3. SIZE_MOD = PAGE * s /\ s \in Nat
  BY <1>2, SpaceAssumption, SMTT(20)
<1> HIDE DEF k, s
<1>4. PAGE * k < PAGE * (s + 1)
  BY <1>1, <1>2, <1>3, SMTT(20)
<1>5. k <= s
  BY <1>1, <1>2, <1>3, <1>4, SMTT(20)
<1>6. round_pages(n) = Wrap(PAGE * k)
  BY DEF round_pages, k
<1>7. CASE k = s
  <2>1. round_pages(n) = 0
    BY <1>2, <1>3, <1>6, <1>7, SMTT(20) DEF Wrap
  <2>2. ~(n + PAGE <= SIZE_MOD)
    BY <1>1, <1>2, <1>3, <1>7, SMTT(20)
  <2> QED
    BY <1>2, <2>1, <2>2, SMTT(20)
<1>8. CASE k < s
  <2>1. PAGE * k \in 0 .. SIZE_MOD - 1
    <3>1. PAGE * (s - k) >= PAGE
      BY <1>1, <1>2, <1>3, <1>8, SMTT(20)
    <3>2. PAGE * (s - k) = PAGE * s - PAGE * k
      BY <1>1, <1>2, <1>3, SMTT(20)
    <3>3. PAGE * k \in Nat
      BY <1>1, <1>2, SMTT(20)
    <3> QED
      BY <1>2, <1>3, <3>1, <3>2, <3>3, SMTT(20)
  <2>2. round_pages(n) = PAGE * k
    BY <1>6, <2>1, WrapIdentity
  <2>3. (PAGE * k) % PAGE = 0
    BY <1>1, <1>2, SMTT(20)
  <2> QED
    BY <1>1, <2>1, <2>2, <2>3
<1> QED
  BY <1>1, <1>3, <1>5, <1>7, <1>8, SMTT(20)

\* What alloc_region asks mmap for: whole pages with room for a header and a
\* minimal block, and for the query too unless its size wraps.
LEMMA RegionSize ==
  ASSUME NEW q \in 0 .. SIZE_MOD - 1
  PROVE  /\ region_size_for(q) \in 0 .. SIZE_MOD - 1
         /\ region_size_for(q) % PAGE = 0
         /\ region_size_for(q) >= HEADER + BLOCK_MIN_CAPACITY
         /\ q + HEADER + PAGE <= SIZE_MOD => region_size_for(q) >= q + HEADER
<1> DEFINE n == size_from_capacity(q)
<1>1. n \in 0 .. SIZE_MOD - 1
  BY WrapRange, LayoutAssumption, SpaceAssumption DEF size_from_capacity
<1>2. q + HEADER + PAGE <= SIZE_MOD => n = q + HEADER
  BY WrapIdentity, LayoutAssumption, SpaceAssumption DEF size_from_capacity
<1> HIDE DEF n
<1>3. /\ round_pages(n) \in 0 .. SIZE_MOD - 1
      /\ round_pages(n) % PAGE = 0
      /\ n + PAGE <= SIZE_MOD => round_pages(n) >= n
  BY <1>1, RoundPages
<1>4. region_size_for(q) = IF round_pages(n) >= REGION_MIN_SIZE
                           THEN round_pages(n) ELSE REGION_MIN_SIZE
  BY DEF region_size_for, region_actual_size, n
<1> QED
  BY <1>1, <1>2, <1>3, <1>4, LayoutAssumption, SpaceAssumption, SMTT(20)

-----------------------------------------------------------------------------
(* The heap *)

\* Blocks that lie in the address space, are not too small, do not overlap, and
\* leave the list's order of addresses only at page boundaries.
WellFormed(h) ==
  /\ DOMAIN h \subseteq Addr
  /\ h \in [DOMAIN h -> Header]
  /\ \A b \in DOMAIN h : /\ block_end(h, b) <= MemSize
                         /\ h[b].capacity >= BLOCK_MIN_CAPACITY
                         /\ h[b].next # block_end(h, b)
                              => block_end(h, b) % PAGE = 0 /\ h[b].next % PAGE = 0
  /\ \A a, b \in DOMAIN h : a < b => block_end(h, a) <= b

\* The blocks with their headers are the bytes in m.
Covers(h, m) ==
  \A x \in Addr : x \in m <=> \E b \in DOMAIN h : b <= x /\ x < block_end(h, b)

\* The fields of a header and the end of its block are numbers.
LEMMA BlockFacts ==
  ASSUME NEW h, WellFormed(h), NEW b \in DOMAIN h
  PROVE  /\ b \in Nat \ {0}
         /\ h[b].capacity \in Nat
         /\ h[b].next \in Nat
         /\ h[b].is_free \in BOOLEAN
         /\ block_end(h, b) \in Nat
         /\ block_end(h, b) = b + HEADER + h[b].capacity
         /\ b + HEADER < block_end(h, b)
         /\ h[b] = [next |-> h[b].next, capacity |-> h[b].capacity,
                    is_free |-> h[b].is_free]
<1>1. b \in Addr /\ h[b] \in Header
  BY DEF WellFormed
<1>2. h[b].capacity >= BLOCK_MIN_CAPACITY
  BY DEF WellFormed
<1> QED
  BY <1>1, <1>2, LayoutAssumption, SpaceAssumption
  DEF Header, Addr, block_end

\* A merge: the block takes the bytes and the link of the next one.
LEMMA MergeKeeps ==
  ASSUME NEW h, WellFormed(h), NEW b \in DOMAIN h,
         mergeable(h, b), h[b].next \in DOMAIN h
  PROVE  /\ WellFormed(Merge(h, b))
         /\ \A m : Covers(h, m) => Covers(Merge(h, b), m)
         /\ DOMAIN Merge(h, b) = DOMAIN h \ {h[b].next}
         /\ b \in DOMAIN Merge(h, b)
         /\ Merge(h, b)[b].is_free
         /\ Merge(h, b)[b].next = h[h[b].next].next
         /\ Merge(h, b)[b].capacity >= h[b].capacity
         /\ Merge(h, b)[b].capacity >= h[h[b].next].capacity
         /\ \A a \in DOMAIN h \ {b, h[b].next} : Merge(h, b)[a] = h[a]
<1> DEFINE s == h[b].next
           g == Merge(h, b)
           c == h[b].capacity + HEADER + h[s].capacity
<1>1. /\ s \in DOMAIN h
      /\ s = block_end(h, b)
      /\ h[b].is_free
      /\ b < s
  BY BlockFacts, LayoutAssumption DEF mergeable
<1>2. /\ b \in Nat /\ s \in Nat
      /\ h[b].capacity \in Nat /\ h[s].capacity \in Nat
      /\ block_end(h, s) = s + HEADER + h[s].capacity
      /\ s = b + HEADER + h[b].capacity
      /\ block_end(h, s) <= MemSize
  BY <1>1, BlockFacts DEF WellFormed
<1>3. c \in 0 .. SIZE_MOD - 1
  BY <1>2, LayoutAssumption, SpaceAssumption
<1>4. Wrap(h[b].capacity + size_from_capacity(h[s].capacity)) = c
  <2>1. size_from_capacity(h[s].capacity) = h[s].capacity + HEADER
    BY <1>2, <1>3, WrapIdentity, LayoutAssumption, SpaceAssumption
    DEF size_from_capacity
  <2> QED
    BY <1>2, <1>3, <2>1, WrapIdentity, LayoutAssumption
<1>5. /\ DOMAIN g = DOMAIN h \ {s}
      /\ g[b] = [next |-> h[s].next, capacity |-> c, is_free |-> h[b].is_free]
      /\ \A a \in DOMAIN h \ {b, s} : g[a] = h[a]
  <2>1. h[b] = [next |-> h[b].next, capacity |-> h[b].capacity,
                is_free |-> h[b].is_free]
    BY BlockFacts
  <2>2. g[b] = [h[b] EXCEPT
                  !.capacity = Wrap(@ + size_from_capacity(h[s].capacity)),
                  !.next = h[s].next]
    BY <1>1, <1>2 DEF Merge, MergeInto
  <2>3. DOMAIN g = DOMAIN h \ {s}
    BY DEF Merge, MergeInto
  <2>4. \A a \in DOMAIN h \ {b, s} : g[a] = h[a]
    BY DEF Merge, MergeInto
  <2>5. g[b] = [next |-> h[s].next, capacity |-> c, is_free |-> h[b].is_free]
    <3> HIDE DEF g, c
    <3> QED
      BY <1>4, <2>1, <2>2
  <2> QED
    BY <2>3, <2>4, <2>5
<1> HIDE DEF g, c
<1>6. block_end(g, b) = block_end(h, s)
  BY <1>2, <1>5, LayoutAssumption DEF block_end, c
<1>7. \A a \in DOMAIN h \ {b, s} : block_end(g, a) = block_end(h, a)
  BY <1>5 DEF block_end
<1>8. g[b] \in Header
  BY <1>1, <1>3, <1>5 DEF WellFormed, Header
<1>9. WellFormed(g)
  <2>1. DOMAIN g \subseteq Addr /\ g \in [DOMAIN g -> Header]
    <3>1. g = [a \in DOMAIN g |-> g[a]]
      BY DEF g, Merge, MergeInto
    <3> QED
      BY <1>5, <1>8, <3>1 DEF WellFormed
  <2>2. ASSUME NEW a \in DOMAIN g
        PROVE  /\ block_end(g, a) <= MemSize
               /\ g[a].capacity >= BLOCK_MIN_CAPACITY
               /\ g[a].next # block_end(g, a)
                    => block_end(g, a) % PAGE = 0 /\ g[a].next % PAGE = 0
    <3>1. CASE a = b
      BY <1>1, <1>2, <1>5, <1>6, <3>1, LayoutAssumption DEF WellFormed, c
    <3>2. CASE a # b
      BY <1>5, <1>7, <3>2 DEF WellFormed
    <3> QED
      BY <3>1, <3>2
  <2>3. ASSUME NEW x \in DOMAIN g, NEW y \in DOMAIN g, x < y
        PROVE  block_end(g, x) <= y
    <3>1. x \in DOMAIN h /\ y \in DOMAIN h /\ x # s /\ y # s
      BY <1>5
    <3>2. CASE x = b
      <4>1. s <= y
        BY <2>3, <3>1, <3>2, <1>1 DEF WellFormed
      <4>2. s < y
        BY <3>1, <4>1, <1>2, BlockFacts
      <4> QED
        BY <1>1, <1>6, <3>1, <3>2, <4>2 DEF WellFormed
    <3>3. CASE x # b
      BY <1>7, <2>3, <3>1, <3>3 DEF WellFormed
    <3> QED
      BY <3>2, <3>3
  <2> QED
    BY <2>1, <2>2, <2>3 DEF WellFormed
<1>10. ASSUME NEW m, Covers(h, m), NEW x \in Addr
       PROVE  x \in m <=> \E a \in DOMAIN g : a <= x /\ x < block_end(g, a)
  <2> x \in Nat
    BY SpaceAssumption DEF Addr
  <2>1. x \in m <=> \E a \in DOMAIN h : a <= x /\ x < block_end(h, a)
    BY <1>10 DEF Covers
  <2>2. ASSUME NEW a \in DOMAIN h, a <= x, x < block_end(h, a)
        PROVE  \E d \in DOMAIN g : d <= x /\ x < block_end(g, d)
    <3>1. CASE a = b
      <4>1. x < block_end(g, b)
        <5>1. x < s
          BY <1>1, <2>2, <3>1
        <5>2. block_end(g, b) \in Nat /\ s <= block_end(g, b)
          BY <1>2, <1>6, LayoutAssumption
        <5> QED
          BY <1>2, <5>1, <5>2, x \in Nat
      <4> QED
        BY <1>1, <1>2, <1>5, <2>2, <3>1, <4>1
    <3>2. CASE a = s
      <4>1. b <= x
        BY <1>1, <1>2, <2>2, <3>2, x \in Nat
      <4> QED
        BY <1>1, <1>2, <1>5, <1>6, <2>2, <3>2, <4>1
    <3>3. CASE a # b /\ a # s
      BY <1>5, <1>7, <2>2, <3>3
    <3> QED
      BY <3>1, <3>2, <3>3
  <2>3. ASSUME NEW d \in DOMAIN g, d <= x, x < block_end(g, d)
        PROVE  \E a \in DOMAIN h : a <= x /\ x < block_end(h, a)
    <3>1. CASE d = b
      <4>1. x < s \/ s <= x
        BY <1>2, x \in Nat
      <4> QED
        BY <1>1, <1>6, <2>3, <3>1, <4>1
    <3>2. CASE d # b
      BY <1>5, <1>7, <2>3, <3>2
    <3> QED
      BY <3>1, <3>2
  <2> QED
    BY <2>1, <2>2, <2>3
<1>11. \A m : Covers(h, m) => Covers(g, m)
  BY <1>10 DEF Covers
<1> QED
  BY <1>1, <1>2, <1>5, <1>9, <1>11, LayoutAssumption DEF g, c

\* Headers that differ only in next and is_free describe the same blocks.
LEMMA SameExtents ==
  ASSUME NEW h, WellFormed(h), NEW g, DOMAIN g = DOMAIN h, g \in [DOMAIN h -> Header],
         \A b \in DOMAIN h :
           /\ g[b].capacity = h[b].capacity
           /\ g[b].next # h[b].next
                => block_end(h, b) % PAGE = 0 /\ g[b].next % PAGE = 0
  PROVE  /\ WellFormed(g)
         /\ \A m : Covers(h, m) => Covers(g, m)
<1>1. \A b \in DOMAIN h : block_end(g, b) = block_end(h, b)
  BY DEF block_end
<1>2. WellFormed(g)
  BY <1>1 DEF WellFormed
<1> QED
  BY <1>1, <1>2 DEF Covers

Taken(h, b) == [h EXCEPT ![b].is_free = FALSE]
Freed(h, b) == [h EXCEPT ![b].is_free = TRUE]

\* Marking a block taken changes nothing else.
LEMMA MarkTakenKeeps ==
  ASSUME NEW h, WellFormed(h), NEW b \in DOMAIN h
  PROVE  /\ WellFormed(Taken(h, b))
         /\ \A m : Covers(h, m) => Covers(Taken(h, b), m)
         /\ DOMAIN Taken(h, b) = DOMAIN h
         /\ ~Taken(h, b)[b].is_free
         /\ Taken(h, b)[b].capacity = h[b].capacity
         /\ Taken(h, b)[b].next = h[b].next
         /\ \A a \in DOMAIN h \ {b} : Taken(h, b)[a] = h[a]
<1> DEFINE g == Taken(h, b)
<1>1. h \in [DOMAIN h -> Header]
  BY DEF WellFormed
<1>2. h[b] = [next |-> h[b].next, capacity |-> h[b].capacity, is_free |-> h[b].is_free]
  BY BlockFacts
<1>3. g[b] = [next |-> h[b].next, capacity |-> h[b].capacity, is_free |-> FALSE]
  BY <1>1, <1>2 DEF Taken
<1>4. \A a \in DOMAIN h \ {b} : g[a] = h[a]
  BY <1>1 DEF Taken
<1>5. DOMAIN g = DOMAIN h
  BY <1>1 DEF Taken
<1>6. g \in [DOMAIN h -> Header]
  BY <1>1, <1>3 DEF Header, Taken
<1> HIDE DEF g
<1>7. \A a \in DOMAIN h : g[a].capacity = h[a].capacity /\ g[a].next = h[a].next
  BY <1>3, <1>4
<1>8. WellFormed(g) /\ \A m : Covers(h, m) => Covers(g, m)
  BY <1>5, <1>6, <1>7, SameExtents
<1> QED
  BY <1>3, <1>4, <1>5, <1>8 DEF g

\* Nor does marking it free.
LEMMA MarkFreeKeeps ==
  ASSUME NEW h, WellFormed(h), NEW b \in DOMAIN h
  PROVE  /\ WellFormed(Freed(h, b))
         /\ \A m : Covers(h, m) => Covers(Freed(h, b), m)
         /\ DOMAIN Freed(h, b) = DOMAIN h
         /\ Freed(h, b)[b].is_free
         /\ Freed(h, b)[b].capacity = h[b].capacity
         /\ Freed(h, b)[b].next = h[b].next
         /\ \A a \in DOMAIN h \ {b} : Freed(h, b)[a] = h[a]
<1> DEFINE g == Freed(h, b)
<1>1. h \in [DOMAIN h -> Header]
  BY DEF WellFormed
<1>2. h[b] = [next |-> h[b].next, capacity |-> h[b].capacity, is_free |-> h[b].is_free]
  BY BlockFacts
<1>3. g[b] = [next |-> h[b].next, capacity |-> h[b].capacity, is_free |-> TRUE]
  BY <1>1, <1>2 DEF Freed
<1>4. \A a \in DOMAIN h \ {b} : g[a] = h[a]
  BY <1>1 DEF Freed
<1>5. DOMAIN g = DOMAIN h
  BY <1>1 DEF Freed
<1>6. g \in [DOMAIN h -> Header]
  BY <1>1, <1>3 DEF Header, Freed
<1> HIDE DEF g
<1>7. \A a \in DOMAIN h : g[a].capacity = h[a].capacity /\ g[a].next = h[a].next
  BY <1>3, <1>4
<1>8. WellFormed(g) /\ \A m : Covers(h, m) => Covers(g, m)
  BY <1>5, <1>6, <1>7, SameExtents
<1> QED
  BY <1>3, <1>4, <1>5, <1>8 DEF g

\* A split: two blocks where there was one.
LEMMA SplitKeeps ==
  ASSUME WellFormed(hdr), NEW b \in DOMAIN hdr, NEW q \in Nat,
         q >= BLOCK_MIN_CAPACITY, q <= hdr[b].capacity, block_splittable(b, q)
  PROVE  /\ WellFormed(Split(b, q))
         /\ \A m : Covers(hdr, m) => Covers(Split(b, q), m)
         /\ DOMAIN Split(b, q) = DOMAIN hdr \union {contents(b) + q}
         /\ contents(b) + q \notin DOMAIN hdr
         /\ Split(b, q)[b].capacity = q
         /\ Split(b, q)[b].next = contents(b) + q
         /\ Split(b, q)[contents(b) + q].next = hdr[b].next
         /\ \A a \in DOMAIN hdr \ {b} : Split(b, q)[a] = hdr[a]
<1> DEFINE n == contents(b) + q
           g == Split(b, q)
           c == hdr[b].capacity - q - HEADER
<1>1. /\ b \in Nat /\ b > 0
      /\ hdr[b].capacity \in Nat
      /\ block_end(hdr, b) = b + HEADER + hdr[b].capacity
      /\ block_end(hdr, b) <= MemSize
      /\ hdr[b] \in Header
      /\ hdr[b] = [next |-> hdr[b].next, capacity |-> hdr[b].capacity,
                   is_free |-> hdr[b].is_free]
  BY BlockFacts DEF WellFormed
<1>2. hdr[b].capacity < SIZE_MOD
  BY <1>1, LayoutAssumption, SpaceAssumption
<1>3. q + HEADER + BLOCK_MIN_CAPACITY <= hdr[b].capacity
  <2>1. Wrap(q + HEADER + BLOCK_MIN_CAPACITY) <= hdr[b].capacity
    BY DEF block_splittable
  <2>2. q + HEADER + BLOCK_MIN_CAPACITY \in 0 .. SIZE_MOD - 1
    BY <1>1, LayoutAssumption, SpaceAssumption
  <2> QED
    BY <2>1, <2>2, WrapIdentity
<1>4. /\ n = b + HEADER + q
      /\ n \in Addr
      /\ b < n
      /\ n < block_end(hdr, b)
  BY <1>1, <1>3, LayoutAssumption, SpaceAssumption DEF contents, Addr
<1>5. n \notin DOMAIN hdr
  <2>1. n \in DOMAIN hdr => block_end(hdr, b) <= n
    BY <1>4 DEF WellFormed
  <2> HIDE DEF n
  <2> QED
    BY <1>1, <1>4, <2>1, LayoutAssumption, SpaceAssumption DEF Addr
<1>6. c \in 0 .. SIZE_MOD - 1 /\ c >= BLOCK_MIN_CAPACITY
  BY <1>1, <1>2, <1>3, LayoutAssumption, SpaceAssumption
<1>7. capacity_from_size(hdr[b].capacity - q) = c
  BY <1>6, WrapIdentity DEF capacity_from_size
<1>8. /\ DOMAIN g = DOMAIN hdr \union {n}
      /\ g = [a \in DOMAIN g |-> g[a]]
      /\ g[n] = [next |-> hdr[b].next, capacity |-> c, is_free |-> TRUE]
      /\ \A a \in DOMAIN hdr \ {b} : g[a] = hdr[a]
  BY <1>5, <1>7 DEF Split, SplitInto, NewHeader
<1>9. g[b] = [next |-> n, capacity |-> q, is_free |-> hdr[b].is_free]
  <2>1. g[b] = [hdr[b] EXCEPT !.next = n, !.capacity = q]
    BY <1>5 DEF Split, SplitInto
  <2> HIDE DEF g, n
  <2> QED
    BY <1>1, <2>1
<1> HIDE DEF g, c, n
<1>10. /\ block_end(g, b) = n
       /\ block_end(g, n) = block_end(hdr, b)
       /\ \A a \in DOMAIN hdr \ {b} : block_end(g, a) = block_end(hdr, a)
  BY <1>1, <1>4, <1>8, <1>9, LayoutAssumption DEF block_end, c
<1>11. g[b] \in Header /\ g[n] \in Header
  BY <1>1, <1>2, <1>4, <1>6, <1>8, <1>9, SpaceAssumption DEF Header
<1>12. WellFormed(g)
  <2>1. DOMAIN g \subseteq Addr /\ g \in [DOMAIN g -> Header]
    BY <1>4, <1>8, <1>11 DEF WellFormed
  <2>2. ASSUME NEW a \in DOMAIN g
        PROVE  /\ block_end(g, a) <= MemSize
               /\ g[a].capacity >= BLOCK_MIN_CAPACITY
               /\ g[a].next # block_end(g, a)
                    => block_end(g, a) % PAGE = 0 /\ g[a].next % PAGE = 0
    <3>1. CASE a = b
      BY <1>1, <1>4, <1>9, <1>10, <3>1, SpaceAssumption DEF Addr
    <3>2. CASE a = n
      BY <1>1, <1>6, <1>8, <1>10, <3>2 DEF WellFormed
    <3>3. CASE a # b /\ a # n
      BY <1>8, <1>10, <3>3 DEF WellFormed
    <3> QED
      BY <3>1, <3>2, <3>3
  <2>3. ASSUME NEW x \in DOMAIN g, NEW y \in DOMAIN g, x < y
        PROVE  block_end(g, x) <= y
    <3>0. \A a \in DOMAIN hdr : a \in Nat
      BY BlockFacts
    <3>1. CASE x = b /\ y = n
      BY <1>10, <3>1, <1>4, SpaceAssumption DEF Addr
    <3>2. CASE x = b /\ y # n
      <4>1. y \in DOMAIN hdr /\ block_end(hdr, b) <= y
        BY <1>8, <2>3, <3>2 DEF WellFormed
      <4> QED
        BY <1>1, <1>4, <1>10, <3>0, <3>2, <4>1, LayoutAssumption, SpaceAssumption DEF Addr
    <3>3. CASE x = n
      <4>1. y \in DOMAIN hdr /\ b < y
        BY <1>1, <1>4, <1>8, <2>3, <3>0, <3>3, SpaceAssumption DEF Addr
      <4> QED
        BY <1>10, <3>3, <4>1 DEF WellFormed
    <3>4. CASE x # b /\ x # n /\ y = n
      <4>1. x \in DOMAIN hdr
        BY <1>8, <3>4
      <4>2. x < b
        <5>1. ~(b < x)
          BY <1>1, <1>4, <2>3, <3>0, <3>4, <4>1, LayoutAssumption, SpaceAssumption
          DEF WellFormed, Addr
        <5> QED
          BY <1>1, <3>0, <3>4, <4>1, <5>1
      <4>3. block_end(hdr, x) <= b /\ block_end(hdr, x) \in Nat
        BY <4>1, <4>2, BlockFacts DEF WellFormed
      <4> QED
        BY <1>1, <1>4, <1>10, <3>4, <4>1, <4>3, SpaceAssumption DEF Addr
    <3>5. CASE x # b /\ x # n /\ y # n
      BY <1>8, <1>10, <2>3, <3>5 DEF WellFormed
    <3> QED
      BY <3>1, <3>2, <3>3, <3>4, <3>5
  <2> QED
    BY <2>1, <2>2, <2>3 DEF WellFormed
<1>13. ASSUME NEW m, Covers(hdr, m), NEW x \in Addr
       PROVE  x \in m <=> \E a \in DOMAIN g : a <= x /\ x < block_end(g, a)
  <2>0. x \in Nat /\ n \in Nat
    BY <1>4, SpaceAssumption DEF Addr
  <2>1. x \in m <=> \E a \in DOMAIN hdr : a <= x /\ x < block_end(hdr, a)
    BY <1>13 DEF Covers
  <2>2. ASSUME NEW a \in DOMAIN hdr, a <= x, x < block_end(hdr, a)
        PROVE  \E d \in DOMAIN g : d <= x /\ x < block_end(g, d)
    <3>1. CASE a = b /\ x < n
      BY <1>8, <1>10, <2>2, <3>1
    <3>2. CASE a = b /\ n <= x
      BY <1>8, <1>10, <2>2, <3>2
    <3>3. CASE a # b
      BY <1>8, <1>10, <2>2, <3>3
    <3> QED
      BY <2>0, <3>1, <3>2, <3>3
  <2>3. ASSUME NEW d \in DOMAIN g, d <= x, x < block_end(g, d)
        PROVE  \E a \in DOMAIN hdr : a <= x /\ x < block_end(hdr, a)
    <3>1. CASE d = b
      <4>1. x < block_end(hdr, b)
        BY <1>1, <1>4, <1>10, <2>0, <2>3, <3>1, LayoutAssumption
      <4> QED
        BY <2>3, <3>1, <4>1
    <3>2. CASE d = n
      <4>1. b <= x
        BY <1>1, <1>4, <2>0, <2>3, <3>2
      <4> QED
        BY <1>10, <2>3, <3>2, <4>1
    <3>3. CASE d # b /\ d # n
      BY <1>8, <1>10, <2>3, <3>3
    <3> QED
      BY <3>1, <3>2, <3>3
  <2> QED
    BY <2>1, <2>2, <2>3
<1>14. \A m : Covers(hdr, m) => Covers(g, m)
  BY <1>13 DEF Covers
<1> QED
  BY <1>5, <1>8, <1>9, <1>12, <1>14 DEF g, n

\* The header of a free block at the end of the list.
LEMMA HeaderOfFree ==
  \A c \in 0 .. SIZE_MOD - 1 : [next |-> NULL, capacity |-> c, is_free |-> TRUE] \in Header
  BY DEF Header

\* The headers h with that of a new region of n bytes at r.
WithRegion(h, r, n) ==
  [a \in DOMAIN h \union {r} |-> IF a = r THEN NewHeader(n, NULL) ELSE h[a]]

\* What alloc_region's mmap guarantees of n bytes at r when the heap has m.
Fresh(m, r, n) ==
  /\ r \in Addr /\ r % PAGE = 0
  /\ n \in 0 .. SIZE_MOD - 1 /\ n % PAGE = 0
  /\ n >= HEADER + BLOCK_MIN_CAPACITY
  /\ r + n <= MemSize
  /\ Bytes(r, n) \intersect m = {}

\* A new region: one free block on bytes nobody has, off the list so far.
LEMMA RegionKeeps ==
  ASSUME NEW h, WellFormed(h), NEW m, Covers(h, m), NEW r, NEW n, Fresh(m, r, n)
  PROVE  /\ WellFormed(WithRegion(h, r, n))
         /\ Covers(WithRegion(h, r, n), m \union Bytes(r, n))
         /\ r \notin DOMAIN h
         /\ DOMAIN WithRegion(h, r, n) = DOMAIN h \union {r}
         /\ WithRegion(h, r, n)[r] = [next |-> NULL, capacity |-> n - HEADER, is_free |-> TRUE]
         /\ block_end(WithRegion(h, r, n), r) = r + n
         /\ \A a \in DOMAIN h :
              /\ WithRegion(h, r, n)[a] = h[a]
              /\ block_end(WithRegion(h, r, n), a) = block_end(h, a)
<1> DEFINE g == WithRegion(h, r, n)
<1>1. /\ r \in Addr /\ r \in Nat /\ r > 0 /\ n \in Nat
      /\ n - HEADER \in 0 .. SIZE_MOD - 1
      /\ n - HEADER >= BLOCK_MIN_CAPACITY
      /\ PAGE \in Nat \ {0}
  BY LayoutAssumption, SpaceAssumption DEF Addr, Fresh
<1>2. capacity_from_size(n) = n - HEADER
  BY <1>1, WrapIdentity DEF capacity_from_size
<1>3. \A x \in Nat : r <= x /\ x < r + n => x \notin m
  BY <1>1 DEF Bytes, Fresh
<1>4. \A a \in DOMAIN h : /\ a \in Nat /\ a \in Addr
                          /\ block_end(h, a) \in Nat
                          /\ a < block_end(h, a)
  BY BlockFacts, LayoutAssumption DEF WellFormed
<1>5. \A a \in DOMAIN h, x \in Addr : a <= x /\ x < block_end(h, a) => x \in m
  BY DEF Covers
<1>6. \A a \in DOMAIN h : a < r => block_end(h, a) <= r
  <2> SUFFICES ASSUME NEW a \in DOMAIN h, a < r, r < block_end(h, a)
               PROVE  FALSE
    BY <1>1, <1>4
  <2>1. r \in m
    BY <1>1, <1>4, <1>5
  <2> QED
    BY <1>1, <1>3, <2>1, LayoutAssumption
<1>7. \A a \in DOMAIN h : r <= a => r + n <= a
  <2> SUFFICES ASSUME NEW a \in DOMAIN h, r <= a, a < r + n
               PROVE  FALSE
    BY <1>1, <1>4
  <2>1. a \in m
    BY <1>1, <1>4, <1>5
  <2> QED
    BY <1>1, <1>3, <1>4, <2>1
<1>8. r \notin DOMAIN h
  BY <1>1, <1>7, LayoutAssumption
<1>9. /\ DOMAIN g = DOMAIN h \union {r}
      /\ g = [a \in DOMAIN g |-> g[a]]
      /\ g[r] = [next |-> NULL, capacity |-> n - HEADER, is_free |-> TRUE]
      /\ \A a \in DOMAIN h : g[a] = h[a]
  BY <1>2, <1>8 DEF NewHeader, WithRegion
<1> HIDE DEF g
<1>10. /\ block_end(g, r) = r + n
       /\ \A a \in DOMAIN h : block_end(g, a) = block_end(h, a)
  BY <1>1, <1>9, LayoutAssumption DEF block_end
<1>11. WellFormed(g)
  <2>1. DOMAIN g \subseteq Addr /\ g \in [DOMAIN g -> Header]
    <3>1. g[r] \in Header
      BY <1>1, <1>9, HeaderOfFree
    <3> QED
      BY <1>9, <3>1 DEF WellFormed, Fresh
  <2>2. ASSUME NEW a \in DOMAIN g
        PROVE  /\ block_end(g, a) <= MemSize
               /\ g[a].capacity >= BLOCK_MIN_CAPACITY
               /\ g[a].next # block_end(g, a)
                    => block_end(g, a) % PAGE = 0 /\ g[a].next % PAGE = 0
    <3>1. CASE a = r
      <4>1. (r + n) % PAGE = 0 /\ 0 % PAGE = 0
        BY <1>1, WholePages DEF Fresh
      <4> QED
        BY <1>1, <1>9, <1>10, <3>1, <4>1 DEF Fresh
    <3>2. CASE a # r
      BY <1>9, <1>10, <3>2 DEF WellFormed
    <3> QED
      BY <3>1, <3>2
  <2>3. ASSUME NEW x \in DOMAIN g, NEW y \in DOMAIN g, x < y
        PROVE  block_end(g, x) <= y
    <3>1. CASE x = r
      BY <1>1, <1>7, <1>9, <1>10, <2>3, <3>1, <1>4
    <3>2. CASE y = r /\ x # r
      BY <1>6, <1>9, <1>10, <2>3, <3>2
    <3>3. CASE x # r /\ y # r
      BY <1>9, <1>10, <2>3, <3>3 DEF WellFormed
    <3> QED
      BY <3>1, <3>2, <3>3
  <2> QED
    BY <2>1, <2>2, <2>3 DEF WellFormed
<1>12. Covers(g, m \union Bytes(r, n))
  <2> SUFFICES ASSUME NEW x \in Addr
               PROVE  x \in m \union Bytes(r, n)
                        <=> \E a \in DOMAIN g : a <= x /\ x < block_end(g, a)
    BY DEF Covers
  <2>1. x \in Bytes(r, n) <=> r <= x /\ x < block_end(g, r)
    BY <1>1, <1>10, SpaceAssumption DEF Addr, Bytes
  <2>2. x \in m <=> \E a \in DOMAIN h : a <= x /\ x < block_end(g, a)
    BY <1>10 DEF Covers
  <2> QED
    BY <1>9, <2>1, <2>2
<1> QED
  BY <1>8, <1>9, <1>10, <1>11, <1>12 DEF g

\* The headers h without those at the addresses in gone.
Without(h, gone) == [a \in DOMAIN h \ gone |-> h[a]]

\* A munmap from the start of one block to the end of another takes whole blocks.
LEMMA UnmapKeeps ==
  ASSUME NEW h, WellFormed(h), NEW m, Covers(h, m),
         NEW s \in DOMAIN h, NEW e \in DOMAIN h, s <= e,
         NEW n \in Nat, s + n = block_end(h, e)
  PROVE  /\ WellFormed(Without(h, Bytes(s, n)))
         /\ Covers(Without(h, Bytes(s, n)), m \ Bytes(s, n))
         /\ DOMAIN Without(h, Bytes(s, n)) = DOMAIN h \ Bytes(s, n)
<1> DEFINE g == Without(h, Bytes(s, n))
<1>1. \A a \in DOMAIN h : /\ a \in Nat
                          /\ block_end(h, a) \in Nat
                          /\ a < block_end(h, a)
  BY BlockFacts, LayoutAssumption
<1>2. \A x \in Nat : x \in Bytes(s, n) <=> s <= x /\ x < block_end(h, e)
  BY <1>1 DEF Bytes
<1>3. \A a, b \in DOMAIN h : a < b => block_end(h, a) <= b
  BY DEF WellFormed
<1>4. /\ DOMAIN g = DOMAIN h \ Bytes(s, n)
      /\ g = [a \in DOMAIN g |-> g[a]]
      /\ \A a \in DOMAIN g : g[a] = h[a] /\ block_end(g, a) = block_end(h, a)
  BY DEF block_end, Without
<1> HIDE DEF g
<1>5. WellFormed(g)
  BY <1>4 DEF WellFormed
<1>6. ASSUME NEW a \in DOMAIN h, NEW x \in Nat, a <= x, x < block_end(h, a)
      PROVE  a \in Bytes(s, n) <=> x \in Bytes(s, n)
  <2>1. CASE s <= a /\ a < block_end(h, e)
    <3>1. a <= e
      BY <1>1, <1>3, <2>1
    <3>2. block_end(h, a) <= block_end(h, e)
      BY <1>1, <1>3, <3>1
    <3> QED
      BY <1>1, <1>2, <1>6, <2>1, <3>2
  <2>2. CASE a < s
    BY <1>1, <1>2, <1>3, <1>6, <2>2
  <2>3. CASE block_end(h, e) <= a
    BY <1>1, <1>2, <1>6, <2>3
  <2> QED
    BY <1>1, <2>1, <2>2, <2>3
<1>7. Covers(g, m \ Bytes(s, n))
  <2> SUFFICES ASSUME NEW x \in Addr
               PROVE  x \in m \ Bytes(s, n)
                        <=> \E a \in DOMAIN g : a <= x /\ x < block_end(g, a)
    BY DEF Covers
  <2>1. x \in m <=> \E a \in DOMAIN h : a <= x /\ x < block_end(h, a)
    BY DEF Covers
  <2>2. x \in Nat
    BY SpaceAssumption DEF Addr
  <2> QED
    BY <1>4, <1>6, <2>1, <2>2
<1> QED
  BY <1>4, <1>5, <1>7 DEF g

-----------------------------------------------------------------------------
(* The actions *)

\* IInv in the words of the lemmas above.
HInv ==
  /\ WellFormed(hdr)
  /\ Covers(hdr, heapMem)
  /\ heapMem \intersect otherMem = {}
  /\ heapMem \subseteq Addr
  /\ otherMem \subseteq Addr

\* The client's pointers and the other variables.
VarsOK ==
  /\ start \in Addr \union {NULL}
  /\ DOMAIN live \subseteq Addr
  /\ live \in [DOMAIN live -> Queries]
  /\ degraded \in BOOLEAN
  /\ pc \in {"idle", "find", "grow", "free", "term", "span", "wild"}
  /\ query \in 0 .. SIZE_MOD - 1
  /\ block \in Addr \union {NULL}
  /\ grown \in BOOLEAN
  /\ regionStart \in Addr \union {NULL}
  /\ regionSize \in 0 .. SIZE_MOD - 1

LiveOK ==
  \A p \in DOMAIN live :
    /\ block_get_header(p) \in DOMAIN hdr
    /\ ~hdr[block_get_header(p)].is_free
    /\ hdr[block_get_header(p)].capacity >= live[p]

\* IInv, regrouped.
SInv == HInv /\ VarsOK /\ LiveOK /\ GrowthSuffices /\ CallState

LEMMA InvSplit == (IInv <=> SInv) /\ (IInv' <=> SInv')
  BY DEF IInv, SInv, HInv, VarsOK, LiveOK, TypeOK, BlocksTileHeap, LivePointersBacked,
         RegionEdges, WellFormed, Covers, block_after

\* The client's pointers stay backed when the taken blocks stay where they are.
LEMMA LiveKept ==
  ASSUME HInv, LiveOK, live' = live,
         \A b \in DOMAIN hdr : ~hdr[b].is_free
            => /\ b \in DOMAIN hdr'
               /\ ~hdr'[b].is_free
               /\ hdr'[b].capacity = hdr[b].capacity
  PROVE  LiveOK'
  BY DEF LiveOK, block_get_header

\* A call that has returned relies on nothing.
LEMMA ReturnState ==
  ASSUME Return \/ pc' = "wild"
  PROVE  GrowthSuffices' /\ CallState'
  BY DEF Return, GrowthSuffices, CallState

\* _malloc enters its search with a query of the client.
LEMMA MallocCallStep ==
  ASSUME SInv, NEW q \in Queries, MallocCall(q)
  PROVE  SInv'
<1>1. HInv' /\ LiveOK'
  BY DEF SInv, HInv, LiveOK, MallocCall, heapVars, clientVars
<1>2. VarsOK'
  BY ClientAssumption, SpaceAssumption
  DEF SInv, VarsOK, MallocCall, heapVars, clientVars
<1>3. GrowthSuffices' /\ CallState'
  BY DEF SInv, CallState, GrowthSuffices, MallocCall, heapVars, clientVars
<1> QED
  BY <1>1, <1>2, <1>3 DEF SInv

\* The heap and the client's pointers when a step leaves them alone.
LEMMA Untouched ==
  ASSUME SInv, UNCHANGED <<heapVars, clientVars>>
  PROVE  /\ HInv'
         /\ LiveOK'
         /\ VarsOK' <=> /\ pc' \in {"idle", "find", "grow", "free", "term", "span", "wild"}
                       /\ query' \in 0 .. SIZE_MOD - 1
                       /\ block' \in Addr \union {NULL}
                       /\ grown' \in BOOLEAN
                       /\ regionStart' \in Addr \union {NULL}
                       /\ regionSize' \in 0 .. SIZE_MOD - 1
  BY DEF SInv, HInv, LiveOK, VarsOK, heapVars, clientVars

\* The search goes on to the next block; after growth it does not come to that.
LEMMA SearchAdvancesStep ==
  ASSUME SInv, SearchAdvances
  PROVE  SInv'
<1>1. /\ block \in DOMAIN hdr
      /\ ~Good(block)
      /\ pc = "find"
      /\ UNCHANGED <<heapVars, clientVars, pc, query, grown, regionStart, regionSize>>
      /\ block' = hdr[block].next
  BY DEF SearchAdvances, SearchPasses, Searching, Dangling
<1>2. HInv' /\ LiveOK'
  BY <1>1, Untouched
<1>3. VarsOK'
  <2>1. hdr[block].next \in Addr \union {NULL}
    BY <1>1 DEF SInv, HInv, WellFormed, Header
  <2> QED
    BY <1>1, <2>1 DEF SInv, VarsOK, clientVars
<1>4. GrowthSuffices'
  BY <1>1 DEF SInv, GrowthSuffices, NoWrap
<1>5. CallState'
  BY <1>1 DEF SInv, CallState, heapVars, clientVars
<1> QED
  BY <1>2, <1>3, <1>4, <1>5 DEF SInv

\* The search is at the last block.
LEMMA SearchExhaustedStep ==
  ASSUME SInv, SearchExhausted
  PROVE  SInv'
<1>1. /\ block \in DOMAIN hdr /\ hdr[block].next = NULL
      /\ pc = "find" /\ pc' = "grow" /\ ~grown
      /\ UNCHANGED <<heapVars, clientVars, locals>>
  BY DEF SearchExhausted, SearchPasses, Searching, Dangling
<1>2. HInv' /\ LiveOK'
  BY <1>1, Untouched
<1>3. VarsOK'
  BY <1>1 DEF SInv, VarsOK, clientVars, locals
<1>4. GrowthSuffices' /\ CallState'
  BY <1>1 DEF SInv, CallState, GrowthSuffices, heapVars, clientVars, locals
<1> QED
  BY <1>2, <1>3, <1>4 DEF SInv

\* Calls that return, or go wild, with the heap as it is.
LEMMA ReturnSteps ==
  ASSUME SInv,
         \/ SearchWild \/ TermWild
         \/ SearchGivesUp \/ GrowFails \/ FreeReturns \/ TermReturns
  PROVE  SInv'
<1>1. UNCHANGED <<heapVars, clientVars>> /\ (Return \/ (pc' = "wild" /\ UNCHANGED locals))
  BY DEF SearchWild, TermWild, Wild, SearchGivesUp, GrowFails, FreeReturns,
         TermReturns
<1>2. HInv' /\ LiveOK'
  BY <1>1, Untouched
<1>3. VarsOK'
  <2>1. CASE Return
    <3>1. 0 \in 0 .. SIZE_MOD - 1
      BY LayoutAssumption, SpaceAssumption
    <3> QED
      BY <1>1, <2>1, <3>1 DEF SInv, VarsOK, clientVars, Return
  <2>2. CASE pc' = "wild" /\ UNCHANGED locals
    BY <1>1, <2>2 DEF SInv, VarsOK, clientVars, locals
  <2> QED
    BY <1>1, <2>1, <2>2
<1>4. GrowthSuffices' /\ CallState'
  BY <1>1, ReturnState
<1> QED
  BY <1>2, <1>3, <1>4 DEF SInv

\* Steps that change nothing at all.
LEMMA StutterSteps ==
  ASSUME SInv, HeapInitFails \/ Undefined \/ UNCHANGED vars
  PROVE  SInv'
<1>1. UNCHANGED vars
  BY DEF HeapInitFails, Undefined
<1>2. HInv' /\ LiveOK'
  BY <1>1, Untouched DEF vars
<1>3. VarsOK' /\ GrowthSuffices'
  BY <1>1 DEF SInv, VarsOK, GrowthSuffices, Good, vars, heapVars, clientVars, locals
<1>4. CallState'
  BY <1>1 DEF SInv, CallState, block_after, vars, heapVars, clientVars, locals
<1> QED
  BY <1>2, <1>3, <1>4 DEF SInv

\* The rest of the process maps and unmaps pages of its own.
LEMMA OtherSteps ==
  ASSUME SInv, NEW a \in OtherPages, OtherMaps(a) \/ OtherUnmaps(a)
  PROVE  SInv'
<1>1. /\ pc = "idle"
      /\ UNCHANGED <<hdr, heapMem, clientVars, pc, locals>>
  BY DEF OtherMaps, OtherUnmaps
<1>2. otherMem' \subseteq Addr /\ heapMem \intersect otherMem' = {}
  <2>1. CASE OtherMaps(a)
    <3>1. Bytes(a, PAGE) \subseteq Addr
      BY <2>1, ClientAssumption, LayoutAssumption, SpaceAssumption
      DEF OtherMaps, Available, Bytes, Addr
    <3> QED
      BY <2>1, <3>1 DEF OtherMaps, Available, SInv, HInv
  <2>2. CASE OtherUnmaps(a)
    BY <2>2 DEF OtherUnmaps, SInv, HInv
  <2> QED
    BY <2>1, <2>2
<1>3. HInv' /\ LiveOK' /\ VarsOK'
  BY <1>1, <1>2 DEF SInv, HInv, LiveOK, VarsOK, clientVars, locals
<1>4. GrowthSuffices' /\ CallState'
  BY <1>1 DEF SInv, GrowthSuffices, CallState, clientVars, locals
<1> QED
  BY <1>3, <1>4 DEF SInv

\* A merge, in a search or in _free.
LEMMA MergeSteps ==
  ASSUME SInv, SearchMerge \/ FreeMerge
  PROVE  SInv'
<1>1. /\ pc \in {"find", "free"}
      /\ ~Dangling(block)
      /\ mergeable(hdr, block)
      /\ hdr' = Merge(hdr, block)
      /\ UNCHANGED <<heapMem, otherMem, clientVars, pc, locals>>
  BY DEF SearchMerge, FreeMerge, Searching
<1>2. /\ block \in DOMAIN hdr
      /\ hdr[block].is_free
      /\ hdr[block].next \in DOMAIN hdr
      /\ hdr[hdr[block].next].is_free
  BY <1>1 DEF Dangling, mergeable
<1>3. WellFormed(hdr) /\ Covers(hdr, heapMem)
  BY DEF SInv, HInv
<1>4. /\ WellFormed(hdr')
      /\ Covers(hdr', heapMem)
      /\ DOMAIN hdr' = DOMAIN hdr \ {hdr[block].next}
      /\ block \in DOMAIN hdr'
      /\ hdr'[block].is_free
      /\ hdr'[block].capacity >= hdr[block].capacity
      /\ \A a \in DOMAIN hdr \ {block, hdr[block].next} : hdr'[a] = hdr[a]
  BY <1>1, <1>2, <1>3, MergeKeeps
<1>5. HInv'
  BY <1>1, <1>4 DEF SInv, HInv
<1>6. LiveOK'
  <2>1. \A b \in DOMAIN hdr : ~hdr[b].is_free => b \in DOMAIN hdr' /\ hdr'[b] = hdr[b]
    BY <1>2, <1>4
  <2> QED
    BY <1>1, <2>1, LiveKept DEF SInv, clientVars
<1>7. VarsOK'
  BY <1>1 DEF SInv, VarsOK, clientVars, locals
<1>8. GrowthSuffices'
  <2> SUFFICES ASSUME pc = "find", grown, NoWrap(query)
               PROVE  hdr'[block].is_free /\ hdr'[block].capacity >= normalize_query(query)
    BY <1>1, <1>4 DEF GrowthSuffices, Good, NoWrap, normalize_query, locals
  <2>1. hdr[block].capacity >= normalize_query(query)
    BY DEF SInv, GrowthSuffices, Good
  <2>2. hdr[block].capacity \in Nat /\ hdr'[block].capacity \in Nat
    BY <1>2, <1>3, <1>4, BlockFacts
  <2>3. normalize_query(query) \in Nat
    BY LayoutAssumption, SpaceAssumption DEF SInv, VarsOK, normalize_query
  <2> QED
    BY <1>4, <2>1, <2>2, <2>3
<1>9. CallState'
  BY <1>1, <1>4 DEF SInv, CallState, locals
<1> QED
  BY <1>5, <1>6, <1>7, <1>8, <1>9 DEF SInv

\* A good block is split and taken, and its contents belong to the client.
LEMMA SearchTakesStep ==
  ASSUME SInv, SearchTakes
  PROVE  SInv'
<1> DEFINE q == normalize_query(query)
           h == IF block_splittable(block, q) THEN Split(block, q) ELSE hdr
           p == contents(block)
<1>1. /\ pc = "find"
      /\ block \in DOMAIN hdr
      /\ hdr[block].is_free
      /\ hdr[block].capacity >= q
      /\ hdr' = [h EXCEPT ![block].is_free = FALSE]
      /\ live' = [r \in DOMAIN live \union {p} |-> IF r = p THEN query ELSE live[r]]
      /\ Return
      /\ UNCHANGED <<heapMem, otherMem, start, degraded>>
  BY DEF SearchTakes, Searching, Dangling, Good
<1>2. /\ WellFormed(hdr) /\ Covers(hdr, heapMem)
      /\ query \in Queries /\ query \in Nat
      /\ q \in Nat /\ q >= BLOCK_MIN_CAPACITY /\ q >= query
  <2>1. query \in Nat
    BY SpaceAssumption DEF SInv, VarsOK
  <2> QED
    BY <1>1, <2>1, LayoutAssumption DEF SInv, HInv, CallState, normalize_query
<1>3. /\ block \in Nat /\ p = block + HEADER /\ p \in Addr
      /\ block_get_header(p) = block
  BY <1>1, <1>2, BlockFacts, LayoutAssumption, SpaceAssumption
  DEF WellFormed, contents, block_get_header, Addr
<1>4. /\ WellFormed(h)
      /\ Covers(h, heapMem)
      /\ DOMAIN hdr \subseteq DOMAIN h
      /\ h[block].capacity >= q
      /\ \A a \in DOMAIN hdr \ {block} : h[a] = hdr[a]
  <2>1. CASE block_splittable(block, q)
    <3>1. h = Split(block, q)
      BY <2>1
    <3>2. q <= hdr[block].capacity
      BY <1>1, <1>2, BlockFacts
    <3>3. /\ WellFormed(h)
          /\ Covers(h, heapMem)
          /\ DOMAIN h = DOMAIN hdr \union {contents(block) + q}
          /\ h[block].capacity = q
          /\ \A a \in DOMAIN hdr \ {block} : h[a] = hdr[a]
      <4> HIDE DEF q, h
      <4> QED
        BY <1>1, <1>2, <2>1, <3>1, <3>2, SplitKeeps
    <3> HIDE DEF q, h
    <3> QED
      BY <1>2, <3>3
  <2>2. CASE ~block_splittable(block, q)
    <3>1. h = hdr
      BY <2>2
    <3> HIDE DEF h
    <3> QED
      BY <1>1, <1>2, <3>1
  <2> QED
    BY <2>1, <2>2
<1> HIDE DEF q, h, p
<1>5. /\ WellFormed(hdr')
      /\ Covers(hdr', heapMem)
      /\ DOMAIN hdr' = DOMAIN h
      /\ ~hdr'[block].is_free
      /\ hdr'[block].capacity >= q
      /\ \A a \in DOMAIN hdr \ {block} : hdr'[a] = hdr[a]
  <2>1. block \in DOMAIN h
    BY <1>1, <1>4
  <2>2. /\ WellFormed(hdr')
        /\ \A m : Covers(h, m) => Covers(hdr', m)
        /\ DOMAIN hdr' = DOMAIN h
        /\ ~hdr'[block].is_free
        /\ hdr'[block].capacity = h[block].capacity
        /\ \A a \in DOMAIN h \ {block} : hdr'[a] = h[a]
    <3>1. WellFormed(h) /\ hdr' = Taken(h, block)
      BY <1>1, <1>4 DEF Taken
    <3> QED
      BY <2>1, <3>1, MarkTakenKeeps
  <2> QED
    BY <1>4, <2>2
<1>6. HInv'
  BY <1>1, <1>5 DEF SInv, HInv
<1>7. LiveOK'
  <2> SUFFICES ASSUME NEW r \in DOMAIN live'
               PROVE  /\ block_get_header(r) \in DOMAIN hdr'
                      /\ ~hdr'[block_get_header(r)].is_free
                      /\ hdr'[block_get_header(r)].capacity >= live'[r]
    BY DEF LiveOK, block_get_header
  <2>1. CASE r = p
    <3>1. live'[r] = query /\ block_get_header(r) = block
      BY <1>1, <1>3, <2>1
    <3>2. hdr'[block].capacity \in Nat
      BY <1>1, <1>4, <1>5, BlockFacts
    <3> QED
      BY <1>1, <1>2, <1>4, <1>5, <3>1, <3>2
  <2>2. CASE r # p
    <3>1. r \in DOMAIN live /\ live'[r] = live[r]
      BY <1>1, <2>2
    <3>2. /\ block_get_header(r) \in DOMAIN hdr
          /\ ~hdr[block_get_header(r)].is_free
          /\ hdr[block_get_header(r)].capacity >= live[r]
      BY <3>1 DEF SInv, LiveOK
    <3>3. block_get_header(r) # block
      BY <1>1, <3>2
    <3> QED
      BY <1>4, <1>5, <3>1, <3>2, <3>3
  <2> QED
    BY <2>1, <2>2
<1>8. VarsOK'
  <2>1. 0 \in 0 .. SIZE_MOD - 1
    BY LayoutAssumption, SpaceAssumption
  <2>2. DOMAIN live' \subseteq Addr /\ live' \in [DOMAIN live' -> Queries]
    BY <1>1, <1>2, <1>3 DEF SInv, VarsOK
  <2> QED
    BY <1>1, <2>1, <2>2 DEF SInv, VarsOK, Return
<1>9. GrowthSuffices' /\ CallState'
  BY <1>1, ReturnState
<1> QED
  BY <1>6, <1>7, <1>8, <1>9 DEF SInv

\* heap_init: the heap is one free block.
LEMMA HeapInitStep ==
  ASSUME SInv, NEW q \in InitSizes, HeapInit(q)
  PROVE  SInv'
<1> DEFINE n == region_size_for(q)
<1>1. PICK r \in Placements(HEAP_START, n) :
        /\ hdr' = WithRegion(hdr, r, n)
        /\ heapMem' = heapMem \union Bytes(r, n)
        /\ start' = r
        /\ degraded' = (degraded \/ r # HEAP_START)
  BY DEF HeapInit, WithRegion
<1>2. pc = "idle" /\ UNCHANGED <<otherMem, live, pc, locals>>
  BY DEF HeapInit
<1>3. /\ n \in 0 .. SIZE_MOD - 1
      /\ n % PAGE = 0
      /\ n >= HEADER + BLOCK_MIN_CAPACITY
  BY RegionSize, ClientAssumption
<1> HIDE DEF n
<1>4. /\ r \in Addr
      /\ r % PAGE = 0
      /\ r + n <= MemSize
      /\ Bytes(r, n) \intersect (heapMem \union otherMem) = {}
  BY <1>1, SpaceAssumption DEF Placements, Available
<1>5. WellFormed(hdr) /\ Covers(hdr, heapMem) /\ Fresh(heapMem, r, n)
  BY <1>3, <1>4 DEF SInv, HInv, Fresh
<1>6. /\ WellFormed(hdr')
      /\ Covers(hdr', heapMem \union Bytes(r, n))
      /\ DOMAIN hdr' = DOMAIN hdr \union {r}
      /\ \A a \in DOMAIN hdr : hdr'[a] = hdr[a]
  <2>1. WellFormed(WithRegion(hdr, r, n))
    BY <1>5, RegionKeeps, Zenon
  <2>2. Covers(WithRegion(hdr, r, n), heapMem \union Bytes(r, n))
    BY <1>5, RegionKeeps, Zenon
  <2>3. DOMAIN WithRegion(hdr, r, n) = DOMAIN hdr \union {r}
    BY DEF WithRegion
  <2>4. r \notin DOMAIN hdr
    BY <1>5, RegionKeeps, Zenon
  <2>5. \A a \in DOMAIN hdr : WithRegion(hdr, r, n)[a] = hdr[a]
    BY <2>4 DEF WithRegion
  <2> QED
    BY <1>1, <2>1, <2>2, <2>3, <2>5
<1>7. Bytes(r, n) \subseteq Addr
  BY <1>3, <1>4, SpaceAssumption DEF Bytes, Addr
<1>8. HInv'
  BY <1>1, <1>2, <1>4, <1>6, <1>7 DEF SInv, HInv
<1>9. LiveOK'
  BY <1>2, <1>6, LiveKept DEF SInv
<1>10. VarsOK'
  BY <1>1, <1>2, <1>4 DEF SInv, VarsOK, locals
<1>11. GrowthSuffices' /\ CallState'
  BY <1>2 DEF SInv, GrowthSuffices, CallState, locals
<1> QED
  BY <1>8, <1>9, <1>10, <1>11 DEF SInv

\* grow_heap: the region is linked behind the last block, and merged into it
\* when that one is free and ends where the region begins.
LEMMA GrowHeapStep ==
  ASSUME SInv, GrowHeap
  PROVE  SInv'
<1> DEFINE q == normalize_query(query)
           n == region_size_for(q)
<1>1. PICK r \in Placements(block_after(block), n) :
        /\ heapMem' = heapMem \union Bytes(r, n)
        /\ IF mergeable(Linked(block, r, n), block)
           THEN hdr' = Merge(Linked(block, r, n), block) /\ block' = block
           ELSE hdr' = Linked(block, r, n) /\ block' = r
  BY DEF GrowHeap
<1>2. /\ pc = "grow" /\ grown' = TRUE /\ pc' = "find"
      /\ UNCHANGED <<otherMem, clientVars, query, regionStart, regionSize>>
  BY DEF GrowHeap
<1>3. /\ block \in DOMAIN hdr /\ hdr[block].next = NULL
      /\ query \in Queries /\ query \in 0 .. SIZE_MOD - 1
      /\ WellFormed(hdr) /\ Covers(hdr, heapMem)
      /\ block \in Addr
  BY <1>2 DEF SInv, VarsOK, HInv, CallState, WellFormed
<1>4. q \in 0 .. SIZE_MOD - 1
  BY <1>3, LayoutAssumption, SpaceAssumption DEF normalize_query
<1> HIDE DEF q
<1>5. /\ n \in 0 .. SIZE_MOD - 1
      /\ n % PAGE = 0
      /\ n >= HEADER + BLOCK_MIN_CAPACITY
      /\ q + HEADER + PAGE <= SIZE_MOD => n >= q + HEADER
  BY <1>4, RegionSize
<1> HIDE DEF n
<1>6. /\ block_after(block) \in Nat
      /\ block_after(block) % PAGE = 0
      /\ block_after(block) > 0
  <2>1. block_end(hdr, block) \in Nat /\ block_end(hdr, block) > 0
    BY <1>3, BlockFacts, LayoutAssumption
  <2>2. hdr[block].next # block_end(hdr, block)
    BY <1>3, <2>1
  <2> QED
    BY <1>3, <2>1, <2>2 DEF WellFormed, block_after
<1>7. /\ r \in Addr
      /\ r % PAGE = 0
      /\ r + n <= MemSize
      /\ Bytes(r, n) \intersect (heapMem \union otherMem) = {}
  BY <1>5, <1>6, LayoutAssumption, SpaceAssumption DEF Placements, Available, Addr
<1>8. WellFormed(hdr) /\ Covers(hdr, heapMem) /\ Fresh(heapMem, r, n)
  BY <1>3, <1>5, <1>7 DEF Fresh
<1> DEFINE w == WithRegion(hdr, r, n)
           k == Linked(block, r, n)
<1>9. WellFormed(w)
  BY <1>8, RegionKeeps
<1>10. Covers(w, heapMem \union Bytes(r, n))
  BY <1>8, RegionKeeps
<1>11. r \notin DOMAIN hdr
  BY <1>8, RegionKeeps
<1>12. w[r] = [next |-> NULL, capacity |-> n - HEADER, is_free |-> TRUE]
  <2>1. n - HEADER \in 0 .. SIZE_MOD - 1
    BY <1>5, LayoutAssumption, SpaceAssumption
  <2> QED
    BY <2>1, WrapIdentity DEF WithRegion, NewHeader, capacity_from_size
<1>13. \A a \in DOMAIN hdr : w[a] = hdr[a]
  BY <1>11 DEF WithRegion
<1>14. /\ DOMAIN k = DOMAIN w
       /\ k = [a \in DOMAIN k |-> k[a]]
       /\ \A a \in DOMAIN w \ {block} : k[a] = w[a]
       /\ k[block] = [hdr[block] EXCEPT !.next = r]
  BY <1>3, <1>11 DEF Linked, WithRegion
<1>15. k[block] = [next |-> r, capacity |-> hdr[block].capacity,
                   is_free |-> hdr[block].is_free]
  <2>1. hdr[block] = [next |-> hdr[block].next, capacity |-> hdr[block].capacity,
                      is_free |-> hdr[block].is_free]
    BY <1>3, BlockFacts
  <2> HIDE DEF k
  <2> QED
    BY <1>14, <2>1
<1>16. DOMAIN w = DOMAIN hdr \union {r}
  BY DEF WithRegion
<1> HIDE DEF w, k
<1>17. WellFormed(k) /\ Covers(k, heapMem \union Bytes(r, n))
  <2>1. w \in [DOMAIN w -> Header] /\ hdr[block] \in Header
    BY <1>3, <1>9 DEF WellFormed
  <2>2. k[block] \in Header
    BY <1>7, <1>15, <2>1 DEF Header
  <2>3. k \in [DOMAIN w -> Header]
    BY <1>14, <2>1, <2>2
  <2>4. block_end(w, block) % PAGE = 0
    BY <1>3, <1>6, <1>13 DEF block_end, block_after
  <2>5. \A a \in DOMAIN w :
          /\ k[a].capacity = w[a].capacity
          /\ k[a].next # w[a].next
               => block_end(w, a) % PAGE = 0 /\ k[a].next % PAGE = 0
    BY <1>3, <1>7, <1>13, <1>14, <1>15, <2>4
  <2> QED
    BY <1>9, <1>10, <1>14, <2>3, <2>5, SameExtents
<1>18. /\ block \in DOMAIN k /\ r \in DOMAIN k /\ block # r
       /\ k[r] = [next |-> NULL, capacity |-> n - HEADER, is_free |-> TRUE]
       /\ \A a \in DOMAIN hdr : /\ a \in DOMAIN k
                               /\ k[a].is_free = hdr[a].is_free
                               /\ k[a].capacity = hdr[a].capacity
  BY <1>3, <1>11, <1>12, <1>13, <1>14, <1>15, <1>16
<1>19. /\ WellFormed(hdr')
       /\ Covers(hdr', heapMem \union Bytes(r, n))
       /\ block' \in DOMAIN hdr'
       /\ hdr'[block'].is_free
       /\ hdr'[block'].capacity >= n - HEADER
       /\ \A a \in DOMAIN hdr : ~hdr[a].is_free
            => /\ a \in DOMAIN hdr'
               /\ ~hdr'[a].is_free
               /\ hdr'[a].capacity = hdr[a].capacity
  <2>1. CASE mergeable(k, block)
    <3>1. hdr' = Merge(k, block) /\ block' = block
      BY <1>1, <2>1 DEF k
    <3>2. k[block].next = r
      BY <1>15
    <3>3. /\ WellFormed(hdr')
          /\ \A m : Covers(k, m) => Covers(hdr', m)
          /\ DOMAIN hdr' = DOMAIN k \ {r}
          /\ hdr'[block].is_free
          /\ hdr'[block].capacity >= k[r].capacity
          /\ \A a \in DOMAIN k \ {block, r} : hdr'[a] = k[a]
      BY <1>17, <1>18, <2>1, <3>1, <3>2, MergeKeeps
    <3>4. k[block].is_free
      BY <2>1 DEF mergeable
    <3> QED
      BY <1>11, <1>17, <1>18, <3>1, <3>3, <3>4
  <2>2. CASE ~mergeable(k, block)
    <3>1. hdr' = k /\ block' = r
      BY <1>1, <2>2 DEF k
    <3> QED
      BY <1>5, <1>17, <1>18, <3>1, LayoutAssumption
  <2> QED
    BY <2>1, <2>2
<1>20. HInv'
  <2>1. Bytes(r, n) \subseteq Addr
    BY <1>5, <1>7, SpaceAssumption DEF Bytes, Addr
  <2> QED
    BY <1>1, <1>2, <1>7, <1>19, <2>1 DEF SInv, HInv
<1>21. LiveOK'
  BY <1>2, <1>19, LiveKept DEF SInv, clientVars
<1>22. VarsOK'
  BY <1>2, <1>19 DEF SInv, VarsOK, clientVars, WellFormed
<1>23. GrowthSuffices'
  <2> SUFFICES ASSUME NoWrap(query)
               PROVE  hdr'[block'].capacity >= normalize_query(query)
    BY <1>2, <1>19 DEF GrowthSuffices, Good, NoWrap, normalize_query
  <2>1. n - HEADER >= q
    BY <1>4, <1>5, LayoutAssumption, SpaceAssumption DEF NoWrap, q
  <2>2. hdr'[block'].capacity \in Nat
    BY <1>19, BlockFacts
  <2> QED
    BY <1>4, <1>5, <1>19, <2>1, <2>2, LayoutAssumption DEF q
<1>24. CallState'
  BY <1>2, <1>3 DEF CallState
<1> QED
  BY <1>20, <1>21, <1>22, <1>23, <1>24 DEF SInv

\* _free marks the block; its pointer is the client's no longer.
LEMMA FreeCallStep ==
  ASSUME SInv, NEW p \in DOMAIN live, FreeCall(p)
  PROVE  SInv'
<1> DEFINE b == block_get_header(p)
<1>1. /\ hdr' = Freed(hdr, b)
      /\ live' = [r \in DOMAIN live \ {p} |-> live[r]]
      /\ block' = b
      /\ pc' = "free"
      /\ UNCHANGED <<heapMem, otherMem, start, degraded, query, grown,
                     regionStart, regionSize>>
  BY DEF FreeCall, Freed
<1>2. /\ WellFormed(hdr) /\ Covers(hdr, heapMem)
      /\ b \in DOMAIN hdr /\ b \in Addr
  BY DEF SInv, HInv, LiveOK, WellFormed
<1>3. \A r \in DOMAIN live : /\ block_get_header(r) \in DOMAIN hdr
                             /\ r # p => block_get_header(r) # b
  BY LayoutAssumption, SpaceAssumption
  DEF SInv, LiveOK, VarsOK, Addr, block_get_header
<1> HIDE DEF b
<1>4. /\ WellFormed(hdr')
      /\ \A m : Covers(hdr, m) => Covers(hdr', m)
      /\ DOMAIN hdr' = DOMAIN hdr
      /\ \A a \in DOMAIN hdr \ {b} : hdr'[a] = hdr[a]
  BY <1>1, <1>2, MarkFreeKeeps
<1>5. HInv'
  BY <1>1, <1>2, <1>4 DEF SInv, HInv
<1>6. LiveOK'
  BY <1>1, <1>3, <1>4 DEF SInv, LiveOK, block_get_header
<1>7. VarsOK'
  BY <1>1, <1>2 DEF SInv, VarsOK
<1>8. GrowthSuffices' /\ CallState'
  BY <1>1, <1>2, <1>4 DEF GrowthSuffices, CallState
<1> QED
  BY <1>5, <1>6, <1>7, <1>8 DEF SInv

\* heap_term begins at HEAP_START, and the client's pointers die.
LEMMA TermCallStep ==
  ASSUME SInv, TermCall
  PROVE  SInv'
<1>1. HInv' /\ LiveOK'
  BY DEF SInv, HInv, LiveOK, TermCall, heapVars
<1>2. VarsOK'
  BY SpaceAssumption DEF SInv, VarsOK, TermCall
<1>3. GrowthSuffices' /\ CallState'
  BY SpaceAssumption DEF GrowthSuffices, CallState, TermCall
<1> QED
  BY <1>1, <1>2, <1>3 DEF SInv

\* A block lies in the memory of the heap, and its size is not wrapped.
LEMMA BlockBytes ==
  ASSUME SInv, NEW b \in DOMAIN hdr
  PROVE  /\ b \in Addr
         /\ hdr[b].capacity \in Nat
         /\ block_after(b) \in Nat
         /\ block_after(b) <= MemSize
         /\ block_after(b) = b + HEADER + hdr[b].capacity
         /\ block_size(b) = HEADER + hdr[b].capacity
         /\ \A x \in Addr : b <= x /\ x < block_after(b) => x \in heapMem
<1>1. WellFormed(hdr) /\ Covers(hdr, heapMem)
  BY DEF SInv, HInv
<1>2. /\ b \in Addr
      /\ b \in Nat
      /\ hdr[b].capacity \in Nat
      /\ block_after(b) \in Nat
      /\ block_after(b) <= MemSize
      /\ block_after(b) = b + HEADER + hdr[b].capacity
  BY <1>1, BlockFacts DEF WellFormed, block_after
<1>3. block_size(b) = HEADER + hdr[b].capacity
  <2>1. hdr[b].capacity + HEADER \in 0 .. SIZE_MOD - 1
    BY <1>2, LayoutAssumption, SpaceAssumption
  <2> QED
    BY <1>2, <2>1, WrapIdentity, LayoutAssumption DEF block_size, size_from_capacity
<1>4. \A x \in Addr : b <= x /\ x < block_after(b) => x \in heapMem
  BY <1>1 DEF Covers, block_after
<1> QED
  BY <1>2, <1>3, <1>4

\* A span begins as one block.
LEMMA TermEntersStep ==
  ASSUME SInv, TermEnters
  PROVE  SInv'
<1>1. /\ pc = "term" /\ block \in DOMAIN hdr
      /\ regionStart' = block
      /\ regionSize' = block_size(block)
      /\ pc' = "span"
      /\ UNCHANGED <<heapVars, clientVars, query, block, grown>>
  BY DEF TermEnters
<1>2. HInv' /\ LiveOK'
  BY <1>1, Untouched
<1>3. /\ block \in Addr
      /\ hdr[block].capacity \in Nat
      /\ block_after(block) \in Nat
      /\ block_after(block) <= MemSize
      /\ block_after(block) = block + HEADER + hdr[block].capacity
      /\ block_size(block) = HEADER + hdr[block].capacity
      /\ \A x \in Addr : block <= x /\ x < block_after(block) => x \in heapMem
  BY <1>1, BlockBytes
<1>4. VarsOK'
  <2>1. block_size(block) \in 0 .. SIZE_MOD - 1
    BY <1>3, LayoutAssumption, SpaceAssumption DEF Addr
  <2> QED
    BY <1>1, <1>3, <2>1 DEF SInv, VarsOK, clientVars
<1>5. GrowthSuffices'
  BY <1>1 DEF GrowthSuffices
<1>6. CallState'
  <2>1. hdr' = hdr /\ heapMem' = heapMem /\ live' = live
    BY <1>1 DEF heapVars, clientVars
  <2>2. block_after(block)' = block_after(block)
    BY <1>1, <2>1 DEF block_after, block_end
  <2>3. Bytes(block, block_size(block)) \subseteq heapMem
    BY <1>3, LayoutAssumption, SpaceAssumption DEF Addr, Bytes
  <2>4. block % PAGE = 0 /\ live = [p \in {} |-> 0]
    BY <1>1 DEF SInv, CallState
  <2>5. block + block_size(block) = block_after(block) /\ block <= block
    BY <1>3, LayoutAssumption, SpaceAssumption DEF Addr
  <2> QED
    BY <1>1, <2>1, <2>2, <2>3, <2>4, <2>5 DEF CallState
<1> QED
  BY <1>2, <1>4, <1>5, <1>6 DEF SInv

\* A span grows by a block that follows at once.
LEMMA SpanExtendsStep ==
  ASSUME SInv, SpanExtends
  PROVE  SInv'
<1> DEFINE s == hdr[block].next
<1>1. /\ pc = "span"
      /\ s \in DOMAIN hdr
      /\ s = block_after(block)
      /\ block' = s
      /\ regionSize' = Wrap(regionSize + block_size(s))
      /\ UNCHANGED <<heapVars, clientVars, pc, query, grown, regionStart>>
  BY DEF SpanExtends, SpanExtendsBy
<1>2. /\ block \in DOMAIN hdr
      /\ regionStart \in DOMAIN hdr
      /\ regionStart % PAGE = 0
      /\ regionStart <= block
      /\ regionStart + regionSize = block_after(block)
      /\ Bytes(regionStart, regionSize) \subseteq heapMem
      /\ live = [p \in {} |-> 0]
      /\ regionSize \in Nat
  BY <1>1, SpaceAssumption DEF SInv, CallState, VarsOK
<1> HIDE DEF s
<1>3. HInv' /\ LiveOK'
  BY <1>1, Untouched
<1>4. /\ s \in Addr
      /\ hdr[s].capacity \in Nat
      /\ block_after(s) \in Nat
      /\ block_after(s) <= MemSize
      /\ block_after(s) = s + HEADER + hdr[s].capacity
      /\ block_size(s) = HEADER + hdr[s].capacity
      /\ \A x \in Addr : s <= x /\ x < block_after(s) => x \in heapMem
  BY <1>1, BlockBytes
<1>5. regionStart \in Addr /\ block \in Addr
  BY <1>2 DEF SInv, HInv, WellFormed
<1>6. /\ regionSize' = regionSize + block_size(s)
      /\ regionSize' \in 0 .. SIZE_MOD - 1
      /\ regionStart + regionSize' = block_after(s)
      /\ regionStart <= s
  <2>0. PICK from, size, n, end, at : /\ from = regionStart /\ size = regionSize /\ at = block
                                      /\ n = block_size(s) /\ end = block_after(s)
    OBVIOUS
  <2>a. /\ from \in Nat /\ from > 0 /\ size \in Nat /\ n \in Nat /\ end \in Nat /\ s \in Nat
        /\ at \in Nat /\ from <= at
        /\ from + size = s /\ end = s + n /\ end <= MemSize
    <3>1. s \in Nat /\ from \in Nat /\ from > 0 /\ at \in Nat
      BY <1>4, <1>5, <2>0 DEF Addr
    <3>2. n \in Nat /\ end \in Nat /\ end <= MemSize /\ end = s + n
      <4>1. \A c \in Nat : end = s + HEADER + c /\ n = HEADER + c
              => n \in Nat /\ end = s + n
        BY <3>1, LayoutAssumption
      <4> QED
        BY <1>4, <2>0, <4>1
    <3>3. size \in Nat /\ from <= at /\ from + size = s
      BY <1>1, <1>2, <2>0
    <3> QED
      BY <3>1, <3>2, <3>3
  <2>b. from + (size + n) = end /\ size + n < SIZE_MOD /\ from <= s
    BY <2>a, LayoutAssumption, SpaceAssumption
  <2>1. regionSize + block_size(s) \in 0 .. SIZE_MOD - 1
    BY <2>0, <2>a, <2>b, SpaceAssumption
  <2>2. regionSize' = regionSize + block_size(s)
    BY <1>1, <2>1, WrapIdentity
  <2>3. regionStart + (regionSize + block_size(s)) = block_after(s) /\ regionStart <= s
    BY <2>0, <2>b
  <2> QED
    BY <2>1, <2>2, <2>3
<1>7. VarsOK'
  BY <1>1, <1>4, <1>6 DEF SInv, VarsOK, clientVars
<1>8. GrowthSuffices'
  BY <1>1 DEF GrowthSuffices
<1>9. CallState'
  <2>1. hdr' = hdr /\ heapMem' = heapMem /\ live' = live /\ regionStart' = regionStart
    BY <1>1 DEF heapVars, clientVars
  <2>2. block_after(block)' = block_after(s)
    BY <1>1, <2>1 DEF block_after, block_end
  <2>3. Bytes(regionStart, regionSize') \subseteq heapMem
    <3> SUFFICES ASSUME NEW x \in Int, regionStart <= x, x < regionStart + regionSize'
                 PROVE  x \in heapMem
      BY <1>5, <1>6, SpaceAssumption DEF Bytes, Addr
    <3>1. x \in Addr
      BY <1>4, <1>5, <1>6, SpaceAssumption DEF Addr
    <3>2. CASE x < s
      BY <1>1, <1>2, <1>5, <3>2, SpaceAssumption DEF Bytes, Addr
    <3>3. CASE s <= x
      BY <1>4, <1>6, <3>1, <3>3
    <3> QED
      BY <1>4, <3>2, <3>3, SpaceAssumption DEF Addr
  <2> QED
    BY <1>1, <1>2, <1>6, <2>1, <2>2, <2>3 DEF CallState
<1> QED
  BY <1>3, <1>7, <1>8, <1>9 DEF SInv

\* The span heap_term has measured: whole blocks and whole pages of the heap.
LEMMA SpanMeasured ==
  ASSUME SInv, SpanEnds
  PROVE  /\ block \in DOMAIN hdr
         /\ regionStart \in DOMAIN hdr
         /\ regionStart <= block
         /\ regionStart % PAGE = 0
         /\ regionSize \in Nat
         /\ regionSize % PAGE = 0
         /\ regionStart + regionSize = block_end(hdr, block)
         /\ Bytes(regionStart, regionSize) \subseteq heapMem
         /\ hdr[block].next % PAGE = 0
         /\ hdr[block].next \in Addr \union {NULL}
         /\ live = [p \in {} |-> 0]
<1>1. pc = "span" /\ hdr[block].next # block_after(block)
  BY DEF SpanEnds, SpanEndsTo
<1>2. /\ block \in DOMAIN hdr
      /\ regionStart \in DOMAIN hdr
      /\ regionStart % PAGE = 0
      /\ regionStart <= block
      /\ regionStart + regionSize = block_end(hdr, block)
      /\ Bytes(regionStart, regionSize) \subseteq heapMem
      /\ live = [p \in {} |-> 0]
      /\ regionSize \in Nat
  BY <1>1, SpaceAssumption DEF SInv, CallState, VarsOK, block_after
<1>3. WellFormed(hdr)
  BY DEF SInv, HInv
<1>4. /\ block_end(hdr, block) \in Nat
      /\ regionStart \in Nat
      /\ hdr[block].next \in Addr \union {NULL}
  BY <1>2, <1>3, BlockFacts DEF WellFormed, Header
<1>5. block_end(hdr, block) % PAGE = 0 /\ hdr[block].next % PAGE = 0
  BY <1>1, <1>2, <1>3 DEF WellFormed, block_after
<1>6. (block_end(hdr, block) - regionStart) % PAGE = 0
  BY <1>2, <1>4, <1>5, WholePages
<1>7. regionSize = block_end(hdr, block) - regionStart
  BY <1>2, <1>4
<1> QED
  BY <1>2, <1>4, <1>5, <1>6, <1>7

\* munmap of whole pages takes these pages.
LEMMA UnmapWholePages ==
  ASSUME NEW a, NEW n \in Nat, n % PAGE = 0
  PROVE  UnmapRange(a, n) = Bytes(a, n)
<1>1. PAGE \in Nat \ {0}
  BY LayoutAssumption
<1> DEFINE d == (n + PAGE - 1) \div PAGE
           i == n \div PAGE
<1>2. d \in Nat /\ PAGE * d <= n + PAGE - 1 /\ n + PAGE - 1 < PAGE * d + PAGE
  BY <1>1, SMTT(20)
<1>3. i \in Nat /\ n = PAGE * i
  BY <1>1, SMTT(20)
<1> HIDE DEF d, i
<1>4. d = i
  <2>1. PAGE * d < PAGE * (i + 1) /\ PAGE * i < PAGE * (d + 1)
    BY <1>1, <1>2, <1>3, SMTT(20)
  <2> QED
    BY <1>1, <1>2, <1>3, <2>1, SMTT(20)
<1>5. UnmapRange(a, n) = Bytes(a, PAGE * d)
  BY DEF UnmapRange, d
<1> QED
  BY <1>3, <1>4, <1>5

\* A span is unmapped: its blocks are gone, and nobody else's pages.
LEMMA SpanUnmapsStep ==
  ASSUME SInv, SpanUnmaps
  PROVE  SInv'
<1> DEFINE gone == Bytes(regionStart, regionSize)
<1>0. SpanEnds /\ degraded' = degraded
  BY DEF SpanUnmaps
<1>1. /\ block \in DOMAIN hdr
      /\ regionStart \in DOMAIN hdr
      /\ regionStart <= block
      /\ regionSize \in Nat
      /\ regionSize % PAGE = 0
      /\ regionStart + regionSize = block_end(hdr, block)
      /\ gone \subseteq heapMem
      /\ hdr[block].next % PAGE = 0
      /\ hdr[block].next \in Addr \union {NULL}
      /\ live = [p \in {} |-> 0]
  BY <1>0, SpanMeasured
<1>2. /\ block' = hdr[block].next
      /\ pc' = "term"
      /\ regionStart' = NULL
      /\ regionSize' = 0
      /\ UNCHANGED <<start, live, query, grown>>
  BY <1>0 DEF SpanEnds, SpanEndsTo
<1>3. /\ hdr' = Without(hdr, gone)
      /\ heapMem' = heapMem \ gone
      /\ otherMem' = otherMem \ gone
  BY <1>1, UnmapWholePages DEF SpanUnmaps, Without
<1> HIDE DEF gone
<1>4. WellFormed(hdr) /\ Covers(hdr, heapMem)
  BY DEF SInv, HInv
<1>5. WellFormed(hdr') /\ Covers(hdr', heapMem')
  <2>1. WellFormed(Without(hdr, gone))
    BY <1>1, <1>4, UnmapKeeps DEF gone
  <2>2. Covers(Without(hdr, gone), heapMem \ gone)
    BY <1>1, <1>4, UnmapKeeps DEF gone
  <2> QED
    BY <1>3, <2>1, <2>2
<1>6. HInv'
  BY <1>3, <1>5 DEF SInv, HInv
<1>7. LiveOK'
  BY <1>1, <1>2 DEF LiveOK
<1>8. VarsOK'
  <2>1. 0 \in 0 .. SIZE_MOD - 1
    BY LayoutAssumption, SpaceAssumption
  <2> QED
    BY <1>0, <1>1, <1>2, <2>1 DEF SInv, VarsOK
<1>9. GrowthSuffices' /\ CallState'
  BY <1>1, <1>2 DEF GrowthSuffices, CallState
<1> QED
  BY <1>6, <1>7, <1>8, <1>9 DEF SInv

\* A span whose munmap fails stays as it is.
LEMMA SpanStaysMappedStep ==
  ASSUME SInv, SpanStaysMapped
  PROVE  SInv'
<1>0. SpanEnds /\ degraded' = TRUE /\ UNCHANGED heapVars
  BY DEF SpanStaysMapped
<1>1. /\ hdr[block].next % PAGE = 0
      /\ hdr[block].next \in Addr \union {NULL}
      /\ live = [p \in {} |-> 0]
  BY <1>0, SpanMeasured
<1>2. /\ block' = hdr[block].next
      /\ pc' = "term"
      /\ regionStart' = NULL
      /\ regionSize' = 0
      /\ UNCHANGED <<start, live, query, grown>>
  BY <1>0 DEF SpanEnds, SpanEndsTo
<1>3. HInv' /\ LiveOK'
  BY <1>0, <1>2 DEF SInv, HInv, LiveOK, heapVars
<1>4. VarsOK'
  <2>1. 0 \in 0 .. SIZE_MOD - 1
    BY LayoutAssumption, SpaceAssumption
  <2> QED
    BY <1>0, <1>1, <1>2, <2>1 DEF SInv, VarsOK
<1>5. GrowthSuffices' /\ CallState'
  BY <1>1, <1>2 DEF GrowthSuffices, CallState
<1> QED
  BY <1>3, <1>4, <1>5 DEF SInv

-----------------------------------------------------------------------------
(* The theorems *)

\* Nothing is mapped at first.
LEMMA InitInv ==
  ASSUME Init
  PROVE  SInv
<1>1. 0 \in 0 .. SIZE_MOD - 1
  BY LayoutAssumption, SpaceAssumption
<1>2. DOMAIN hdr = {} /\ heapMem = {} /\ otherMem = {} /\ DOMAIN live = {}
  BY DEF Init
<1>3. HInv
  <2>1. WellFormed(hdr)
    BY <1>2 DEF Init, WellFormed
  <2> QED
    BY <1>2, <2>1 DEF HInv, Covers
<1>4. VarsOK
  BY <1>1, <1>2 DEF Init, VarsOK
<1>5. LiveOK /\ GrowthSuffices /\ CallState
  BY <1>2 DEF Init, LiveOK, GrowthSuffices, CallState
<1> QED
  BY <1>3, <1>4, <1>5 DEF SInv

\* The invariant is inductive: every step of every call keeps it.
LEMMA NextInv ==
  ASSUME SInv, [Next]_vars
  PROVE  SInv'
<1>1. ASSUME Step
      PROVE  SInv'
  <2>1. CASE SearchMerge \/ FreeMerge
    BY <2>1, MergeSteps
  <2>2. CASE SearchTakes
    BY <2>2, SearchTakesStep
  <2>3. CASE SearchAdvances
    BY <2>3, SearchAdvancesStep
  <2>4. CASE SearchExhausted
    BY <2>4, SearchExhaustedStep
  <2>5. CASE GrowHeap
    BY <2>5, GrowHeapStep
  <2>6. CASE TermEnters
    BY <2>6, TermEntersStep
  <2>7. CASE SpanExtends
    BY <2>7, SpanExtendsStep
  <2>8. CASE SpanUnmaps
    BY <2>8, SpanUnmapsStep
  <2>9. CASE SpanStaysMapped
    BY <2>9, SpanStaysMappedStep
  <2>10. CASE \/ SearchWild \/ TermWild
              \/ SearchGivesUp \/ GrowFails \/ FreeReturns \/ TermReturns
    BY <2>10, ReturnSteps
  <2> QED
    BY <1>1, <2>1, <2>2, <2>3, <2>4, <2>5, <2>6, <2>7, <2>8, <2>9, <2>10 DEF Step
<1>2. ASSUME Call
      PROVE  SInv'
  <2>1. ASSUME NEW q \in InitSizes, HeapInit(q)
        PROVE  SInv'
    BY <2>1, HeapInitStep
  <2>2. ASSUME NEW q \in Queries, MallocCall(q)
        PROVE  SInv'
    BY <2>2, MallocCallStep
  <2>3. ASSUME NEW p \in DOMAIN live, FreeCall(p)
        PROVE  SInv'
    BY <2>3, FreeCallStep
  <2>4. CASE HeapInitFails
    BY <2>4, StutterSteps
  <2>5. CASE TermCall
    BY <2>5, TermCallStep
  <2> QED
    BY <1>2, <2>1, <2>2, <2>3, <2>4, <2>5 DEF Call
<1>3. ASSUME Other
      PROVE  SInv'
  BY <1>3, OtherSteps DEF Other
<1>4. CASE Undefined \/ UNCHANGED vars
  BY <1>4, StutterSteps
<1> QED
  BY <1>1, <1>2, <1>3, <1>4 DEF Next

\* At every step of every call the heap is well formed, whatever the layout
\* constants, the memory, the sizes asked for and the placement of regions.
THEOREM HeapStaysWellFormed == Spec => []IInv
<1>1. Init => IInv
  BY InitInv, InvSplit
<1>2. IInv /\ [Next]_vars => IInv'
  BY NextInv, InvSplit
<1> QED
  BY <1>1, <1>2, PTL DEF Spec

\* Every variable keeps its type.
THEOREM TypeCorrect == Spec => []TypeOK
<1>1. IInv => TypeOK
  BY DEF IInv
<1> QED
  BY <1>1, HeapStaysWellFormed, PTL

\* The blocks are disjoint and are the mapped memory of the heap, to the byte.
THEOREM HeapIsTiled == Spec => []BlocksTileHeap
<1>1. IInv => BlocksTileHeap
  BY DEF IInv
<1> QED
  BY <1>1, HeapStaysWellFormed, PTL

\* What the client holds stays its own, and large enough, until it frees it.
THEOREM PointersStayBacked == Spec => []LivePointersBacked
<1>1. IInv => LivePointersBacked
  BY DEF IInv
<1> QED
  BY <1>1, HeapStaysWellFormed, PTL

\* grow_heap asks for enough: the second search succeeds at once.
THEOREM GrowthIsEnough == Spec => []GrowthSuffices
<1>1. IInv => GrowthSuffices
  BY DEF IInv
<1> QED
  BY <1>1, HeapStaysWellFormed, PTL

\* heap_term gives munmap whole pages of the heap, also after a failed munmap.
THEOREM TermUnmapsWholePages == Spec => UnmapsWholePages
<1>1. IInv /\ [Next]_vars
        => [SpanEnds => /\ regionStart % PAGE = 0
                        /\ regionSize % PAGE = 0
                        /\ Bytes(regionStart, regionSize) \subseteq heapMem]_vars
  BY InvSplit, SpanMeasured
<1> QED
  BY <1>1, HeapStaysWellFormed, PTL DEF Spec, UnmapsWholePages

-----------------------------------------------------------------------------
(* MemAllocator implements HeapSpec: with the heap's bytes for mem and the   *)
(* client's pointers for live, every step of the allocator is a step of      *)
(* HeapSpec or changes nothing HeapSpec sees.                                *)

\* A region is mapped: heap_init, or _malloc growing the heap.
LEMMA MappingGrows ==
  ASSUME SInv, SInv',
         heapMem \subseteq heapMem', otherMem' = otherMem, live' = live
  PROVE  Heap!Grow
  BY DEF SInv, HInv, Heap!Grow

\* The contents of the block a search takes are bytes of the heap that belong
\* to no pointer the client holds.
LEMMA TakingAllocates ==
  ASSUME SInv, SearchTakes
  PROVE  Heap!Next
<1> DEFINE p == contents(block)
<1>1. /\ block \in DOMAIN hdr
      /\ hdr[block].is_free
      /\ hdr[block].capacity >= normalize_query(query)
      /\ live' = [r \in DOMAIN live \union {p} |-> IF r = p THEN query ELSE live[r]]
      /\ UNCHANGED <<heapMem, otherMem>>
  BY DEF SearchTakes, Searching, Dangling, Good
<1>2. query \in Queries /\ query \in Nat
  BY SpaceAssumption DEF SearchTakes, Searching, SInv, CallState, VarsOK
<1>3. /\ block \in Addr
      /\ block \in Nat
      /\ hdr[block].capacity \in Nat
      /\ block_after(block) = block + HEADER + hdr[block].capacity
      /\ block_after(block) <= MemSize
      /\ \A x \in Addr : block <= x /\ x < block_after(block) => x \in heapMem
  BY <1>1, BlockBytes, SpaceAssumption DEF Addr
<1>4. hdr[block].capacity >= query
  BY <1>1, <1>2, <1>3, LayoutAssumption DEF normalize_query
<1>5. /\ p = block + HEADER
      /\ p \in Addr
      /\ p + query <= block_after(block)
  <2>1. hdr[block].capacity >= BLOCK_MIN_CAPACITY
    BY <1>1 DEF SInv, HInv, WellFormed
  <2> QED
    BY <1>2, <1>3, <1>4, <2>1, LayoutAssumption, SpaceAssumption DEF contents, Addr
<1> HIDE DEF p
<1>6. ASSUME NEW r \in DOMAIN live
      PROVE  /\ r # p
             /\ Heap!Bytes(p, query) \intersect Heap!Bytes(r, live[r]) = {}
  <2> DEFINE b == block_get_header(r)
  <2>1. /\ b \in DOMAIN hdr
        /\ ~hdr[b].is_free
        /\ hdr[b].capacity >= live[r]
        /\ r \in Addr
        /\ b = r - HEADER
        /\ live[r] \in Nat
    BY <1>6, ClientAssumption, SpaceAssumption
    DEF SInv, LiveOK, VarsOK, block_get_header
  <2> HIDE DEF b
  <2>2. /\ b \in Nat
        /\ hdr[b].capacity \in Nat
        /\ block_after(b) = b + HEADER + hdr[b].capacity
    BY <2>1, BlockBytes, SpaceAssumption DEF Addr
  <2>3. b # block
    BY <1>1, <2>1
  <2>4. block_after(block) <= b \/ block_after(b) <= block
    BY <1>1, <1>3, <2>1, <2>2, <2>3 DEF SInv, HInv, WellFormed, block_after
  <2>5. r # p
    BY <1>3, <1>5, <2>1, <2>2, <2>3, LayoutAssumption
  <2>6. /\ r = b + HEADER
        /\ r + live[r] <= block_after(b)
    BY <2>1, <2>2, LayoutAssumption, SpaceAssumption DEF Addr
  <2>7. ASSUME NEW x \in Addr, p <= x, x < p + query, r <= x, x < r + live[r]
        PROVE  FALSE
    <3>1. x \in Nat /\ block < p /\ b < r
      BY <1>3, <1>5, <2>2, <2>6, LayoutAssumption, SpaceAssumption DEF Addr
    <3>2. block <= x /\ x < block_after(block)
      BY <1>2, <1>3, <1>5, <2>7, <3>1, SpaceAssumption DEF Addr
    <3>3. b <= x /\ x < block_after(b)
      BY <2>1, <2>2, <2>6, <2>7, <3>1, SpaceAssumption DEF Addr
    <3> QED
      BY <1>3, <2>2, <2>4, <3>1, <3>2, <3>3, LayoutAssumption
  <2> QED
    BY <2>5, <2>7 DEF Heap!Bytes
<1>7. Heap!Bytes(p, query) \subseteq heapMem
  <2> SUFFICES ASSUME NEW x \in Addr, p <= x, x < p + query
               PROVE  x \in heapMem
    BY DEF Heap!Bytes
  <2> QED
    BY <1>2, <1>3, <1>5, LayoutAssumption, SpaceAssumption DEF Addr
<1>8. Heap!Allocate(p, query)
  BY <1>1, <1>6, <1>7 DEF Heap!Allocate, p
<1> QED
  BY <1>2, <1>5, <1>8 DEF Heap!Next

\* Every step of the allocator, its client or the rest of the process is one
\* HeapSpec allows.
LEMMA StepRefines ==
  ASSUME SInv, SInv', [Next]_vars
  PROVE  [Heap!Next]_(Heap!vars)
<1> USE DEF Heap!vars
<1>1. CASE \E q \in InitSizes : HeapInit(q)
  BY <1>1, MappingGrows DEF HeapInit, Heap!Next
<1>2. CASE GrowHeap
  BY <1>2, MappingGrows DEF GrowHeap, clientVars, Heap!Next
<1>3. CASE SearchTakes
  BY <1>3, TakingAllocates
<1>4. ASSUME NEW p \in DOMAIN live, FreeCall(p)
      PROVE  Heap!Next
  BY <1>4 DEF FreeCall, Heap!Next, Heap!Release
<1>5. CASE TermCall
  BY <1>5 DEF TermCall, heapVars, Heap!Next, Heap!Terminate
<1>6. CASE SpanUnmaps
  <2>1. SpanEnds
    BY <1>6 DEF SpanUnmaps
  <2>2. /\ regionSize \in Nat
        /\ regionSize % PAGE = 0
        /\ Bytes(regionStart, regionSize) \subseteq heapMem
        /\ live = [p \in {} |-> 0]
    BY <2>1, SpanMeasured
  <2>3. /\ heapMem' = heapMem \ Bytes(regionStart, regionSize)
        /\ otherMem' = otherMem \ Bytes(regionStart, regionSize)
    BY <1>6, <2>2, UnmapWholePages DEF SpanUnmaps
  <2>4. otherMem' = otherMem
    BY <2>2, <2>3 DEF SInv, HInv
  <2>5. live' = live
    BY <2>1 DEF SpanEnds, SpanEndsTo
  <2> QED
    BY <2>2, <2>3, <2>4, <2>5 DEF Heap!Next, Heap!Shrink
<1>7. CASE Other
  BY <1>7 DEF Other, OtherMaps, OtherUnmaps, clientVars, SInv, HInv, Heap!Next,
              Heap!OtherMapping
<1>8. CASE \/ SearchMerge \/ FreeMerge \/ SearchAdvances \/ SearchExhausted
           \/ SearchGivesUp \/ GrowFails \/ FreeReturns \/ TermReturns
           \/ SearchWild \/ TermWild \/ HeapInitFails
           \/ (\E q \in Queries : MallocCall(q))
           \/ TermEnters \/ SpanExtends \/ SpanStaysMapped \/ Undefined
           \/ UNCHANGED vars
  BY <1>8 DEF SearchMerge, FreeMerge, SearchAdvances, SearchExhausted, SearchGivesUp,
              GrowFails, FreeReturns, TermReturns, SearchWild, TermWild,
              Wild, HeapInitFails, MallocCall, TermEnters, SpanExtends, SpanExtendsBy,
              SpanStaysMapped, SpanEnds, SpanEndsTo, Undefined, vars, heapVars,
              clientVars
<1> QED
  BY <1>1, <1>2, <1>3, <1>4, <1>5, <1>6, <1>7, <1>8 DEF Next, Step, Call

\* The allocator keeps its promise: it lends disjoint intervals of its own
\* bytes, never takes them back from the client, and maps and unmaps only
\* pages of its own.
THEOREM AllocatorImplementsHeap == Spec => HeapPromise
<1>1. Init => Heap!Init
  BY DEF Init, Heap!Init
<1>2. IInv /\ IInv' /\ [Next]_vars => [Heap!Next]_(Heap!vars)
  BY InvSplit, StepRefines
<1> QED
  BY <1>1, <1>2, HeapStaysWellFormed, PTL DEF Spec, HeapPromise, Heap!Spec

-----------------------------------------------------------------------------
(* Links *)

\* Links are kept when block b swallows the block s it links to.
LEMMA LinksMerge ==
  ASSUME NEW h, Links(h), NEW b \in DOMAIN h,
         h[b].next \in DOMAIN h, h[b].next # NULL, h[b].next # b,
         NEW g,
         DOMAIN g = DOMAIN h \ {h[b].next},
         g[b].next = h[h[b].next].next,
         \A a \in DOMAIN g \ {b} : g[a].next = h[a].next
  PROVE  Links(g)
<1> DEFINE s == h[b].next
<1>1. \A a \in DOMAIN h \ {b} : h[a].next # s
  BY DEF Links
<1>2. ASSUME NEW a \in DOMAIN g
      PROVE  g[a].next \in DOMAIN g \union {NULL} /\ g[a].next # HEAP_START
  BY <1>1 DEF Links
<1>3. ASSUME NEW a \in DOMAIN g, NEW d \in DOMAIN g, g[a].next = g[d].next, g[a].next # NULL
      PROVE  a = d
  BY <1>3 DEF Links
<1> QED
  BY <1>2, <1>3 DEF Links

\* Links are kept when block b is cut and its rest at n takes over its link.
LEMMA LinksSplit ==
  ASSUME NEW h, NEW g, NEW b \in DOMAIN h, NEW n, Links(h),
         n \notin DOMAIN h, n # NULL, n # HEAP_START,
         DOMAIN g = DOMAIN h \union {n},
         g[b].next = n,
         g[n].next = h[b].next,
         \A a \in DOMAIN h \ {b} : g[a].next = h[a].next
  PROVE  Links(g)
<1>1. \A a \in DOMAIN h : h[a].next # n
  BY DEF Links
<1>2. ASSUME NEW a \in DOMAIN g
      PROVE  g[a].next \in DOMAIN g \union {NULL} /\ g[a].next # HEAP_START
  BY DEF Links
<1>3. ASSUME NEW a \in DOMAIN g, NEW d \in DOMAIN g, g[a].next = g[d].next, g[a].next # NULL
      PROVE  a = d
  BY <1>1, <1>3 DEF Links
<1> QED
  BY <1>2, <1>3 DEF Links

\* Links are kept when they and the blocks stay the same.
LEMMA LinksSame ==
  ASSUME NEW h, NEW g, Links(h), DOMAIN g = DOMAIN h,
         \A a \in DOMAIN h : g[a].next = h[a].next
  PROVE  Links(g)
  BY DEF Links

\* Blocks are at addresses, which NULL is not.
LEMMA NotNull ==
  ASSUME SInv, NEW b \in DOMAIN hdr
  PROVE  b \in Addr /\ b \in Nat /\ b > 0
  BY SpaceAssumption DEF SInv, HInv, WellFormed, Addr

\* A new region does not begin where a block does.
LEMMA RegionIsNew ==
  ASSUME SInv, NEW r \in Addr, NEW n \in Nat, n > 0, Available(r, n)
  PROVE  r \notin DOMAIN hdr
<1>1. r \in Bytes(r, n)
  BY SpaceAssumption DEF Bytes, Addr
<1>2. r \in DOMAIN hdr => r \in heapMem
  BY BlockBytes, LayoutAssumption, SpaceAssumption DEF Addr
<1> QED
  BY <1>1, <1>2 DEF Available

-----------------------------------------------------------------------------
(* What the actions do to the links *)

\* No read goes astray.
LEMMA NoWildStep ==
  ASSUME SInv, LinkInv, ~degraded
  PROVE  ~SearchWild /\ ~TermWild
<1>1. ~SearchWild
  BY DEF LinkInv, Links, SearchWild, Dangling
<1>2. ~TermWild
  <2>1. ~(pc = "term" /\ block # NULL /\ block \notin DOMAIN hdr)
    BY DEF LinkInv
  <2>2. ~(pc = "span" /\ hdr[block].next \notin DOMAIN hdr
                      /\ hdr[block].next = block_after(block))
    <3> SUFFICES ASSUME pc = "span", hdr[block].next \notin DOMAIN hdr,
                        hdr[block].next = block_after(block)
                 PROVE  FALSE
      OBVIOUS
    <3>1. block \in DOMAIN hdr
      BY DEF SInv, CallState
    <3>2. hdr[block].next = 0
      BY <3>1 DEF LinkInv, Links
    <3>3. block_after(block) = block + HEADER + hdr[block].capacity
          /\ hdr[block].capacity \in Nat /\ block \in Addr
      BY <3>1, BlockBytes
    <3>4. block_after(block) = 0
      BY <3>2
    <3> QED
      BY <3>3, <3>4, LayoutAssumption, SpaceAssumption DEF Addr
  <2> QED
    BY <2>1, <2>2 DEF TermWild
<1> QED
  BY <1>1, <1>2

\* heap_init: the first block, linked to nothing.
LEMMA HeapInitLinks ==
  ASSUME SInv, LinkInv, ~degraded', NEW q \in InitSizes, HeapInit(q)
  PROVE  LinkInv'
<1> DEFINE n == region_size_for(q)
<1>1. PICK r \in Placements(HEAP_START, n) :
        /\ hdr' = [a \in DOMAIN hdr \union {r} |->
                     IF a = r THEN NewHeader(n, NULL) ELSE hdr[a]]
        /\ start' = r
        /\ degraded' = (degraded \/ r # HEAP_START)
  BY DEF HeapInit
<1>2. pc = "idle" /\ start = NULL /\ UNCHANGED <<live, pc>>
  BY DEF HeapInit, locals
<1>3. ~degraded /\ r = HEAP_START
  BY <1>1
<1>4. n \in Nat /\ n > 0
  BY RegionSize, ClientAssumption, LayoutAssumption, SpaceAssumption
<1> HIDE DEF n
<1>5. r \notin DOMAIN hdr
  <2>1. Available(r, n)
    BY <1>1 DEF Placements
  <2> QED
    BY <1>3, <1>4, <2>1, RegionIsNew, SpaceAssumption
<1>6. /\ DOMAIN hdr' = DOMAIN hdr \union {r}
      /\ hdr'[r].next = NULL
      /\ \A a \in DOMAIN hdr : hdr'[a].next = hdr[a].next
  BY <1>1, <1>5 DEF NewHeader
<1>7. Links(hdr)
  BY <1>3 DEF LinkInv
<1>8. Links(hdr')
  <2>1. HEAP_START # NULL
    BY SpaceAssumption DEF Addr
  <2> QED
    BY <1>3, <1>6, <1>7, <2>1 DEF Links
<1> QED
  BY <1>1, <1>2, <1>3, <1>6, <1>8, SpaceAssumption DEF LinkInv, Addr

\* A merge in a search or in _free.
LEMMA MergeLinks ==
  ASSUME SInv, LinkInv, ~degraded, SearchMerge \/ FreeMerge
  PROVE  LinkInv'
<1> DEFINE s == hdr[block].next
<1>1. /\ pc \in {"find", "free"}
      /\ ~Dangling(block)
      /\ mergeable(hdr, block)
      /\ hdr' = Merge(hdr, block)
      /\ UNCHANGED <<clientVars, pc, block>>
  BY DEF SearchMerge, FreeMerge, Searching, locals
<1>2. /\ block \in DOMAIN hdr
      /\ s \in DOMAIN hdr
      /\ s # NULL
      /\ s = block_end(hdr, block)
      /\ start # NULL
      /\ Links(hdr)
      /\ HEAP_START \in DOMAIN hdr
  BY <1>1 DEF Dangling, mergeable, LinkInv, SInv, CallState
<1>3. WellFormed(hdr)
  BY DEF SInv, HInv
<1>4. s # block
  <2>1. block_end(hdr, block) \in Nat /\ block \in Nat /\ block + HEADER < block_end(hdr, block)
    BY <1>2, <1>3, BlockFacts
  <2> QED
    BY <1>2, <2>1, LayoutAssumption
<1>5. /\ DOMAIN hdr' = DOMAIN hdr \ {s}
      /\ hdr'[block].next = hdr[s].next
      /\ \A a \in DOMAIN hdr \ {block, s} : hdr'[a] = hdr[a]
  <2>1. DOMAIN Merge(hdr, block) = DOMAIN hdr \ {s}
    BY DEF Merge, MergeInto
  <2>2. Merge(hdr, block)[block].next = hdr[s].next
    BY <1>1, <1>2, <1>3, MergeKeeps
  <2>3. \A a \in DOMAIN hdr \ {block, s} : Merge(hdr, block)[a] = hdr[a]
    BY DEF Merge, MergeInto
  <2> QED
    BY <1>1, <2>1, <2>2, <2>3
<1>6. \A a \in DOMAIN hdr' \ {block} : hdr'[a].next = hdr[a].next
  BY <1>5
<1>7. Links(hdr')
  BY <1>2, <1>4, <1>5, <1>6, LinksMerge
<1>8. HEAP_START \in DOMAIN hdr' /\ block \in DOMAIN hdr'
  BY <1>2, <1>4, <1>5 DEF Links
<1> QED
  BY <1>1, <1>2, <1>7, <1>8 DEF LinkInv, clientVars

\* A search takes a block.
LEMMA TakesLinks ==
  ASSUME SInv, LinkInv, ~degraded, SearchTakes
  PROVE  LinkInv'
<1> DEFINE q == normalize_query(query)
           h == IF block_splittable(block, q) THEN Split(block, q) ELSE hdr
<1>1. /\ pc = "find"
      /\ block \in DOMAIN hdr
      /\ hdr[block].capacity >= q
      /\ hdr' = Taken(h, block)
      /\ pc' = "idle"
      /\ start' = start
  BY DEF SearchTakes, Searching, Dangling, Good, Taken, Return
<1>2. /\ start # NULL
      /\ Links(hdr)
      /\ HEAP_START \in DOMAIN hdr
      /\ WellFormed(hdr)
  BY <1>1 DEF LinkInv, SInv, HInv
<1>3. q \in Nat /\ q >= BLOCK_MIN_CAPACITY
  BY LayoutAssumption, SpaceAssumption DEF SInv, VarsOK, normalize_query
<1>4. /\ WellFormed(h)
      /\ Links(h)
      /\ DOMAIN hdr \subseteq DOMAIN h
  <2>1. CASE block_splittable(block, q)
    <3> DEFINE n == contents(block) + q
    <3>1. h = Split(block, q)
      BY <2>1
    <3>2. q <= hdr[block].capacity
      BY <1>1, <1>2, <1>3, BlockFacts
    <3> HIDE DEF q, h
    <3>3. /\ WellFormed(h)
          /\ DOMAIN h = DOMAIN hdr \union {n}
          /\ n \notin DOMAIN hdr
          /\ h[block].next = n
          /\ h[n].next = hdr[block].next
          /\ \A a \in DOMAIN hdr \ {block} : h[a] = hdr[a]
      BY <1>1, <1>2, <1>3, <2>1, <3>1, <3>2, SplitKeeps
    <3>4. n # NULL
      BY <3>3, SpaceAssumption DEF WellFormed, Addr
    <3> HIDE DEF n
    <3>5. n # HEAP_START
      BY <1>2, <3>3
    <3> QED
      BY <1>1, <1>2, <3>3, <3>4, <3>5, LinksSplit
  <2>2. CASE ~block_splittable(block, q)
    <3>1. h = hdr
      BY <2>2
    <3> HIDE DEF h
    <3> QED
      BY <1>2, <3>1
  <2> QED
    BY <2>1, <2>2
<1> HIDE DEF h
<1>5. /\ DOMAIN hdr' = DOMAIN h
      /\ hdr'[block].next = h[block].next
      /\ \A a \in DOMAIN h \ {block} : hdr'[a] = h[a]
  BY <1>1, <1>4, MarkTakenKeeps
<1>6. Links(hdr')
  <2>1. \A a \in DOMAIN h : hdr'[a].next = h[a].next
    BY <1>5
  <2> QED
    BY <1>4, <1>5, <2>1, LinksSame
<1> QED
  BY <1>1, <1>2, <1>4, <1>5, <1>6 DEF LinkInv

\* The heap grows behind its last block.
LEMMA GrowLinks ==
  ASSUME SInv, LinkInv, ~degraded, GrowHeap
  PROVE  LinkInv'
<1> DEFINE n == region_size_for(normalize_query(query))
<1>1. PICK r \in Placements(block_after(block), n) :
        IF mergeable(Linked(block, r, n), block)
        THEN hdr' = Merge(Linked(block, r, n), block) /\ block' = block
        ELSE hdr' = Linked(block, r, n) /\ block' = r
  BY DEF GrowHeap
<1> DEFINE k == Linked(block, r, n)
<1>2. /\ pc = "grow" /\ pc' = "find"
      /\ UNCHANGED clientVars
  BY DEF GrowHeap
<1>3. /\ block \in DOMAIN hdr
      /\ hdr[block].next = NULL
      /\ start # NULL
      /\ Links(hdr)
      /\ HEAP_START \in DOMAIN hdr
      /\ WellFormed(hdr)
  BY <1>2 DEF SInv, HInv, CallState, LinkInv
<1>4. n \in Nat /\ n > 0
  <2>1. normalize_query(query) \in 0 .. SIZE_MOD - 1
    BY LayoutAssumption, SpaceAssumption DEF SInv, VarsOK, normalize_query
  <2> QED
    BY <2>1, RegionSize, LayoutAssumption, SpaceAssumption
<1> HIDE DEF n
<1>5. r \in Addr /\ Available(r, n)
  <2>1. block_after(block) \in Nat /\ block_after(block) > 0
    BY <1>3, BlockBytes, LayoutAssumption, SpaceAssumption DEF Addr
  <2> QED
    BY <1>4, <2>1, SpaceAssumption DEF Placements, Available, Addr
<1>6. r \notin DOMAIN hdr /\ r # NULL /\ r # HEAP_START
  BY <1>3, <1>4, <1>5, RegionIsNew, SpaceAssumption DEF Addr
<1>7. /\ DOMAIN k = DOMAIN hdr \union {r}
      /\ k[r].next = NULL
      /\ k[block].next = r
      /\ \A a \in DOMAIN hdr \ {block} : k[a].next = hdr[a].next
  <2>1. hdr[block] = [next |-> hdr[block].next, capacity |-> hdr[block].capacity,
                      is_free |-> hdr[block].is_free]
    BY <1>3, BlockFacts
  <2>2. k[block] = [hdr[block] EXCEPT !.next = r]
    BY <1>3, <1>6 DEF Linked
  <2>3. /\ DOMAIN k = DOMAIN hdr \union {r}
        /\ k[r].next = NULL
        /\ \A a \in DOMAIN hdr \ {block} : k[a].next = hdr[a].next
    BY <1>3, <1>6 DEF Linked, NewHeader
  <2> HIDE DEF k
  <2>4. k[block].next = r
    BY <2>1, <2>2
  <2> QED
    BY <2>3, <2>4
<1> HIDE DEF k
<1>8. Links(k)
  BY <1>3, <1>6, <1>7, LinksSplit
<1>9. /\ Links(hdr')
      /\ HEAP_START \in DOMAIN hdr'
      /\ block' \in DOMAIN hdr'
  <2>1. CASE mergeable(k, block)
    <3>1. hdr' = Merge(k, block) /\ block' = block
      BY <1>1, <2>1 DEF k
    <3>2. /\ DOMAIN hdr' = DOMAIN k \ {r}
          /\ hdr'[block] = [k[block] EXCEPT
                  !.capacity = Wrap(@ + size_from_capacity(k[r].capacity)),
                  !.next = k[r].next]
          /\ \A a \in DOMAIN k \ {block, r} : hdr'[a] = k[a]
      BY <1>3, <1>6, <1>7, <3>1 DEF Merge, MergeInto
    <3>3. hdr'[block].next = k[r].next
      <4>1. k[block] = [next |-> r, capacity |-> hdr[block].capacity,
                        is_free |-> hdr[block].is_free]
        <5>1. hdr[block] = [next |-> hdr[block].next, capacity |-> hdr[block].capacity,
                            is_free |-> hdr[block].is_free]
          BY <1>3, BlockFacts
        <5>2. k[block] = [hdr[block] EXCEPT !.next = r]
          BY <1>3, <1>6 DEF Linked, k
        <5> QED
          BY <5>1, <5>2
      <4> QED
        BY <3>2, <4>1
    <3>4. block \in DOMAIN k /\ r \in DOMAIN k /\ r # block
      BY <1>3, <1>6, <1>7
    <3>5. /\ k[block].next \in DOMAIN k
          /\ k[block].next # NULL
          /\ k[block].next # block
          /\ DOMAIN hdr' = DOMAIN k \ {k[block].next}
          /\ hdr'[block].next = k[k[block].next].next
          /\ \A a \in DOMAIN hdr' \ {block} : hdr'[a].next = k[a].next
      BY <1>6, <1>7, <3>2, <3>3, <3>4
    <3>6. Links(hdr')
      BY <1>8, <3>4, <3>5, LinksMerge
    <3> QED
      BY <1>3, <1>6, <1>7, <3>1, <3>2, <3>6
  <2>2. CASE ~mergeable(k, block)
    <3>1. hdr' = k /\ block' = r
      BY <1>1, <2>2 DEF k
    <3> QED
      BY <1>3, <1>7, <1>8, <3>1
  <2> QED
    BY <2>1, <2>2
<1> QED
  BY <1>2, <1>3, <1>9 DEF LinkInv, clientVars

\* _free: the block it starts with is one of the heap.
LEMMA FreeCallLinks ==
  ASSUME SInv, LinkInv, ~degraded, NEW p \in DOMAIN live, FreeCall(p)
  PROVE  LinkInv'
<1> DEFINE b == block_get_header(p)
<1>1. /\ hdr' = Freed(hdr, b)
      /\ pc' = "free"
      /\ start' = start
  BY DEF FreeCall, Freed
<1>2. b \in DOMAIN hdr /\ WellFormed(hdr)
  BY DEF SInv, HInv, LiveOK
<1>3. start # NULL /\ Links(hdr) /\ HEAP_START \in DOMAIN hdr
  BY DEF LinkInv
<1> HIDE DEF b
<1>4. /\ DOMAIN hdr' = DOMAIN hdr
      /\ hdr'[b].next = hdr[b].next
      /\ \A a \in DOMAIN hdr \ {b} : hdr'[a] = hdr[a]
  BY <1>1, <1>2, MarkFreeKeeps
<1>5. \A a \in DOMAIN hdr : hdr'[a].next = hdr[a].next
  BY <1>4
<1>6. Links(hdr')
  BY <1>3, <1>4, <1>5, LinksSame
<1> QED
  BY <1>1, <1>3, <1>4, <1>6 DEF LinkInv

\* Steps of _malloc and _free that leave the headers alone.
LEMMA QuietLinks ==
  ASSUME SInv, LinkInv, ~degraded,
         \/ SearchAdvances \/ SearchExhausted \/ SearchGivesUp \/ GrowFails
         \/ FreeReturns \/ TermReturns \/ HeapInitFails \/ Other \/ UNCHANGED vars
         \/ \E q \in Queries : MallocCall(q)
  PROVE  LinkInv'
<1>1. CASE SearchAdvances
  <2>1. /\ pc = "find" /\ block \in DOMAIN hdr /\ hdr[block].next # NULL
        /\ block' = hdr[block].next
        /\ UNCHANGED <<heapVars, clientVars, pc>>
    BY <1>1 DEF SearchAdvances, SearchPasses, Searching, Dangling
  <2>2. hdr[block].next \in DOMAIN hdr
    BY <2>1 DEF LinkInv, Links
  <2> QED
    BY <2>1, <2>2 DEF LinkInv, heapVars, clientVars
<1>2. CASE SearchExhausted
  BY <1>2 DEF SearchExhausted, SearchPasses, Searching, LinkInv, heapVars, clientVars, locals
<1>3. CASE SearchGivesUp \/ GrowFails \/ FreeReturns \/ TermReturns
  BY <1>3 DEF SearchGivesUp, GrowFails, FreeReturns, TermReturns, Return, LinkInv,
              heapVars, clientVars
<1>4. CASE HeapInitFails \/ UNCHANGED vars
  BY <1>4 DEF HeapInitFails, LinkInv, vars, heapVars, clientVars, locals
<1>5. CASE Other
  BY <1>5 DEF Other, OtherMaps, OtherUnmaps, LinkInv, clientVars, locals
<1>6. CASE \E q \in Queries : MallocCall(q)
  BY <1>6 DEF MallocCall, LinkInv, heapVars, clientVars
<1> QED
  BY <1>1, <1>2, <1>3, <1>4, <1>5, <1>6

\* heap_term enters a region, and its span grows along the chain.
LEMMA SpanLinks ==
  ASSUME SInv, LinkInv, ~degraded, TermCall \/ TermEnters \/ SpanExtends
  PROVE  LinkInv'
<1>1. CASE TermCall
  BY <1>1 DEF TermCall, LinkInv, Links, heapVars
<1>2. CASE TermEnters
  <2>1. /\ pc = "term" /\ block \in DOMAIN hdr
        /\ regionStart' = block
        /\ pc' = "span"
        /\ UNCHANGED <<heapVars, clientVars, block>>
    BY <1>2 DEF TermEnters
  <2>2. \A a \in DOMAIN hdr : hdr[a].next # block
    BY <2>1, NotNull DEF LinkInv
  <2>3. \A b \in DOMAIN hdr : ~(block < b /\ b <= block)
    BY <2>1, NotNull
  <2> QED
    BY <2>1, <2>2, <2>3 DEF LinkInv, heapVars, clientVars
<1>3. CASE SpanExtends
  <2> DEFINE s == hdr[block].next
  <2>1. /\ pc = "span"
        /\ s \in DOMAIN hdr
        /\ s = block_after(block)
        /\ block' = s
        /\ UNCHANGED <<heapVars, clientVars, pc, regionStart>>
    BY <1>3 DEF SpanExtends, SpanExtendsBy
  <2>2. block \in DOMAIN hdr /\ regionStart \in DOMAIN hdr /\ regionStart <= block
    BY <2>1 DEF SInv, CallState
  <2>3. block < s
    BY <2>1, <2>2, BlockBytes, LayoutAssumption, SpaceAssumption DEF Addr
  <2>4. ASSUME NEW b \in DOMAIN hdr, regionStart < b, b <= s
        PROVE  \E a \in DOMAIN hdr : regionStart <= a /\ a < b /\ hdr[a].next = b
    <3>1. CASE b <= block
      BY <2>1, <2>4, <3>1 DEF LinkInv
    <3>2. CASE b > block
      <4>1. block_after(block) <= b
        BY <2>2, <3>2, NotNull DEF SInv, HInv, WellFormed, block_after
      <4>2. b = s
        BY <2>1, <2>4, <4>1, NotNull
      <4> QED
        BY <2>2, <2>3, <4>2
    <3> QED
      BY <2>2, <3>1, <3>2, NotNull
  <2>5. \A b \in DOMAIN hdr : hdr[b].next # regionStart
    BY <2>1 DEF LinkInv
  <2> QED
    BY <2>1, <2>4, <2>5 DEF LinkInv, heapVars, clientVars
<1> QED
  BY <1>1, <1>2, <1>3

\* A span is unmapped: no link leads into it from what is left.
LEMMA UnmapLinks ==
  ASSUME SInv, LinkInv, ~degraded, SpanUnmaps
  PROVE  LinkInv'
<1> DEFINE gone == Bytes(regionStart, regionSize)
<1>1. SpanEnds
  BY DEF SpanUnmaps
<1>2. /\ block \in DOMAIN hdr
      /\ regionStart \in DOMAIN hdr
      /\ regionStart <= block
      /\ regionSize \in Nat
      /\ regionSize % PAGE = 0
      /\ regionStart + regionSize = block_end(hdr, block)
      /\ live = [p \in {} |-> 0]
  BY <1>1, SpanMeasured
<1>3. /\ pc = "span"
      /\ block' = hdr[block].next
      /\ pc' = "term"
      /\ UNCHANGED <<start, live>>
  BY <1>1 DEF SpanEnds, SpanEndsTo
<1>4. hdr' = [a \in DOMAIN hdr \ gone |-> hdr[a]]
  BY <1>2, UnmapWholePages DEF SpanUnmaps
<1>5. /\ Links(hdr)
      /\ \A b \in DOMAIN hdr :
           /\ hdr[b].next # regionStart
           /\ regionStart < b /\ b <= block
                => \E a \in DOMAIN hdr : regionStart <= a /\ a < b /\ hdr[a].next = b
  BY <1>3 DEF LinkInv
<1>6. \A b \in DOMAIN hdr : b \in gone <=> regionStart <= b /\ b <= block
  <2> TAKE b \in DOMAIN hdr
  <2>1. /\ b \in Nat /\ block \in Nat /\ regionStart \in Nat
    BY <1>2, NotNull
  <2>2. block_end(hdr, block) \in Nat /\ block < block_end(hdr, block)
    BY <1>2, BlockFacts, LayoutAssumption DEF SInv, HInv
  <2>3. block < b => block_end(hdr, block) <= b
    BY <1>2 DEF SInv, HInv, WellFormed
  <2> QED
    BY <1>2, <2>1, <2>2, <2>3 DEF Bytes
<1> HIDE DEF gone
<1>7. ASSUME NEW b \in DOMAIN hdr, b \in gone,
             NEW a \in DOMAIN hdr, hdr[a].next = b
      PROVE  a \in gone /\ a < block
  <2>1. regionStart < b /\ b <= block
    <3>1. b # regionStart
      BY <1>5, <1>7
    <3> QED
      BY <1>2, <1>6, <1>7, <3>1, NotNull
  <2>2. PICK c \in DOMAIN hdr : regionStart <= c /\ c < b /\ hdr[c].next = b
    BY <1>5, <2>1
  <2>3. a = c
    BY <1>5, <1>7, <2>2, NotNull DEF Links
  <2> QED
    BY <1>2, <1>6, <2>1, <2>2, <2>3, NotNull
<1>8. /\ DOMAIN hdr' = DOMAIN hdr \ gone
      /\ \A a \in DOMAIN hdr' : hdr'[a].next = hdr[a].next
  BY <1>4
<1>9. Links(hdr')
  BY <1>5, <1>7, <1>8 DEF Links
<1>10. block' \in DOMAIN hdr' \union {NULL}
  BY <1>2, <1>3, <1>5, <1>7, <1>8, NotNull DEF Links
<1>11. \A a \in DOMAIN hdr' : hdr'[a].next = block' => block' = NULL
  <2> SUFFICES ASSUME NEW a \in DOMAIN hdr', hdr'[a].next = block', block' # NULL
               PROVE  FALSE
    OBVIOUS
  <2>1. a \in DOMAIN hdr /\ hdr[a].next = hdr[block].next
    BY <1>3, <1>8
  <2>2. a = block
    BY <1>2, <1>3, <1>5, <2>1 DEF Links
  <2> QED
    BY <1>2, <1>6, <1>8, <2>2, NotNull
<1>12. start' = NULL
  BY <1>3 DEF LinkInv
<1> QED
  BY <1>2, <1>3, <1>9, <1>10, <1>11, <1>12 DEF LinkInv

-----------------------------------------------------------------------------
\* Every step keeps the links.
LEMMA NextLinks ==
  ASSUME SInv, LinkInv, [Next]_vars
  PROVE  LinkInv'
<1> SUFFICES ASSUME ~degraded'
             PROVE  LinkInv'
  BY DEF LinkInv
<1>1. ASSUME NEW q \in InitSizes, HeapInit(q)
      PROVE  LinkInv'
  BY <1>1, HeapInitLinks
<1>2. CASE SpanStaysMapped
  BY <1>2 DEF SpanStaysMapped
<1>3. CASE Step /\ ~SpanStaysMapped
  <2>1. ~degraded
    BY <1>3 DEF Step, SearchWild, SearchMerge, SearchTakes, SearchAdvances,
       SearchExhausted, SearchGivesUp, GrowHeap, GrowFails, FreeMerge,
       FreeReturns, TermWild, TermEnters, SpanExtends, SpanExtendsBy, SpanUnmaps,
       TermReturns, Wild, clientVars
  <2>2. ~SearchWild /\ ~TermWild
    BY <2>1, NoWildStep
  <2>3. CASE SearchMerge \/ FreeMerge
    BY <2>1, <2>3, MergeLinks
  <2>4. CASE SearchTakes
    BY <2>1, <2>4, TakesLinks
  <2>5. CASE GrowHeap
    BY <2>1, <2>5, GrowLinks
  <2>6. CASE \/ SearchAdvances \/ SearchExhausted \/ SearchGivesUp \/ GrowFails
             \/ FreeReturns \/ TermReturns
    BY <2>1, <2>6, QuietLinks
  <2>7. CASE TermEnters \/ SpanExtends
    BY <2>1, <2>7, SpanLinks
  <2>8. CASE SpanUnmaps
    BY <2>1, <2>8, UnmapLinks
  <2> QED
    BY <1>3, <2>2, <2>3, <2>4, <2>5, <2>6, <2>7, <2>8 DEF Step
<1>4. ASSUME NEW p \in DOMAIN live, FreeCall(p)
      PROVE  LinkInv'
  <2>1. ~degraded
    BY <1>4 DEF FreeCall
  <2> QED
    BY <1>4, <2>1, FreeCallLinks
<1>5. CASE TermCall
  <2>1. ~degraded
    BY <1>5 DEF TermCall
  <2> QED
    BY <1>5, <2>1, SpanLinks
<1>6. CASE HeapInitFails \/ Other \/ UNCHANGED vars \/ (\E q \in Queries : MallocCall(q))
  <2>1. ~degraded
    BY <1>6 DEF HeapInitFails, Other, OtherMaps, OtherUnmaps, MallocCall, vars, clientVars
  <2> QED
    BY <1>6, <2>1, QuietLinks
<1>7. CASE Undefined
  <2>1. UNCHANGED vars
    BY <1>7 DEF Undefined
  <2>2. ~degraded
    BY <2>1 DEF vars, clientVars
  <2> QED
    BY <2>1, <2>2, QuietLinks
<1> QED
  BY <1>1, <1>2, <1>3, <1>4, <1>5, <1>6, <1>7 DEF Next, Call

\* Following links from where a call starts leads to blocks only.
THEOREM LinksStayIntact == Spec => []LinkInv
<1>1. Init => LinkInv
  BY DEF Init, LinkInv, Links
<1>2. IInv /\ LinkInv /\ [Next]_vars => LinkInv'
  BY InvSplit, NextLinks
<1> QED
  BY <1>1, <1>2, HeapStaysWellFormed, PTL DEF Spec

\* The allocator reads nothing but block headers unless heap_init was given
\* another address than HEAP_START or a munmap failed.
THEOREM NoWildRead == Spec => []WildOnlyWhenDegraded
<1>1. LinkInv => WildOnlyWhenDegraded
  BY DEF LinkInv, WildOnlyWhenDegraded
<1> QED
  BY <1>1, LinksStayIntact, PTL

-----------------------------------------------------------------------------
(* What the actions do to the headers *)

\* A merge takes the next block off the list.
LEMMA MergeEffect ==
  ASSUME SInv, SearchMerge \/ FreeMerge
  PROVE  LET s == hdr[block].next
         IN  /\ pc \in {"find", "free"} /\ UNCHANGED <<clientVars, pc, locals>>
             /\ block \in DOMAIN hdr /\ hdr[block].is_free
             /\ s \in DOMAIN hdr /\ hdr[s].is_free
             /\ s # NULL /\ s # block /\ s = block_end(hdr, block)
             /\ DOMAIN hdr' = DOMAIN hdr \ {s}
             /\ hdr'[block].next = hdr[s].next
             /\ hdr'[block].is_free
             /\ hdr'[block].capacity = hdr[block].capacity + HEADER + hdr[s].capacity
             /\ block_end(hdr', block) = block_end(hdr, s)
             /\ \A a \in DOMAIN hdr \ {block, s} : hdr'[a] = hdr[a]
<1> DEFINE s == hdr[block].next
<1>1. /\ pc \in {"find", "free"}
      /\ ~Dangling(block)
      /\ mergeable(hdr, block)
      /\ hdr' = Merge(hdr, block)
      /\ UNCHANGED <<clientVars, pc, locals>>
  BY DEF SearchMerge, FreeMerge, Searching
<1>2. /\ block \in DOMAIN hdr /\ hdr[block].is_free
      /\ s \in DOMAIN hdr /\ hdr[s].is_free
      /\ s # NULL
      /\ s = block_end(hdr, block)
  BY <1>1 DEF Dangling, mergeable
<1>3. WellFormed(hdr)
  BY DEF SInv, HInv
<1>4. s # block
  <2>1. block_end(hdr, block) \in Nat /\ block \in Nat /\ block + HEADER < block_end(hdr, block)
    BY <1>2, <1>3, BlockFacts
  <2> QED
    BY <1>2, <2>1, LayoutAssumption
<1>5. /\ hdr[block].capacity \in Nat /\ hdr[s].capacity \in Nat /\ block \in Nat
      /\ block_end(hdr, s) = s + HEADER + hdr[s].capacity
      /\ block_end(hdr, block) = block + HEADER + hdr[block].capacity
      /\ block_end(hdr, s) <= MemSize
  BY <1>2, <1>3, BlockFacts DEF WellFormed
<1> DEFINE c == hdr[block].capacity + HEADER + hdr[s].capacity
<1>6. Wrap(hdr[block].capacity + size_from_capacity(hdr[s].capacity)) = c
  <2>1. /\ c \in 0 .. SIZE_MOD - 1
        /\ hdr[s].capacity + HEADER \in 0 .. SIZE_MOD - 1
    BY <1>2, <1>5, LayoutAssumption, SpaceAssumption
  <2>2. size_from_capacity(hdr[s].capacity) = hdr[s].capacity + HEADER
    BY <1>5, <2>1, WrapIdentity, LayoutAssumption, SpaceAssumption DEF size_from_capacity
  <2> QED
    BY <1>5, <2>1, <2>2, WrapIdentity, LayoutAssumption
<1>7. /\ DOMAIN Merge(hdr, block) = DOMAIN hdr \ {s}
      /\ Merge(hdr, block)[block].next = hdr[s].next
      /\ Merge(hdr, block)[block].is_free
      /\ \A a \in DOMAIN hdr \ {block, s} : Merge(hdr, block)[a] = hdr[a]
  BY <1>1, <1>2, <1>3, MergeKeeps
<1>8. Merge(hdr, block)[block].capacity = c
  <2>1. Merge(hdr, block)[block]
          = [hdr[block] EXCEPT !.capacity = Wrap(@ + size_from_capacity(hdr[s].capacity)),
                               !.next = hdr[s].next]
    BY <1>2, <1>4 DEF Merge, MergeInto
  <2>2. hdr[block] = [next |-> hdr[block].next, capacity |-> hdr[block].capacity,
                      is_free |-> hdr[block].is_free]
    BY <1>2, <1>3, BlockFacts
  <2> HIDE DEF s, c
  <2> QED
    BY <1>6, <2>1, <2>2
<1>9. /\ DOMAIN hdr' = DOMAIN hdr \ {s}
      /\ hdr'[block].next = hdr[s].next
      /\ hdr'[block].is_free
      /\ hdr'[block].capacity = c
      /\ \A a \in DOMAIN hdr \ {block, s} : hdr'[a] = hdr[a]
  BY <1>1, <1>7, <1>8
<1>10. block_end(hdr', block) = block_end(hdr, s)
  BY <1>2, <1>5, <1>9, LayoutAssumption DEF block_end
<1> QED
  BY <1>1, <1>2, <1>4, <1>9, <1>10

\* The block a split makes is free and ends where the old one did.
LEMMA SplitRest ==
  ASSUME WellFormed(hdr), NEW b \in DOMAIN hdr, NEW q \in Nat,
         q <= hdr[b].capacity, block_splittable(b, q)
  PROVE  LET n == contents(b) + q
         IN  Split(b, q)[n].is_free /\ block_end(Split(b, q), n) = block_end(hdr, b)
<1> DEFINE n == contents(b) + q
           g == Split(b, q)
           c == hdr[b].capacity - q - HEADER
<1>1. /\ b \in Nat /\ b > 0 /\ hdr[b].capacity \in Nat
      /\ block_end(hdr, b) = b + HEADER + hdr[b].capacity
      /\ block_end(hdr, b) <= MemSize
  BY BlockFacts DEF WellFormed
<1>2. q + HEADER + BLOCK_MIN_CAPACITY <= hdr[b].capacity
  <2>1. Wrap(q + HEADER + BLOCK_MIN_CAPACITY) <= hdr[b].capacity
    BY DEF block_splittable
  <2>2. q + HEADER + BLOCK_MIN_CAPACITY \in 0 .. SIZE_MOD - 1
    BY <1>1, LayoutAssumption, SpaceAssumption
  <2> QED
    BY <2>1, <2>2, WrapIdentity
<1>3. c \in 0 .. SIZE_MOD - 1
  BY <1>1, <1>2, LayoutAssumption, SpaceAssumption
<1>4. capacity_from_size(hdr[b].capacity - q) = c
  BY <1>3, WrapIdentity DEF capacity_from_size
<1>5. n = b + HEADER + q /\ n # b
  BY <1>1, LayoutAssumption DEF contents
<1>6. g[n] = [next |-> hdr[b].next, capacity |-> c, is_free |-> TRUE]
  BY <1>4, <1>5 DEF Split, SplitInto, NewHeader
<1> HIDE DEF g, n, c
<1>7. g[n].capacity = c /\ g[n].is_free
  BY <1>6
<1>8. block_end(g, n) = block_end(hdr, b)
  BY <1>1, <1>5, <1>7, LayoutAssumption DEF block_end, c
<1> QED
  BY <1>7, <1>8 DEF g, n

\* A search takes a block that is good and has no free neighbour behind it; what
\* is too big of it becomes a block of its own.
LEMMA TakesEffect ==
  ASSUME SInv, SearchTakes
  PROVE  /\ pc = "find" /\ pc' = "idle"
         /\ UNCHANGED <<start, degraded>>
         /\ block \in DOMAIN hdr /\ hdr[block].is_free
         /\ hdr[block].next \in DOMAIN hdr \union {NULL}
         /\ ~mergeable(hdr, block)
         /\ DOMAIN live' = DOMAIN live \union {contents(block)}
         /\ ~hdr'[block].is_free
         /\ \A a \in DOMAIN hdr \ {block} : hdr'[a] = hdr[a]
         /\ \/ /\ DOMAIN hdr' = DOMAIN hdr
               /\ hdr'[block].next = hdr[block].next
               /\ block_end(hdr', block) = block_end(hdr, block)
            \/ \E n \in Addr :
                 /\ n \notin DOMAIN hdr
                 /\ DOMAIN hdr' = DOMAIN hdr \union {n}
                 /\ hdr'[block].next = n
                 /\ block_end(hdr', block) = n
                 /\ hdr'[n].next = hdr[block].next
                 /\ hdr'[n].is_free
                 /\ block_end(hdr', n) = block_end(hdr, block)
<1> DEFINE q == normalize_query(query)
           h == IF block_splittable(block, q) THEN Split(block, q) ELSE hdr
           n == contents(block) + q
<1>1. /\ pc = "find" /\ pc' = "idle"
      /\ UNCHANGED <<start, degraded>>
      /\ block \in DOMAIN hdr /\ hdr[block].is_free
      /\ hdr[block].next \in DOMAIN hdr \union {NULL}
      /\ ~mergeable(hdr, block)
      /\ hdr[block].capacity >= q
      /\ hdr' = Taken(h, block)
      /\ live' = [p \in DOMAIN live \union {contents(block)} |->
                    IF p = contents(block) THEN query ELSE live[p]]
  BY DEF SearchTakes, Searching, Dangling, Good, Taken, Return
<1>2. WellFormed(hdr)
  BY DEF SInv, HInv
<1>3. q \in Nat /\ q >= BLOCK_MIN_CAPACITY
  BY LayoutAssumption, SpaceAssumption DEF SInv, VarsOK, normalize_query
<1>4. CASE ~block_splittable(block, q)
  <2>1. hdr' = Taken(hdr, block)
    BY <1>1, <1>4
  <2>2. /\ DOMAIN hdr' = DOMAIN hdr
        /\ ~hdr'[block].is_free
        /\ hdr'[block].capacity = hdr[block].capacity
        /\ hdr'[block].next = hdr[block].next
        /\ \A a \in DOMAIN hdr \ {block} : hdr'[a] = hdr[a]
    BY <1>1, <1>2, <2>1, MarkTakenKeeps
  <2>3. block_end(hdr', block) = block_end(hdr, block)
    BY <2>2 DEF block_end
  <2> QED
    BY <1>1, <2>2, <2>3
<1>5. CASE block_splittable(block, q)
  <2>1. h = Split(block, q)
    BY <1>5
  <2>2. q <= hdr[block].capacity
    BY <1>1, <1>2, <1>3, BlockFacts
  <2> HIDE DEF q, h
  <2>3. /\ WellFormed(h)
        /\ DOMAIN h = DOMAIN hdr \union {n}
        /\ n \notin DOMAIN hdr
        /\ h[block].next = n
        /\ h[block].capacity = q
        /\ h[n].next = hdr[block].next
        /\ \A a \in DOMAIN hdr \ {block} : h[a] = hdr[a]
    BY <1>1, <1>2, <1>3, <1>5, <2>1, <2>2, SplitKeeps
  <2>8. h[n].is_free /\ block_end(h, n) = block_end(hdr, block)
    BY <1>1, <1>2, <1>3, <1>5, <2>1, <2>2, SplitRest
  <2>4. /\ DOMAIN hdr' = DOMAIN h
        /\ ~hdr'[block].is_free
        /\ hdr'[block].capacity = h[block].capacity
        /\ hdr'[block].next = h[block].next
        /\ \A a \in DOMAIN h \ {block} : hdr'[a] = h[a]
    <3>1. block \in DOMAIN h
      BY <1>1, <2>3
    <3> QED
      BY <1>1, <2>3, <3>1, MarkTakenKeeps
  <2>5. n \in Addr
    BY <2>3 DEF WellFormed
  <2>9. block_end(hdr', block) = n
    BY <2>3, <2>4 DEF block_end, contents
  <2> HIDE DEF n
  <2>6. hdr'[n] = h[n] /\ block_end(hdr', n) = block_end(h, n)
    BY <1>1, <2>3, <2>4 DEF block_end
  <2>7. \A a \in DOMAIN hdr \ {block} : hdr'[a] = hdr[a]
    BY <2>3, <2>4
  <2> QED
    BY <1>1, <2>3, <2>4, <2>5, <2>6, <2>7, <2>8, <2>9
<1> QED
  BY <1>4, <1>5

\* heap_init adds one block, which links to nothing.
LEMMA HeapInitEffect ==
  ASSUME SInv, NEW q \in InitSizes, HeapInit(q)
  PROVE  /\ pc = "idle" /\ start = NULL /\ UNCHANGED <<live, pc, locals>>
         /\ start' \in Addr /\ start' \notin DOMAIN hdr
         /\ degraded' = (degraded \/ start' # HEAP_START)
         /\ DOMAIN hdr' = DOMAIN hdr \union {start'}
         /\ hdr'[start'].next = NULL /\ hdr'[start'].is_free
         /\ \A a \in DOMAIN hdr : hdr'[a] = hdr[a]
<1> DEFINE n == region_size_for(q)
<1>1. /\ start' \in Placements(HEAP_START, n)
      /\ hdr' = [a \in DOMAIN hdr \union {start'} |->
                   IF a = start' THEN NewHeader(n, NULL) ELSE hdr[a]]
      /\ degraded' = (degraded \/ start' # HEAP_START)
      /\ pc = "idle" /\ start = NULL /\ UNCHANGED <<live, pc, locals>>
  BY DEF HeapInit
<1>2. n \in Nat /\ n > 0
  BY RegionSize, ClientAssumption, LayoutAssumption, SpaceAssumption
<1> HIDE DEF n
<1>3. start' \in Addr /\ Available(start', n)
  BY <1>1, SpaceAssumption DEF Placements
<1>4. start' \notin DOMAIN hdr
  BY <1>2, <1>3, RegionIsNew
<1> QED
  BY <1>1, <1>3, <1>4 DEF NewHeader

\* Growing the heap adds one block behind the last, or makes the last one larger.
LEMMA GrowEffect ==
  ASSUME SInv, GrowHeap
  PROVE  /\ pc = "grow" /\ pc' = "find" /\ UNCHANGED clientVars /\ grown'
         /\ block \in DOMAIN hdr /\ hdr[block].next = NULL
         /\ hdr'[block].is_free = hdr[block].is_free
         /\ \A a \in DOMAIN hdr \ {block} : hdr'[a] = hdr[a]
         /\ \/ /\ block' = block
               /\ DOMAIN hdr' = DOMAIN hdr
               /\ hdr'[block].next = NULL
            \/ \E r \in Addr :
                 /\ block' = r
                 /\ r \notin DOMAIN hdr
                 /\ DOMAIN hdr' = DOMAIN hdr \union {r}
                 /\ hdr'[block].next = r
                 /\ block_end(hdr', block) = block_end(hdr, block)
                 /\ hdr'[r].next = NULL /\ hdr'[r].is_free
<1> DEFINE n == region_size_for(normalize_query(query))
<1>1. PICK r \in Placements(block_after(block), n) :
        IF mergeable(Linked(block, r, n), block)
        THEN hdr' = Merge(Linked(block, r, n), block) /\ block' = block
        ELSE hdr' = Linked(block, r, n) /\ block' = r
  BY DEF GrowHeap
<1> DEFINE k == Linked(block, r, n)
<1>2. pc = "grow" /\ pc' = "find" /\ UNCHANGED clientVars /\ grown'
  BY DEF GrowHeap
<1>3. block \in DOMAIN hdr /\ hdr[block].next = NULL /\ WellFormed(hdr)
  BY <1>2 DEF SInv, HInv, CallState
<1>4. n \in Nat /\ n > 0
  <2>1. normalize_query(query) \in 0 .. SIZE_MOD - 1
    BY LayoutAssumption, SpaceAssumption DEF SInv, VarsOK, normalize_query
  <2> QED
    BY <2>1, RegionSize, LayoutAssumption, SpaceAssumption
<1> HIDE DEF n
<1>5. r \in Addr /\ Available(r, n)
  <2>1. block_after(block) \in Nat /\ block_after(block) > 0
    BY <1>3, BlockBytes, LayoutAssumption, SpaceAssumption DEF Addr
  <2> QED
    BY <1>4, <2>1, SpaceAssumption DEF Placements, Available, Addr
<1>6. r \notin DOMAIN hdr /\ r # NULL /\ r # block
  <2>1. r \notin DOMAIN hdr
    BY <1>4, <1>5, RegionIsNew
  <2>2. r # NULL
    BY <1>5, SpaceAssumption DEF Addr
  <2> QED
    BY <1>3, <2>1, <2>2
<1>7. /\ DOMAIN k = DOMAIN hdr \union {r}
      /\ k[r].next = NULL /\ k[r].is_free
      /\ k[block] = [next |-> r, capacity |-> hdr[block].capacity,
                     is_free |-> hdr[block].is_free]
      /\ \A a \in DOMAIN hdr \ {block} : k[a] = hdr[a]
  <2>1. hdr[block] = [next |-> hdr[block].next, capacity |-> hdr[block].capacity,
                      is_free |-> hdr[block].is_free]
    BY <1>3, BlockFacts
  <2>2. k[block] = [hdr[block] EXCEPT !.next = r]
    BY <1>3, <1>6 DEF Linked
  <2>3. /\ DOMAIN k = DOMAIN hdr \union {r}
        /\ k[r].next = NULL /\ k[r].is_free
        /\ \A a \in DOMAIN hdr \ {block} : k[a] = hdr[a]
    BY <1>3, <1>6 DEF Linked, NewHeader
  <2> HIDE DEF k
  <2> QED
    BY <2>1, <2>2, <2>3
<1> HIDE DEF k
<1>8. CASE mergeable(k, block)
  <2>1. hdr' = Merge(k, block) /\ block' = block
    BY <1>1, <1>8 DEF k
  <2>2. k[block].next = r /\ block \in DOMAIN k /\ r \in DOMAIN k
    BY <1>3, <1>7
  <2>3. /\ DOMAIN hdr' = DOMAIN k \ {r}
        /\ hdr'[block] = [k[block] EXCEPT
                !.capacity = Wrap(@ + size_from_capacity(k[r].capacity)),
                !.next = k[r].next]
        /\ \A a \in DOMAIN k \ {block, r} : hdr'[a] = k[a]
    BY <1>6, <2>1, <2>2 DEF Merge, MergeInto
  <2>4. hdr'[block].next = NULL /\ hdr'[block].is_free = hdr[block].is_free
    BY <1>7, <2>3
  <2>5. DOMAIN hdr' = DOMAIN hdr /\ \A a \in DOMAIN hdr \ {block} : hdr'[a] = hdr[a]
    BY <1>6, <1>7, <2>3
  <2> QED
    BY <1>2, <1>3, <2>1, <2>4, <2>5
<1>9. CASE ~mergeable(k, block)
  <2>1. hdr' = k /\ block' = r
    BY <1>1, <1>9 DEF k
  <2>2. /\ DOMAIN hdr' = DOMAIN hdr \union {r}
        /\ hdr'[block].next = r
        /\ hdr'[block].is_free = hdr[block].is_free
        /\ hdr'[r].next = NULL /\ hdr'[r].is_free
        /\ \A a \in DOMAIN hdr \ {block} : hdr'[a] = hdr[a]
    BY <1>7, <2>1
  <2>3. block_end(hdr', block) = block_end(hdr, block)
    BY <1>7, <2>1 DEF block_end
  <2> QED
    BY <1>2, <1>3, <1>5, <1>6, <2>1, <2>2, <2>3
<1> QED
  BY <1>8, <1>9

\* _free marks the block of a pointer the client held.
LEMMA FreeCallEffect ==
  ASSUME SInv, NEW p \in DOMAIN live, FreeCall(p)
  PROVE  LET b == block_get_header(p)
         IN  /\ pc = "idle" /\ pc' = "free" /\ UNCHANGED <<start, degraded>>
             /\ b \in DOMAIN hdr /\ block' = b
             /\ DOMAIN live' = DOMAIN live \ {p}
             /\ DOMAIN hdr' = DOMAIN hdr
             /\ hdr'[b].is_free
             /\ hdr'[b].next = hdr[b].next
             /\ \A a \in DOMAIN hdr : block_end(hdr', a) = block_end(hdr, a)
             /\ \A a \in DOMAIN hdr \ {b} : hdr'[a] = hdr[a]
<1> DEFINE b == block_get_header(p)
<1>1. /\ hdr' = Freed(hdr, b)
      /\ pc = "idle" /\ pc' = "free" /\ UNCHANGED <<start, degraded>>
      /\ block' = b
      /\ DOMAIN live' = DOMAIN live \ {p}
  BY DEF FreeCall, Freed
<1>2. b \in DOMAIN hdr /\ WellFormed(hdr)
  BY DEF SInv, HInv, LiveOK
<1> HIDE DEF b
<1>3. /\ DOMAIN hdr' = DOMAIN hdr
      /\ hdr'[b].is_free
      /\ hdr'[b].capacity = hdr[b].capacity
      /\ hdr'[b].next = hdr[b].next
      /\ \A a \in DOMAIN hdr \ {b} : hdr'[a] = hdr[a]
  BY <1>1, <1>2, MarkFreeKeeps
<1>4. \A a \in DOMAIN hdr : block_end(hdr', a) = block_end(hdr, a)
  BY <1>3 DEF block_end
<1> QED
  BY <1>1, <1>2, <1>3, <1>4 DEF b

\* Unmapping a span takes away its blocks, from the first to the one at hand.
LEMMA UnmapEffect ==
  ASSUME SInv, SpanUnmaps
  PROVE  /\ pc = "span" /\ pc' = "term" /\ UNCHANGED <<start, live, degraded>>
         /\ block \in DOMAIN hdr /\ regionStart \in DOMAIN hdr /\ regionStart <= block
         /\ block' = hdr[block].next
         /\ DOMAIN hdr' = {b \in DOMAIN hdr : ~(regionStart <= b /\ b <= block)}
         /\ \A b \in DOMAIN hdr' : hdr'[b] = hdr[b]
<1> DEFINE gone == Bytes(regionStart, regionSize)
<1>1. SpanEnds /\ degraded' = degraded
  BY DEF SpanUnmaps
<1>2. /\ block \in DOMAIN hdr
      /\ regionStart \in DOMAIN hdr
      /\ regionStart <= block
      /\ regionSize \in Nat
      /\ regionSize % PAGE = 0
      /\ regionStart + regionSize = block_end(hdr, block)
  BY <1>1, SpanMeasured
<1>3. /\ pc = "span" /\ pc' = "term"
      /\ block' = hdr[block].next
      /\ UNCHANGED <<start, live>>
  BY <1>1 DEF SpanEnds, SpanEndsTo
<1>4. hdr' = [a \in DOMAIN hdr \ gone |-> hdr[a]]
  BY <1>2, UnmapWholePages DEF SpanUnmaps
<1>5. \A b \in DOMAIN hdr : b \in gone <=> regionStart <= b /\ b <= block
  <2> TAKE b \in DOMAIN hdr
  <2>1. /\ b \in Nat /\ block \in Nat /\ regionStart \in Nat
    BY <1>2, NotNull
  <2>2. block_end(hdr, block) \in Nat /\ block < block_end(hdr, block)
    BY <1>2, BlockFacts, LayoutAssumption DEF SInv, HInv
  <2>3. block < b => block_end(hdr, block) <= b
    BY <1>2 DEF SInv, HInv, WellFormed
  <2> QED
    BY <1>2, <2>1, <2>2, <2>3 DEF Bytes
<1> HIDE DEF gone
<1>6. DOMAIN hdr' = {b \in DOMAIN hdr : ~(regionStart <= b /\ b <= block)}
  BY <1>4, <1>5
<1> QED
  BY <1>1, <1>2, <1>3, <1>4, <1>6

-----------------------------------------------------------------------------
(* The list reaches every block *)

\* Where the links of T lead, there is T again.
Closed(h, T) == \A a \in T : h[a].next # NULL => h[a].next \in T

\* Following links from f leads to every block; from NULL it leads nowhere.
Reaches(h, f) ==
  \A T \in SUBSET DOMAIN h : (f # NULL => f \in T) /\ Closed(h, T) => T = DOMAIN h

\* Where the list begins: in heap_term, the part of it that is not yet unmapped.
First ==
  CASE pc = "term" -> block
    [] pc = "span" -> regionStart
    [] pc \notin {"term", "span"} /\ start = NULL -> NULL
    [] pc \notin {"term", "span"} /\ start # NULL -> HEAP_START

\* While nothing has degraded the heap, no block is off the list; and a span has
\* no gap: each of its blocks links to the next one.
ListInv ==
  ~degraded =>
    /\ Reaches(hdr, First)
    /\ pc = "span" =>
         \A a \in DOMAIN hdr : regionStart <= a /\ a < block => hdr[a].next = block_after(a)

\* The list stays complete when the links stay the same.
LEMMA ReachesSame ==
  ASSUME NEW h, NEW g, NEW f, Reaches(h, f), DOMAIN g = DOMAIN h,
         \A a \in DOMAIN h : g[a].next = h[a].next
  PROVE  Reaches(g, f)
  BY DEF Reaches, Closed

\* Block b swallows the block s it links to.
LEMMA ReachesMerge ==
  ASSUME NEW h, NEW f, Reaches(h, f), NEW b \in DOMAIN h, NEW s \in DOMAIN h,
         h[b].next = s, s # b, f # s, s # NULL,
         NEW g, DOMAIN g = DOMAIN h \ {s}, g[b].next = h[s].next,
         \A a \in DOMAIN g \ {b} : g[a].next = h[a].next
  PROVE  Reaches(g, f)
<1> SUFFICES ASSUME NEW T \in SUBSET DOMAIN g, f # NULL => f \in T, Closed(g, T)
             PROVE  T = DOMAIN g
  BY DEF Reaches
<1>1. CASE b \in T
  <2>1. Closed(h, T \union {s})
    BY <1>1 DEF Closed
  <2>2. T \union {s} = DOMAIN h
    BY <2>1 DEF Reaches
  <2> QED
    BY <2>2
<1>2. CASE b \notin T
  <2>1. Closed(h, T)
    BY <1>2 DEF Closed
  <2>2. T = DOMAIN h
    BY <2>1 DEF Reaches
  <2> QED
    BY <1>2, <2>2
<1> QED
  BY <1>1, <1>2

\* A block n is put behind block b.
LEMMA ReachesInsert ==
  ASSUME NEW h, NEW f, Reaches(h, f), f \in DOMAIN h, NEW b \in DOMAIN h,
         NEW n, n \notin DOMAIN h, n # NULL, \A a \in DOMAIN h : h[a].next # n,
         NEW g, DOMAIN g = DOMAIN h \union {n}, g[b].next = n, g[n].next = h[b].next,
         \A a \in DOMAIN h \ {b} : g[a].next = h[a].next
  PROVE  Reaches(g, f)
<1> SUFFICES ASSUME NEW T \in SUBSET DOMAIN g, f # NULL => f \in T, Closed(g, T)
             PROVE  T = DOMAIN g
  BY DEF Reaches
<1> DEFINE U == T \ {n}
<1>1. U \in SUBSET DOMAIN h /\ (f # NULL => f \in U)
  OBVIOUS
<1>2. Closed(h, U)
  <2> SUFFICES ASSUME NEW a \in U, h[a].next # NULL PROVE h[a].next \in U
    BY DEF Closed
  <2>1. CASE a = b
    <3>1. n \in T
      BY <2>1 DEF Closed
    <3>2. h[b].next \in T
      BY <2>1, <3>1 DEF Closed
    <3> QED
      BY <2>1, <3>2
  <2>2. CASE a # b
    BY <2>2 DEF Closed
  <2> QED
    BY <2>1, <2>2
<1>3. U = DOMAIN h
  BY <1>1, <1>2 DEF Reaches
<1>4. n \in T
  BY <1>3 DEF Closed
<1> QED
  BY <1>3, <1>4

\* A merge takes the swallowed block off the list and out of the heap.
LEMMA MergeLists ==
  ASSUME SInv, LinkInv, ListInv, ~degraded, SearchMerge \/ FreeMerge
  PROVE  ListInv'
<1> DEFINE s == hdr[block].next
<1>1. /\ pc \in {"find", "free"} /\ UNCHANGED <<clientVars, pc, locals>>
      /\ block \in DOMAIN hdr /\ s \in DOMAIN hdr
      /\ s # NULL /\ s # block
      /\ DOMAIN hdr' = DOMAIN hdr \ {s}
      /\ hdr'[block].next = hdr[s].next
      /\ \A a \in DOMAIN hdr \ {block, s} : hdr'[a] = hdr[a]
  BY MergeEffect
<1>2. First = HEAP_START /\ First' = HEAP_START
  BY <1>1 DEF LinkInv, First, clientVars
<1>3. HEAP_START # s /\ Reaches(hdr, HEAP_START)
  BY <1>1, <1>2 DEF LinkInv, Links, ListInv
<1>4. \A a \in DOMAIN hdr' \ {block} : hdr'[a].next = hdr[a].next
  BY <1>1
<1>5. ASSUME NEW h, h = hdr, NEW g, g = hdr', NEW t, t = s PROVE Reaches(g, HEAP_START)
  BY <1>1, <1>3, <1>4, <1>5, ReachesMerge
<1> QED
  BY <1>1, <1>2, <1>5 DEF ListInv

\* A split puts the new block behind the one it is cut from.
LEMMA TakesLists ==
  ASSUME SInv, LinkInv, ListInv, ~degraded, SearchTakes
  PROVE  ListInv'
<1>1. /\ pc = "find" /\ pc' = "idle" /\ start' = start
      /\ block \in DOMAIN hdr
      /\ \A a \in DOMAIN hdr \ {block} : hdr'[a] = hdr[a]
  BY TakesEffect
<1>2. First = HEAP_START /\ First' = HEAP_START /\ HEAP_START \in DOMAIN hdr /\ Links(hdr)
  BY <1>1 DEF LinkInv, First
<1>3. Reaches(hdr, HEAP_START)
  BY <1>2 DEF ListInv
<1>4. CASE DOMAIN hdr' = DOMAIN hdr /\ hdr'[block].next = hdr[block].next
  <2>1. \A a \in DOMAIN hdr : hdr'[a].next = hdr[a].next
    BY <1>1, <1>4
  <2>2. Reaches(hdr', HEAP_START)
    BY <1>3, <1>4, <2>1, ReachesSame
  <2> QED
    BY <1>1, <1>2, <2>2 DEF ListInv
<1>5. ASSUME NEW n \in Addr, n \notin DOMAIN hdr, DOMAIN hdr' = DOMAIN hdr \union {n},
             hdr'[block].next = n, hdr'[n].next = hdr[block].next
      PROVE  ListInv'
  <2>1. n # NULL /\ \A a \in DOMAIN hdr : hdr[a].next # n
    BY <1>2, <1>5, SpaceAssumption DEF Links, Addr
  <2>2. \A a \in DOMAIN hdr \ {block} : hdr'[a].next = hdr[a].next
    BY <1>1
  <2>3. Reaches(hdr', HEAP_START)
    BY <1>1, <1>2, <1>3, <1>5, <2>1, <2>2, ReachesInsert
  <2> QED
    BY <1>1, <1>2, <2>3 DEF ListInv
<1> QED
  BY <1>4, <1>5, TakesEffect

\* A new region is put behind the last block.
LEMMA GrowLists ==
  ASSUME SInv, LinkInv, ListInv, ~degraded, GrowHeap
  PROVE  ListInv'
<1>1. /\ pc = "grow" /\ pc' = "find" /\ UNCHANGED clientVars
      /\ block \in DOMAIN hdr /\ hdr[block].next = NULL
      /\ \A a \in DOMAIN hdr \ {block} : hdr'[a] = hdr[a]
  BY GrowEffect
<1>2. First = HEAP_START /\ First' = HEAP_START /\ HEAP_START \in DOMAIN hdr /\ Links(hdr)
  BY <1>1 DEF LinkInv, First, clientVars
<1>3. Reaches(hdr, HEAP_START)
  BY <1>2 DEF ListInv
<1>4. CASE DOMAIN hdr' = DOMAIN hdr /\ hdr'[block].next = NULL
  <2>1. \A a \in DOMAIN hdr : hdr'[a].next = hdr[a].next
    BY <1>1, <1>4
  <2>2. Reaches(hdr', HEAP_START)
    BY <1>3, <1>4, <2>1, ReachesSame
  <2> QED
    BY <1>1, <1>2, <2>2 DEF ListInv
<1>5. ASSUME NEW n \in Addr, n \notin DOMAIN hdr, DOMAIN hdr' = DOMAIN hdr \union {n},
             hdr'[block].next = n, hdr'[n].next = NULL
      PROVE  ListInv'
  <2>1. n # NULL /\ \A a \in DOMAIN hdr : hdr[a].next # n
    BY <1>2, <1>5, SpaceAssumption DEF Links, Addr
  <2>2. \A a \in DOMAIN hdr \ {block} : hdr'[a].next = hdr[a].next
    BY <1>1
  <2>3. Reaches(hdr', HEAP_START)
    BY <1>1, <1>2, <1>3, <1>5, <2>1, <2>2, ReachesInsert
  <2> QED
    BY <1>1, <1>2, <2>3 DEF ListInv
<1> QED
  BY <1>4, <1>5, GrowEffect

\* There is no block before heap_init, and one after it.
LEMMA HeapInitLists ==
  ASSUME SInv, LinkInv, ListInv, ~degraded', NEW q \in InitSizes, HeapInit(q)
  PROVE  ListInv'
<1>1. /\ pc = "idle" /\ pc' = pc /\ start = NULL
      /\ start' \in Addr /\ start' = HEAP_START /\ ~degraded
      /\ DOMAIN hdr' = DOMAIN hdr \union {start'}
  BY HeapInitEffect
<1>2. First = NULL /\ First' = HEAP_START /\ HEAP_START # NULL
  BY <1>1, SpaceAssumption DEF First, Addr
<1>3. Closed(hdr, {})
  BY DEF Closed
<1>4. DOMAIN hdr = {}
  BY <1>1, <1>2, <1>3 DEF ListInv, Reaches
<1>5. Reaches(hdr', HEAP_START)
  BY <1>1, <1>2, <1>4 DEF Reaches
<1> QED
  BY <1>1, <1>2, <1>5 DEF ListInv

\* _free changes no link.
LEMMA FreeCallLists ==
  ASSUME SInv, LinkInv, ListInv, ~degraded, NEW p \in DOMAIN live, FreeCall(p)
  PROVE  ListInv'
<1> DEFINE b == block_get_header(p)
<1>1. /\ pc = "idle" /\ pc' = "free" /\ start' = start
      /\ b \in DOMAIN hdr
      /\ DOMAIN hdr' = DOMAIN hdr
      /\ hdr'[b].next = hdr[b].next
      /\ \A a \in DOMAIN hdr \ {b} : hdr'[a] = hdr[a]
  BY FreeCallEffect
<1>2. First = First' /\ Reaches(hdr, First)
  BY <1>1 DEF ListInv, First
<1>3. \A a \in DOMAIN hdr : hdr'[a].next = hdr[a].next
  BY <1>1
<1>4. Reaches(hdr', First')
  BY <1>1, <1>2, <1>3, ReachesSame
<1> QED
  BY <1>1, <1>4 DEF ListInv

\* A span is unmapped: what is left begins behind it.
LEMMA UnmapLists ==
  ASSUME SInv, LinkInv, ListInv, ~degraded, SpanUnmaps
  PROVE  ListInv'
<1> DEFINE gone == {b \in DOMAIN hdr : regionStart <= b /\ b <= block}
<1>1. /\ pc = "span" /\ pc' = "term"
      /\ block \in DOMAIN hdr /\ regionStart \in DOMAIN hdr /\ regionStart <= block
      /\ block' = hdr[block].next
      /\ DOMAIN hdr' = DOMAIN hdr \ gone
      /\ \A b \in DOMAIN hdr' : hdr'[b] = hdr[b]
  BY UnmapEffect
<1>2. First = regionStart /\ First' = block'
  BY <1>1 DEF First
<1>3. /\ Reaches(hdr, regionStart)
      /\ \A a \in DOMAIN hdr : regionStart <= a /\ a < block => hdr[a].next = block_after(a)
      /\ Links(hdr)
  BY <1>1, <1>2 DEF ListInv, LinkInv
<1>4. ASSUME NEW a \in gone, a # block
      PROVE  hdr[a].next # NULL => hdr[a].next \in gone
  <2>1. /\ a \in Nat /\ block \in Nat /\ regionStart \in Nat
        /\ a < block /\ regionStart <= a
    BY <1>1, <1>4, NotNull
  <2>2. hdr[a].next = block_after(a) /\ block_after(a) \in Nat /\ a < block_after(a)
    BY <1>3, <2>1, BlockBytes, LayoutAssumption
  <2>3. block_after(a) <= block
    BY <1>1, <2>1 DEF SInv, HInv, WellFormed, block_after
  <2> QED
    BY <1>3, <2>1, <2>2, <2>3 DEF Links
<1>5. ASSUME NEW T \in SUBSET DOMAIN hdr', block' # NULL => block' \in T, Closed(hdr', T)
      PROVE  T = DOMAIN hdr'
  <2>1. Closed(hdr, T \union gone)
    <3>1. \A a \in T : hdr[a].next # NULL => hdr[a].next \in T
      BY <1>1, <1>5 DEF Closed
    <3> QED
      BY <1>1, <1>4, <1>5, <3>1 DEF Closed
  <2>2. regionStart \in gone
    BY <1>1, NotNull
  <2>3. T \union gone = DOMAIN hdr
    BY <1>1, <1>3, <2>1, <2>2 DEF Reaches
  <2> QED
    BY <1>1, <2>3
<1>6. Reaches(hdr', block')
  BY <1>5 DEF Reaches
<1> QED
  BY <1>1, <1>2, <1>6 DEF ListInv

\* Steps that change no header.
LEMMA QuietLists ==
  ASSUME SInv, LinkInv, ListInv, ~degraded,
         \/ SearchAdvances \/ SearchExhausted \/ SearchGivesUp \/ GrowFails
         \/ FreeReturns \/ TermReturns \/ HeapInitFails \/ Other \/ UNCHANGED vars
         \/ (\E q \in Queries : MallocCall(q)) \/ TermCall \/ TermEnters \/ SpanExtends
  PROVE  ListInv'
<1>1. hdr' = hdr
  BY DEF SearchAdvances, SearchExhausted, SearchGivesUp, GrowFails, FreeReturns, TermReturns,
         HeapInitFails, Other, OtherMaps, OtherUnmaps, vars, MallocCall, TermCall, TermEnters,
         SpanExtends, SpanExtendsBy, heapVars
<1>2. Reaches(hdr, First)
  BY DEF ListInv
<1>3. CASE TermCall
  BY <1>1, <1>2, <1>3 DEF TermCall, ListInv, First
<1>4. CASE TermEnters
  <2>1. \A a \in DOMAIN hdr : ~(block <= a /\ a < block)
    BY <1>4, NotNull DEF TermEnters
  <2> QED
    BY <1>1, <1>2, <1>4, <2>1 DEF TermEnters, ListInv, First
<1>5. CASE SpanExtends
  <2> DEFINE s == hdr[block].next
  <2>1. /\ pc = "span" /\ pc' = pc
        /\ s \in DOMAIN hdr
        /\ s = block_after(block)
        /\ block' = s
        /\ regionStart' = regionStart
    BY <1>5 DEF SpanExtends, SpanExtendsBy
  <2>2. block \in DOMAIN hdr
    BY <2>1 DEF SInv, CallState
  <2>3. ASSUME NEW a \in DOMAIN hdr, regionStart <= a, a < s
        PROVE  hdr[a].next = block_after(a)
    <3>1. CASE a < block
      BY <2>1, <2>3, <3>1 DEF ListInv
    <3>2. CASE a = block
      BY <2>1, <3>2
    <3>3. CASE block < a
      <4>1. block_after(block) <= a
        BY <2>2, <3>3, NotNull DEF SInv, HInv, WellFormed, block_after
      <4> QED
        BY <2>1, <2>2, <2>3, <4>1, NotNull
    <3> QED
      BY <2>2, <3>1, <3>2, <3>3, NotNull
  <2>4. \A a \in DOMAIN hdr : block_after(a)' = block_after(a)
    BY <1>1 DEF block_after
  <2> QED
    BY <1>1, <1>2, <2>1, <2>3, <2>4 DEF ListInv, First
<1>6. CASE ~(TermCall \/ TermEnters \/ SpanExtends)
  <2>1. pc \notin {"term", "span"} \/ UNCHANGED vars \/ TermReturns
    BY <1>6 DEF SearchAdvances, SearchPasses, Searching, SearchExhausted, SearchGivesUp,
       GrowFails, FreeReturns, HeapInitFails, Other, OtherMaps, OtherUnmaps, MallocCall
  <2>2. CASE TermReturns
    BY <1>1, <1>2, <2>2 DEF TermReturns, Return, ListInv, First, LinkInv, clientVars
  <2>3. CASE UNCHANGED vars
    BY <1>1, <2>3 DEF vars, clientVars, locals, ListInv, First, block_after
  <2>4. CASE ~TermReturns /\ ~UNCHANGED vars
    <3>1. start' = start /\ pc' \notin {"term", "span"} /\ pc \notin {"term", "span"}
      BY <1>6, <2>1, <2>4
         DEF SearchAdvances, SearchPasses, Searching, SearchExhausted, SearchGivesUp, Return,
             GrowFails, FreeReturns, HeapInitFails, Other, OtherMaps, OtherUnmaps, MallocCall,
             clientVars, vars
    <3> QED
      BY <1>1, <1>2, <3>1 DEF ListInv, First
  <2> QED
    BY <2>2, <2>3, <2>4
<1> QED
  BY <1>3, <1>4, <1>5, <1>6

\* Every step keeps the list complete.
LEMMA NextLists ==
  ASSUME SInv, LinkInv, ListInv, [Next]_vars
  PROVE  ListInv'
<1> SUFFICES ASSUME ~degraded'
             PROVE  ListInv'
  BY DEF ListInv
<1>1. ASSUME NEW q \in InitSizes, HeapInit(q)
      PROVE  ListInv'
  BY <1>1, HeapInitLists
<1>2. CASE SpanStaysMapped
  BY <1>2 DEF SpanStaysMapped
<1>3. CASE Step /\ ~SpanStaysMapped
  <2>1. ~degraded
    BY <1>3 DEF Step, SearchWild, SearchMerge, SearchTakes, SearchAdvances,
       SearchExhausted, SearchGivesUp, GrowHeap, GrowFails, FreeMerge,
       FreeReturns, TermWild, TermEnters, SpanExtends, SpanExtendsBy, SpanUnmaps,
       TermReturns, Wild, clientVars
  <2>2. ~SearchWild /\ ~TermWild
    BY <2>1, NoWildStep
  <2>3. CASE SearchMerge \/ FreeMerge
    BY <2>1, <2>3, MergeLists
  <2>4. CASE SearchTakes
    BY <2>1, <2>4, TakesLists
  <2>5. CASE GrowHeap
    BY <2>1, <2>5, GrowLists
  <2>6. CASE \/ SearchAdvances \/ SearchExhausted \/ SearchGivesUp \/ GrowFails
             \/ FreeReturns \/ TermReturns \/ TermEnters \/ SpanExtends
    BY <2>1, <2>6, QuietLists
  <2>7. CASE SpanUnmaps
    BY <2>1, <2>7, UnmapLists
  <2> QED
    BY <1>3, <2>2, <2>3, <2>4, <2>5, <2>6, <2>7 DEF Step
<1>4. ASSUME NEW p \in DOMAIN live, FreeCall(p)
      PROVE  ListInv'
  <2>1. ~degraded
    BY <1>4 DEF FreeCall
  <2> QED
    BY <1>4, <2>1, FreeCallLists
<1>5. CASE \/ HeapInitFails \/ Other \/ UNCHANGED vars \/ TermCall
           \/ \E q \in Queries : MallocCall(q)
  <2>1. ~degraded
    BY <1>5 DEF HeapInitFails, Other, OtherMaps, OtherUnmaps, MallocCall, TermCall, vars,
       clientVars
  <2> QED
    BY <1>5, <2>1, QuietLists
<1>6. CASE Undefined
  <2>1. UNCHANGED vars
    BY <1>6 DEF Undefined
  <2>2. ~degraded
    BY <2>1 DEF vars, clientVars
  <2> QED
    BY <2>1, <2>2, QuietLists
<1> QED
  BY <1>1, <1>2, <1>3, <1>4, <1>5, <1>6 DEF Next, Call

\* The list that begins at First holds every block of the heap.
THEOREM ListStaysComplete == Spec => []ListInv
<1>1. Init => ListInv
  BY DEF Init, ListInv, Reaches, First
<1>2. IInv /\ LinkInv /\ ListInv /\ [Next]_vars => ListInv'
  BY InvSplit, NextLists
<1> QED
  BY <1>1, <1>2, HeapStaysWellFormed, LinksStayIntact, PTL DEF Spec

\* heap_term visits every region of the heap, and so leaves nothing mapped.
THEOREM TermLeavesNothing == Spec => []TermReleasesAll
<1>1. ASSUME IInv, ListInv, pc = "idle", start = NULL, ~degraded
      PROVE  heapMem = {}
  <2>1. First = NULL
    BY <1>1 DEF First
  <2>2. Reaches(hdr, NULL) /\ Closed(hdr, {})
    BY <1>1, <2>1 DEF ListInv, Closed
  <2>3. DOMAIN hdr = {}
    BY <2>2 DEF Reaches
  <2>4. heapMem \subseteq Addr
    BY <1>1 DEF IInv, TypeOK
  <2>5. \A x \in Addr : x \in heapMem => \E b \in DOMAIN hdr : TRUE
    BY <1>1 DEF IInv, BlocksTileHeap
  <2> QED
    BY <2>3, <2>4, <2>5
<1>2. IInv /\ ListInv => TermReleasesAll
  BY <1>1 DEF TermReleasesAll
<1> QED
  BY <1>2, HeapStaysWellFormed, ListStaysComplete, PTL

-----------------------------------------------------------------------------
(* No block is lost *)

\* The contents of a block and the header of a pointer are inverse to each other.
LEMMA HeaderOfContents ==
  /\ \A b \in Nat : block_get_header(contents(b)) = b
  /\ \A p \in Nat : contents(block_get_header(p)) = p
  BY LayoutAssumption DEF block_get_header, contents

\* When heap_term returns, no block is left.
LEMMA TermLeavesNoBlock ==
  ASSUME ListInv, ~degraded, First = NULL
  PROVE  DOMAIN hdr = {}
<1>1. Reaches(hdr, NULL) /\ Closed(hdr, {})
  BY DEF ListInv, Closed
<1> QED
  BY <1>1 DEF Reaches

\* A block that is marked taken after a step was so before, and belongs to the
\* same pointer, or it is the one _malloc hands out.
LEMMA NextNoLost ==
  ASSUME SInv, LinkInv, ListInv, NoLostBlock, [Next]_vars
  PROVE  NoLostBlock'
<1> DEFINE Kept == \A b \in DOMAIN hdr : ~hdr[b].is_free => contents(b) \in DOMAIN live
           Calm == pc \in {"idle", "find", "grow", "free"}
<1> SUFFICES ASSUME ~degraded', Calm'
             PROVE  Kept'
  BY DEF NoLostBlock
<1>1. CASE SearchMerge \/ FreeMerge
  <2>1. /\ Calm /\ live' = live /\ degraded' = degraded
        /\ hdr'[block].is_free
        /\ DOMAIN hdr' \subseteq DOMAIN hdr
        /\ \A a \in DOMAIN hdr' \ {block} : hdr'[a] = hdr[a]
    BY <1>1, MergeEffect DEF clientVars
  <2>2. Kept
    BY <2>1 DEF NoLostBlock
  <2> QED
    BY <2>1, <2>2 DEF contents
<1>2. CASE SearchTakes
  <2>1. /\ Calm /\ degraded' = degraded
        /\ DOMAIN live' = DOMAIN live \union {contents(block)}
        /\ \A a \in DOMAIN hdr \ {block} : hdr'[a] = hdr[a]
        /\ \/ DOMAIN hdr' = DOMAIN hdr
           \/ \E n \in Addr : DOMAIN hdr' = DOMAIN hdr \union {n} /\ hdr'[n].is_free
    BY <1>2, TakesEffect
  <2>2. Kept
    BY <2>1 DEF NoLostBlock
  <2> QED
    BY <2>1, <2>2 DEF contents
<1>3. CASE GrowHeap
  <2>1. /\ Calm /\ live' = live /\ degraded' = degraded
        /\ block \in DOMAIN hdr
        /\ hdr'[block].is_free = hdr[block].is_free
        /\ \A a \in DOMAIN hdr \ {block} : hdr'[a] = hdr[a]
        /\ \/ DOMAIN hdr' = DOMAIN hdr
           \/ \E n \in Addr : DOMAIN hdr' = DOMAIN hdr \union {n} /\ hdr'[n].is_free
    BY <1>3, GrowEffect DEF clientVars
  <2>2. Kept
    BY <2>1 DEF NoLostBlock
  <2> QED
    BY <2>1, <2>2 DEF contents
<1>4. ASSUME NEW q \in InitSizes, HeapInit(q)
      PROVE  Kept'
  <2>1. /\ Calm /\ live' = live /\ ~degraded
        /\ DOMAIN hdr' = DOMAIN hdr \union {start'} /\ hdr'[start'].is_free
        /\ \A a \in DOMAIN hdr : hdr'[a] = hdr[a]
    BY <1>4, HeapInitEffect
  <2>2. Kept
    BY <2>1 DEF NoLostBlock
  <2> QED
    BY <2>1, <2>2 DEF contents
<1>5. ASSUME NEW p \in DOMAIN live, FreeCall(p)
      PROVE  Kept'
  <2> DEFINE b == block_get_header(p)
  <2>1. /\ Calm /\ degraded' = degraded
        /\ DOMAIN live' = DOMAIN live \ {p}
        /\ DOMAIN hdr' = DOMAIN hdr /\ hdr'[b].is_free
        /\ \A a \in DOMAIN hdr \ {b} : hdr'[a] = hdr[a]
    BY <1>5, FreeCallEffect
  <2>2. Kept
    BY <2>1 DEF NoLostBlock
  <2>3. \A a \in DOMAIN hdr : contents(a) = p => a = b
    BY HeaderOfContents, NotNull
  <2> QED
    BY <2>1, <2>2, <2>3 DEF contents
<1>6. CASE TermReturns
  <2>1. hdr' = hdr /\ degraded' = degraded /\ pc = "term" /\ block = NULL
    BY <1>6 DEF TermReturns, heapVars, clientVars
  <2>2. First = NULL
    BY <2>1 DEF First
  <2>3. DOMAIN hdr = {}
    BY <2>1, <2>2, TermLeavesNoBlock
  <2> QED
    BY <2>1, <2>3
<1>7. CASE \/ SearchAdvances \/ SearchExhausted \/ SearchGivesUp \/ GrowFails
           \/ FreeReturns \/ HeapInitFails \/ Other \/ UNCHANGED vars \/ Undefined
           \/ \E q \in Queries : MallocCall(q)
  <2>1. /\ hdr' = hdr /\ live' = live /\ degraded' = degraded /\ Calm
    BY <1>7 DEF SearchAdvances, SearchPasses, Searching, SearchExhausted, SearchGivesUp,
       GrowFails, FreeReturns, HeapInitFails, Other, OtherMaps, OtherUnmaps, MallocCall,
       Undefined, vars, heapVars, clientVars
  <2>2. Kept
    BY <2>1 DEF NoLostBlock
  <2> QED
    BY <2>1, <2>2 DEF contents
<1>8. ~(\/ SearchWild \/ TermWild \/ TermEnters \/ SpanExtends \/ SpanUnmaps
        \/ SpanStaysMapped \/ TermCall)
  BY DEF SearchWild, TermWild, Wild, TermEnters, SpanExtends, SpanExtendsBy, SpanUnmaps,
     SpanStaysMapped, SpanEnds, SpanEndsTo, TermCall
<1> QED
  BY <1>1, <1>2, <1>3, <1>4, <1>5, <1>6, <1>7, <1>8 DEF Next, Step, Call

\* A block that is marked taken is one the client holds a pointer to: whatever is
\* split, merged, grown or started again, no block is taken for good.
THEOREM NoBlockIsLost == Spec => []NoLostBlock
<1>1. Init => NoLostBlock
  BY DEF Init, NoLostBlock
<1>2. IInv /\ LinkInv /\ ListInv /\ NoLostBlock /\ [Next]_vars => NoLostBlock'
  BY InvSplit, NextNoLost
<1> QED
  BY <1>1, <1>2, HeapStaysWellFormed, LinksStayIntact, ListStaysComplete, PTL DEF Spec

-----------------------------------------------------------------------------
(* Links go down in rank *)

\* Address x lies in block a.
Within(h, x, a) == a <= x /\ x < block_end(h, a)

\* The blocks can be ranked so that a link that leads into the bytes of a block,
\* be it to its header or not, leads down.  A link to a region that is gone may
\* become the link to a block again, when a block is made at its address; but
\* never the link to one the list has gone through before.
Ranked(h, rank) ==
  \A a, d \in DOMAIN h : Within(h, h[a].next, d) => rank[d] < rank[a]

Ranks(h) == \E rank \in [DOMAIN h -> Nat] : Ranked(h, rank)

\* Blocks that are ranked have no cycle of links.
LEMMA NoCycle ==
  ASSUME NEW h, WellFormed(h), Ranks(h), NEW T \in SUBSET DOMAIN h, T # {}
  PROVE  \E b \in T : h[b].next \notin T
<1>1. PICK rank \in [DOMAIN h -> Nat] : Ranked(h, rank)
  BY DEF Ranks
<1> DEFINE R == {rank[b] : b \in T}
<1>2. R \subseteq Nat /\ R # {}
  OBVIOUS
<1>3. PICK x \in R : \A y \in R : x <= y
  BY <1>2, NatMin, Zenon
<1>4. PICK b \in T : x = rank[b]
  BY <1>3
<1>5. ASSUME h[b].next \in T
      PROVE  FALSE
  <2> DEFINE d == h[b].next
  <2>1. d \in DOMAIN h /\ rank[d] \in R /\ b \in DOMAIN h
    BY <1>5
  <2>2. Within(h, d, d)
    BY <2>1, BlockFacts, LayoutAssumption DEF Within
  <2>3. rank[d] < rank[b]
    BY <1>1, <2>1, <2>2 DEF Ranked
  <2>4. rank[b] <= rank[d] /\ rank[b] \in Nat /\ rank[d] \in Nat
    BY <1>3, <1>4, <2>1
  <2> QED
    BY <2>3, <2>4
<1> QED
  BY <1>5

\* Ranks are kept when no link changes and no block gets new bytes.
LEMMA RanksFewer ==
  ASSUME NEW h, Ranks(h), NEW g, DOMAIN g \subseteq DOMAIN h,
         \A a \in DOMAIN g : g[a].next = h[a].next /\ block_end(g, a) = block_end(h, a)
  PROVE  Ranks(g)
<1>1. PICK rank \in [DOMAIN h -> Nat] : Ranked(h, rank)
  BY DEF Ranks
<1> DEFINE new == [a \in DOMAIN g |-> rank[a]]
<1>2. new \in [DOMAIN g -> Nat]
  OBVIOUS
<1>3. Ranked(g, new)
  BY <1>1 DEF Ranked, Within
<1> QED
  BY <1>2, <1>3 DEF Ranks

\* A block that swallows the next one takes over its rank.
LEMMA RanksMerge ==
  ASSUME NEW h, WellFormed(h), Ranks(h), NEW b \in DOMAIN h, NEW s \in DOMAIN h,
         h[b].next = s, s = block_end(h, b),
         NEW g, DOMAIN g = DOMAIN h \ {s}, g[b].next = h[s].next,
         block_end(g, b) = block_end(h, s),
         \A a \in DOMAIN h \ {b, s} : g[a] = h[a]
  PROVE  Ranks(g)
<1>1. PICK rank \in [DOMAIN h -> Nat] : Ranked(h, rank)
  BY DEF Ranks
<1> DEFINE new == [a \in DOMAIN g |-> IF a = b THEN rank[s] ELSE rank[a]]
<1>2. new \in [DOMAIN g -> Nat]
  OBVIOUS
<1>3. /\ b \in Nat /\ s \in Nat /\ b < s
      /\ block_end(h, s) \in Nat /\ s < block_end(h, s)
      /\ \A a \in DOMAIN h : h[a].next \in Nat
  BY BlockFacts, LayoutAssumption
<1>4. rank[s] < rank[b]
  BY <1>1, <1>3 DEF Ranked, Within
<1>5. \A a \in DOMAIN h : rank[a] \in Nat
  OBVIOUS
<1>6. \A x \in Nat : Within(g, x, b) <=> Within(h, x, b) \/ Within(h, x, s)
  BY <1>3 DEF Within
<1>7. \A x \in Nat : \A a \in DOMAIN h \ {b, s} : Within(g, x, a) <=> Within(h, x, a)
  BY DEF Within, block_end
<1> SUFFICES ASSUME NEW a \in DOMAIN g, NEW d \in DOMAIN g, Within(g, g[a].next, d)
             PROVE  new[d] < new[a]
  BY <1>2 DEF Ranks, Ranked
<1>8. PICK c \in DOMAIN h : c = IF a = b THEN s ELSE a
  OBVIOUS
<1>9. g[a].next = h[c].next /\ new[a] = rank[c]
  BY <1>8
<1>10. CASE d = b
  <2>1. Within(h, h[c].next, b) \/ Within(h, h[c].next, s)
    BY <1>3, <1>6, <1>9, <1>10
  <2>2. rank[b] < rank[c] \/ rank[s] < rank[c]
    BY <1>1, <2>1 DEF Ranked
  <2> QED
    BY <1>4, <1>5, <1>9, <1>10, <2>2
<1>11. CASE d # b
  <2>1. Within(h, h[c].next, d)
    BY <1>3, <1>7, <1>9, <1>11
  <2> QED
    BY <1>1, <1>9, <1>11, <2>1 DEF Ranked
<1> QED
  BY <1>10, <1>11

\* The block that is made of the rest of another has the rank after it.
LEMMA RanksSplit ==
  ASSUME NEW h, WellFormed(h), Ranks(h), NEW b \in DOMAIN h,
         NEW n \in Nat, n \notin DOMAIN h, b < n, n < block_end(h, b),
         NEW g, DOMAIN g = DOMAIN h \union {n}, g[b].next = n, g[n].next = h[b].next,
         block_end(g, b) = n, block_end(g, n) = block_end(h, b),
         \A a \in DOMAIN h \ {b} : g[a] = h[a]
  PROVE  Ranks(g)
<1>1. PICK rank \in [DOMAIN h -> Nat] : Ranked(h, rank)
  BY DEF Ranks
<1> DEFINE new == [a \in DOMAIN g |-> IF a = n THEN 2 * rank[b] ELSE 2 * rank[a] + 1]
<1>2. new \in [DOMAIN g -> Nat]
  OBVIOUS
<1>3. /\ b \in Nat /\ block_end(h, b) \in Nat
      /\ \A a \in DOMAIN h : h[a].next \in Nat
      /\ \A a \in DOMAIN h : rank[a] \in Nat
  BY BlockFacts
<1>4. \A x \in Nat : Within(h, x, b) <=> Within(g, x, b) \/ Within(g, x, n)
  BY <1>3 DEF Within
<1>5. \A x \in Nat : \A a \in DOMAIN h \ {b} : Within(g, x, a) <=> Within(h, x, a)
  BY DEF Within, block_end
<1> SUFFICES ASSUME NEW a \in DOMAIN g, NEW d \in DOMAIN g, Within(g, g[a].next, d)
             PROVE  new[d] < new[a]
  BY <1>2 DEF Ranks, Ranked
<1>6. CASE a = b
  <2>1. d = n
    <3>1. Within(h, n, b) /\ ~Within(g, n, b)
      BY <1>3 DEF Within
    <3>2. ASSUME NEW e \in DOMAIN h \ {b}, Within(h, n, e)
          PROVE  FALSE
      <4>1. e \in Nat /\ block_end(h, e) \in Nat
        BY BlockFacts
      <4>2. (e < b => block_end(h, e) <= b) /\ (b < e => block_end(h, b) <= e)
        BY DEF WellFormed
      <4> QED
        BY <1>3, <3>2, <4>1, <4>2 DEF Within
    <3> QED
      BY <1>5, <1>6, <3>1, <3>2
  <2> QED
    BY <1>3, <1>6, <2>1
<1>7. CASE a # b
  <2>1. PICK c \in DOMAIN h : c = IF a = n THEN b ELSE a
    BY <1>7
  <2>2. PICK e \in DOMAIN h : e = IF d = n THEN b ELSE d
    OBVIOUS
  <2>3. g[a].next = h[c].next
    BY <1>7, <2>1
  <2>4. Within(h, h[c].next, e)
    BY <1>3, <1>4, <1>5, <2>1, <2>2, <2>3
  <2>5. rank[e] < rank[c]
    BY <1>1, <2>4 DEF Ranked
  <2>6. new[a] >= 2 * rank[c] /\ new[d] <= 2 * rank[e] + 1
    BY <1>3, <2>1, <2>2
  <2> QED
    BY <1>3, <2>1, <2>2, <2>5, <2>6
<1> QED
  BY <1>6, <1>7

\* A new last block has the least rank; so has a last block that gets new bytes.
LEMMA RanksLast ==
  ASSUME NEW h, WellFormed(h), Ranks(h),
         NEW r \in Nat, NEW g, WellFormed(g), DOMAIN g = DOMAIN h \union {r},
         g[r].next = NULL,
         \A a \in DOMAIN h \ {r} : block_end(g, a) = block_end(h, a),
         \A a \in DOMAIN h \ {r} : g[a].next \in {h[a].next, r}
  PROVE  Ranks(g)
<1>1. PICK rank \in [DOMAIN h -> Nat] : Ranked(h, rank)
  BY DEF Ranks
<1> DEFINE new == [a \in DOMAIN g |-> IF a = r THEN 0 ELSE rank[a] + 1]
<1>2. new \in [DOMAIN g -> Nat]
  OBVIOUS
<1>3. \A a \in DOMAIN h : rank[a] \in Nat
  OBVIOUS
<1> SUFFICES ASSUME NEW a \in DOMAIN g, NEW d \in DOMAIN g, Within(g, g[a].next, d)
             PROVE  new[d] < new[a]
  BY <1>2 DEF Ranks, Ranked
<1>4. a # r
  <2>1. d \in Nat \ {0}
    BY BlockFacts
  <2> QED
    BY <2>1 DEF Within
<1>5. CASE d = r
  BY <1>3, <1>4, <1>5
<1>6. CASE d # r
  <2>1. g[a].next # r
    <3>1. r \in DOMAIN g /\ d \in Nat /\ block_end(g, d) \in Nat
      BY BlockFacts
    <3>2. d < r => block_end(g, d) <= r
      BY <3>1 DEF WellFormed
    <3> QED
      BY <1>6, <3>1, <3>2 DEF Within
  <2>2. Within(h, h[a].next, d) /\ a \in DOMAIN h /\ d \in DOMAIN h
    BY <1>4, <1>6, <2>1 DEF Within
  <2>3. rank[d] < rank[a]
    BY <1>1, <2>2 DEF Ranked
  <2> QED
    BY <1>3, <1>4, <1>6, <2>2, <2>3
<1> QED
  BY <1>5, <1>6

\* Every step keeps the blocks ranked.
LEMMA NextRanks ==
  ASSUME SInv, Ranks(hdr), [Next]_vars
  PROVE  Ranks(hdr')
<1>1. WellFormed(hdr) /\ WellFormed(hdr')
  BY NextInv DEF SInv, HInv
<1>2. CASE SearchMerge \/ FreeMerge
  <2> DEFINE s == hdr[block].next
  <2>1. /\ block \in DOMAIN hdr /\ s \in DOMAIN hdr
        /\ s = block_end(hdr, block)
        /\ DOMAIN hdr' = DOMAIN hdr \ {s}
        /\ hdr'[block].next = hdr[s].next
        /\ block_end(hdr', block) = block_end(hdr, s)
        /\ \A a \in DOMAIN hdr \ {block, s} : hdr'[a] = hdr[a]
    BY <1>2, MergeEffect
  <2>2. ASSUME NEW h, h = hdr, NEW g, g = hdr', NEW t, t = s
        PROVE  Ranks(g)
    BY <1>1, <2>1, <2>2, RanksMerge
  <2> QED
    BY <2>2
<1>3. CASE SearchTakes
  <2>1. /\ block \in DOMAIN hdr
        /\ \A a \in DOMAIN hdr \ {block} : hdr'[a] = hdr[a]
    BY <1>3, TakesEffect
  <2>2. CASE /\ DOMAIN hdr' = DOMAIN hdr
             /\ hdr'[block].next = hdr[block].next
             /\ block_end(hdr', block) = block_end(hdr, block)
    <3>1. \A a \in DOMAIN hdr' : hdr'[a].next = hdr[a].next
                                  /\ block_end(hdr', a) = block_end(hdr, a)
      BY <2>1, <2>2 DEF block_end
    <3> QED
      BY <2>2, <3>1, RanksFewer
  <2>3. ASSUME NEW n \in Addr, n \notin DOMAIN hdr,
               DOMAIN hdr' = DOMAIN hdr \union {n},
               hdr'[block].next = n, block_end(hdr', block) = n,
               hdr'[n].next = hdr[block].next,
               block_end(hdr', n) = block_end(hdr, block)
        PROVE  Ranks(hdr')
    <3>1. block < n /\ n < block_end(hdr, block) /\ n \in Nat
      BY <1>1, <2>1, <2>3, BlockFacts, LayoutAssumption
    <3>2. ASSUME NEW h, h = hdr, NEW g, g = hdr'
          PROVE  Ranks(g)
      BY <1>1, <2>1, <2>3, <3>1, <3>2, RanksSplit
    <3> QED
      BY <3>2
  <2> QED
    BY <1>3, <2>2, <2>3, TakesEffect
<1>4. CASE GrowHeap
  <2>1. /\ block \in DOMAIN hdr
        /\ \A a \in DOMAIN hdr \ {block} : hdr'[a] = hdr[a]
    BY <1>4, GrowEffect
  <2>2. ASSUME NEW r \in Nat, DOMAIN hdr' = DOMAIN hdr \union {r},
               hdr'[r].next = NULL, r # block => hdr'[block].next = r,
               r # block => block_end(hdr', block) = block_end(hdr, block)
        PROVE  Ranks(hdr')
    <3>1. \A a \in DOMAIN hdr \ {r} : hdr'[a].next \in {hdr[a].next, r}
                                       /\ block_end(hdr', a) = block_end(hdr, a)
      BY <2>1, <2>2 DEF block_end
    <3>2. ASSUME NEW h, h = hdr, NEW g, g = hdr'
          PROVE  Ranks(g)
      BY <1>1, <2>2, <3>1, <3>2, RanksLast
    <3> QED
      BY <3>2
  <2>3. CASE DOMAIN hdr' = DOMAIN hdr /\ hdr'[block].next = NULL
    <3>1. block \in Nat
      BY <2>1, NotNull
    <3> QED
      BY <2>1, <2>2, <2>3, <3>1
  <2>4. CASE \E r \in Addr : /\ DOMAIN hdr' = DOMAIN hdr \union {r}
                             /\ hdr'[block].next = r
                             /\ block_end(hdr', block) = block_end(hdr, block)
                             /\ hdr'[r].next = NULL
    BY <2>2, <2>4, SpaceAssumption DEF Addr
  <2> QED
    BY <1>4, <2>3, <2>4, GrowEffect
<1>5. ASSUME NEW q \in InitSizes, HeapInit(q)
      PROVE  Ranks(hdr')
  <2>1. /\ start' \in Addr
        /\ DOMAIN hdr' = DOMAIN hdr \union {start'}
        /\ hdr'[start'].next = NULL
        /\ \A a \in DOMAIN hdr \ {start'} : hdr'[a] = hdr[a]
    BY <1>5, HeapInitEffect
  <2>2. \A a \in DOMAIN hdr \ {start'} : hdr'[a].next \in {hdr[a].next, start'}
                                          /\ block_end(hdr', a) = block_end(hdr, a)
    BY <2>1 DEF block_end
  <2>3. start' \in Nat
    BY <2>1, SpaceAssumption DEF Addr
  <2>4. ASSUME NEW h, h = hdr, NEW g, g = hdr', NEW r, r = start'
        PROVE  Ranks(g)
    BY <1>1, <2>1, <2>2, <2>3, <2>4, RanksLast
  <2> QED
    BY <2>4
<1>6. ASSUME NEW p \in DOMAIN live, FreeCall(p)
      PROVE  Ranks(hdr')
  <2>1. /\ DOMAIN hdr' = DOMAIN hdr
        /\ \A a \in DOMAIN hdr : block_end(hdr', a) = block_end(hdr, a)
        /\ \A a \in DOMAIN hdr : hdr'[a].next = hdr[a].next
    BY <1>6, FreeCallEffect
  <2> QED
    BY <2>1, RanksFewer
<1>7. CASE SpanUnmaps
  <2>1. DOMAIN hdr' \subseteq DOMAIN hdr /\ \A b \in DOMAIN hdr' : hdr'[b] = hdr[b]
    BY <1>7, UnmapEffect
  <2>2. \A a \in DOMAIN hdr' : hdr'[a].next = hdr[a].next
                                /\ block_end(hdr', a) = block_end(hdr, a)
    BY <2>1 DEF block_end
  <2> QED
    BY <2>1, <2>2, RanksFewer
<1>8. CASE hdr' = hdr
  BY <1>8
<1>9. \/ SearchMerge \/ FreeMerge \/ SearchTakes \/ GrowHeap
      \/ (\E q \in InitSizes : HeapInit(q)) \/ (\E p \in DOMAIN live : FreeCall(p))
      \/ SpanUnmaps \/ hdr' = hdr
  BY DEF Next, Step, Call, Other, OtherMaps, OtherUnmaps, Undefined, vars, heapVars,
     SearchWild, TermWild, Wild, SearchAdvances, SearchExhausted, SearchGivesUp, GrowFails,
     FreeReturns, TermEnters, SpanExtends, SpanExtendsBy, SpanStaysMapped, TermReturns,
     HeapInitFails, MallocCall, TermCall
<1> QED
  BY <1>2, <1>3, <1>4, <1>5, <1>6, <1>7, <1>8, <1>9

-----------------------------------------------------------------------------
(* Blocks the searches have gone through *)

\* P: blocks a search has come to, one after the other from HEAP_START.  Whatever
\* link it has followed leads to a block or to NULL; that of block e it has not.
\* W: those whose link, and the links of all the free neighbours behind, it has.
Walked(h, P, W, e) ==
  /\ P # {} => HEAP_START \in P
  /\ \A a \in P : /\ h[a].next # HEAP_START
                  /\ a # e => h[a].next \in DOMAIN h \union {NULL}
  /\ \A a, b \in P : h[a].next \notin P /\ h[b].next \notin P => a = b
  /\ \A a, b \in P : h[a].next = h[b].next => a = b
  /\ \A a \in W : /\ h[a].next \in DOMAIN h \union {NULL}
                  /\ h[a].next # NULL /\ h[a].next = block_end(h, a) /\ h[h[a].next].is_free
                       => h[a].next \in W

\* A search that has followed all links may as well not have followed one.
LEMMA WalkExcept ==
  ASSUME NEW h, NEW P, NEW W, NEW e, Walked(h, P, W, NULL), NULL \notin P
  PROVE  Walked(h, P, W, e)
  BY DEF Walked

\* The search comes to one more block.
LEMMA WalkOn ==
  ASSUME NEW h, WellFormed(h), Ranks(h),
         NEW P \in SUBSET DOMAIN h, NEW W \in SUBSET P, NEW b \in P, Walked(h, P, W, b),
         h[b].next \in DOMAIN h
  PROVE  Walked(h, P \union {h[b].next}, W, h[b].next)
<1> DEFINE n == h[b].next
           U == P \union {n}
<1>1. CASE n \in P
  BY <1>1 DEF Walked
<1>2. CASE n \notin P
  <2>1. \A a \in P : h[a].next \in U
    BY <1>2 DEF Walked
  <2>2. h[n].next \notin U
    BY <2>1, NoCycle
  <2>3. HEAP_START \in P
    BY DEF Walked
  <2>4. h[n].next # HEAP_START
    BY <2>2, <2>3
  <2>5. \A a, c \in U : h[a].next = h[c].next => a = c
    BY <2>1, <2>2 DEF Walked
  <2>6. \A a, c \in U : h[a].next \notin U /\ h[c].next \notin U => a = c
    BY <2>1
  <2>7. \A a \in U : h[a].next # HEAP_START /\ (a # n => h[a].next \in DOMAIN h \union {NULL})
    BY <2>4 DEF Walked
  <2> HIDE DEF U
  <2>8. HEAP_START \in U
    BY <2>3 DEF U
  <2> QED
    BY <2>5, <2>6, <2>7, <2>8 DEF Walked, U
<1> QED
  BY <1>1, <1>2

\* A block the search has come to swallows the next one.
LEMMA WalkMerge ==
  ASSUME NEW h, WellFormed(h), Ranks(h),
         NEW P \in SUBSET DOMAIN h, NEW W \in SUBSET P, NEW e, Walked(h, P, W, e),
         NEW b \in P, NEW s \in DOMAIN h, h[b].next = s, s # NULL, s # b, s = block_end(h, b),
         h[b].is_free, h[s].is_free, b = e \/ b \in W,
         NEW g, DOMAIN g = DOMAIN h \ {s}, g[b].next = h[s].next, g[b].is_free,
         block_end(g, b) = block_end(h, s),
         \A a \in DOMAIN h \ {b, s} : g[a] = h[a]
  PROVE  Walked(g, P \ {s}, W \ {s}, e)
<1> DEFINE Q == P \ {s}
<1>1. \A a \in Q \ {b} : g[a] = h[a] /\ g[a].next = h[a].next /\ h[a].next # s
  BY DEF Walked
<1>2. HEAP_START \in P /\ HEAP_START # s
  BY DEF Walked
<1>3. h[s].next # s
  BY NoCycle
<1>4. s \notin P => \A a \in P : h[a].next \in P \union {s}
  BY DEF Walked
<1>5. s \notin P => h[s].next \notin P \union {s}
  BY <1>4, NoCycle
<1>6. h[s].next # HEAP_START
  BY <1>2, <1>5 DEF Walked
<1>7. \A a \in Q : g[a].next # HEAP_START
  BY <1>1, <1>6 DEF Walked
<1>8. b \in W => s \in W
  BY DEF Walked
<1>9. \A a \in Q : a # e => g[a].next \in DOMAIN g \union {NULL}
  BY <1>1, <1>3, <1>8 DEF Walked
<1>10. \A a, c \in Q : g[a].next = g[c].next => a = c
  <2>1. \A a \in Q \ {b} : h[a].next # h[s].next
    BY <1>4, <1>5 DEF Walked
  <2> QED
    BY <1>1, <2>1 DEF Walked
<1>11. \A a, c \in Q : g[a].next \notin Q /\ g[c].next \notin Q => a = c
  <2>1. \A a \in Q \ {b} : g[a].next \notin Q => h[a].next \notin P
    BY <1>1
  <2>2. CASE s \in P
    <3>1. g[b].next \notin Q => h[s].next \notin P
      BY <1>3
    <3>2. \A a \in Q \ {b} : g[a].next \notin Q => g[b].next \in Q
      BY <2>1, <2>2, <3>1 DEF Walked
    <3> QED
      BY <2>1, <3>2 DEF Walked
  <2>3. CASE s \notin P
    BY <1>4, <2>1, <2>3, <1>1
  <2> QED
    BY <2>2, <2>3
<1>12. \A a \in W \ {s} : g[a].next \in DOMAIN g \union {NULL}
  BY <1>1, <1>3, <1>8 DEF Walked
<1>13. ASSUME NEW a \in W \ {s}, g[a].next # NULL, g[a].next = block_end(g, a),
              g[g[a].next].is_free
       PROVE  g[a].next \in W \ {s}
  <2>1. CASE a = b
    <3>1. h[s].next # b
      BY <1>1, <1>12, <2>1, <1>13, <1>3, <1>8, BlockFacts, LayoutAssumption DEF Walked
    <3>2. h[s].next = block_end(h, s) /\ h[h[s].next].is_free
      BY <1>1, <1>12, <1>13, <2>1, <3>1
    <3> QED
      BY <1>3, <1>8, <1>13, <2>1, <3>2 DEF Walked
  <2>2. CASE a # b
    <3>1. h[a].next = block_end(h, a) /\ g[a].next = h[a].next /\ h[a].next # s
      BY <1>1, <1>13, <2>2 DEF block_end
    <3>2. h[h[a].next].is_free
      BY <1>12, <1>13, <3>1
    <3> QED
      BY <1>13, <3>1, <3>2 DEF Walked
  <2> QED
    BY <2>1, <2>2
<1> HIDE DEF Q
<1>14. Q # {} => HEAP_START \in Q
  BY <1>2 DEF Q
<1> QED
  BY <1>7, <1>9, <1>10, <1>11, <1>12, <1>13, <1>14 DEF Walked, Q

\* The search takes the block it is at.
LEMMA WalkTakes ==
  ASSUME NEW h, NEW P \in SUBSET DOMAIN h, NEW W \in SUBSET P, NEW b \in P, Walked(h, P, W, b),
         h[b].is_free, h[b].next \in DOMAIN h \union {NULL}, ~mergeable(h, b),
         NEW g, DOMAIN g = DOMAIN h, g[b].next = h[b].next, ~g[b].is_free,
         block_end(g, b) = block_end(h, b),
         \A a \in DOMAIN h \ {b} : g[a] = h[a]
  PROVE  Walked(g, P, W \union {b}, NULL)
<1>1. \A a \in P : g[a].next = h[a].next /\ block_end(g, a) = block_end(h, a)
  BY DEF block_end
<1>2. \A a \in P : g[a].next \in DOMAIN g \union {NULL} /\ g[a].next # HEAP_START
  BY <1>1 DEF Walked
<1>3. ASSUME NEW a \in W \union {b}, g[a].next # NULL, g[a].next = block_end(g, a),
             g[g[a].next].is_free
      PROVE  g[a].next \in W
  <2>1. h[a].next # b /\ h[h[a].next].is_free /\ h[a].next = block_end(h, a)
    BY <1>1, <1>2, <1>3
  <2>2. a # b
    BY <1>1, <1>3, <2>1 DEF mergeable
  <2> QED
    BY <1>1, <1>3, <2>1, <2>2 DEF Walked
<1>4. /\ P # {} => HEAP_START \in P
      /\ \A a, c \in P : g[a].next \notin P /\ g[c].next \notin P => a = c
      /\ \A a, c \in P : g[a].next = g[c].next => a = c
  BY <1>1 DEF Walked
<1> QED
  BY <1>2, <1>3, <1>4 DEF Walked

\* The same, and what is too big of the block becomes a block n.
LEMMA WalkSplits ==
  ASSUME NEW h, NEW P \in SUBSET DOMAIN h, NEW W \in SUBSET P, NEW b \in P, Walked(h, P, W, b),
         h[b].is_free, h[b].next \in DOMAIN h \union {NULL}, ~mergeable(h, b),
         NEW n, n \notin DOMAIN h, n # NULL,
         NEW g, DOMAIN g = DOMAIN h \union {n}, g[b].next = n, ~g[b].is_free,
         g[n].next = h[b].next, block_end(g, n) = block_end(h, b),
         \A a \in DOMAIN h \ {b} : g[a] = h[a]
  PROVE  Walked(g, P \union {n}, W \union {b, n}, NULL)
<1> DEFINE Q == P \union {n}
           V == W \union {b, n}
<1>1. \A a \in P \ {b} : g[a].next = h[a].next /\ block_end(g, a) = block_end(h, a)
  BY DEF block_end
<1>2. \A a \in P : h[a].next \in DOMAIN h \union {NULL} /\ h[a].next # n
  BY DEF Walked
<1>3. HEAP_START \in P /\ HEAP_START # n
  BY DEF Walked
<1>4. \A a \in Q : g[a].next \in DOMAIN g \union {NULL} /\ g[a].next # HEAP_START
  BY <1>1, <1>2, <1>3 DEF Walked
<1>5. \A a, c \in Q : g[a].next = g[c].next => a = c
  BY <1>1, <1>2 DEF Walked
<1>6. \A a, c \in Q : g[a].next \notin Q /\ g[c].next \notin Q => a = c
  <2>1. \A a \in P \ {b} : g[a].next \notin Q => h[a].next \notin P
    BY <1>1
  <2>2. \A a \in P \ {b} : g[a].next \notin Q => h[b].next \in Q
    BY <2>1 DEF Walked
  <2>3. \A a, c \in P \ {b} : g[a].next \notin Q /\ g[c].next \notin Q => a = c
    BY <2>1 DEF Walked
  <2> QED
    BY <2>2, <2>3
<1>7. ASSUME NEW a \in V, g[a].next # NULL, g[a].next = block_end(g, a), g[g[a].next].is_free
      PROVE  g[a].next \in V
  <2>1. CASE a = b
    BY <2>1
  <2>2. CASE a = n
    <3>1. h[b].next # b /\ h[b].next \in DOMAIN h
      BY <1>4, <1>7, <2>2
    <3>2. g[h[b].next] = h[h[b].next]
      BY <3>1
    <3> QED
      BY <1>7, <2>2, <3>1, <3>2 DEF mergeable
  <2>3. CASE a # b /\ a # n
    <3>1. h[a].next = block_end(h, a) /\ g[a].next = h[a].next /\ h[a].next \in DOMAIN h
      BY <1>1, <1>2, <1>7, <2>3
    <3>2. h[a].next # b
      BY <1>7, <3>1
    <3> QED
      BY <1>7, <2>3, <3>1, <3>2 DEF Walked
  <2> QED
    BY <2>1, <2>2, <2>3
<1> HIDE DEF Q, V
<1>8. HEAP_START \in Q /\ V \subseteq Q
  BY <1>3 DEF Q, V
<1> QED
  BY <1>4, <1>5, <1>6, <1>7, <1>8 DEF Walked, Q, V

\* Block b, the last of the list, is linked to a new block r.
LEMMA WalkGrows ==
  ASSUME NEW h, NEW P \in SUBSET DOMAIN h, NEW W \in SUBSET P, NEW b \in P, Walked(h, P, W, NULL),
         NULL \notin DOMAIN h, HEAP_START # NULL,
         h[b].next = NULL, NEW r, r \notin DOMAIN h, r # NULL,
         NEW g, DOMAIN g = DOMAIN h \union {r}, g[b].next = r, g[r].next = NULL,
         \A a \in DOMAIN h \ {b} : g[a] = h[a], g[b].is_free = h[b].is_free
  PROVE  Walked(g, P \union {r}, W \union {r}, r)
<1> DEFINE Q == P \union {r}
           V == W \union {r}
<1>1. \A a \in P \ {b} : /\ g[a].next = h[a].next /\ block_end(g, a) = block_end(h, a)
                         /\ h[a].next \in P
  BY DEF block_end, Walked
<1>2. HEAP_START \in P /\ HEAP_START # r
  BY DEF Walked
<1>3. \A a \in Q : g[a].next \in DOMAIN g \union {NULL} /\ g[a].next # HEAP_START
  BY <1>1, <1>2 DEF Walked
<1>4. \A a, c \in Q : g[a].next = g[c].next => a = c
  BY <1>1 DEF Walked
<1>5. \A a, c \in Q : g[a].next \notin Q /\ g[c].next \notin Q => a = c
  BY <1>1
<1>6. ASSUME NEW a \in V, g[a].next # NULL, g[a].next = block_end(g, a), g[g[a].next].is_free
      PROVE  g[a].next \in V
  <2>1. CASE a \in {b, r}
    BY <1>6, <2>1
  <2>2. CASE a \notin {b, r}
    BY <1>1, <1>6, <2>2 DEF Walked
  <2> QED
    BY <2>1, <2>2
<1> HIDE DEF Q, V
<1>7. HEAP_START \in Q /\ V \subseteq Q
  BY <1>2 DEF Q, V
<1> QED
  BY <1>3, <1>4, <1>5, <1>6, <1>7 DEF Walked, Q, V

\* Headers of blocks of W, or the end of the last block, change.
LEMMA WalkSame ==
  ASSUME NEW h, NEW P \in SUBSET DOMAIN h, NEW W \in SUBSET P, NEW e, Walked(h, P, W, e),
         NEW g, DOMAIN g = DOMAIN h, \A a \in DOMAIN h : g[a].next = h[a].next,
         \A a \in DOMAIN h : h[a].next # NULL => block_end(g, a) = block_end(h, a),
         \A a \in DOMAIN h \ W : g[a].is_free = h[a].is_free
  PROVE  Walked(g, P, W, e)
<1>1. ASSUME NEW a \in W, g[a].next # NULL, g[a].next = block_end(g, a), g[g[a].next].is_free
      PROVE  g[a].next \in W
  BY <1>1 DEF Walked
<1> QED
  BY <1>1 DEF Walked

-----------------------------------------------------------------------------
(* _free reads only headers *)

\* What a search or a _free in progress has gone through, and every block that
\* _malloc has handed out: P and W as above.
GoneThrough(P, W) ==
  /\ Walked(hdr, P, W, IF pc = "find" THEN block ELSE NULL)
  /\ \A p \in DOMAIN live : block_get_header(p) \in W
  /\ pc = "free" => block \in W
  /\ pc \in {"find", "grow"} => block \in P

Trail == \E P \in SUBSET DOMAIN hdr : \E W \in SUBSET P : GoneThrough(P, W)

FreeInv ==
  /\ Ranks(hdr)
  /\ start = NULL => DOMAIN live = {}
  /\ pc \in {"find", "grow", "free"} => start # NULL
  /\ pc # "wild" /\ (pc = "find" => block \in DOMAIN hdr) => Trail

\* Nothing has been gone through when the client holds no pointer.
LEMMA EmptyTrail ==
  ASSUME DOMAIN live = {}, pc \notin {"find", "grow", "free"}
  PROVE  Trail
<1>1. Walked(hdr, {}, {}, NULL)
  BY DEF Walked
<1>2. GoneThrough({}, {})
  BY <1>1 DEF GoneThrough
<1> QED
  BY <1>2 DEF Trail

\* The trail after a step.
LEMMA NewTrail ==
  ASSUME NEW P \in SUBSET DOMAIN hdr', NEW W \in SUBSET P,
         Walked(hdr', P, W, IF pc' = "find" THEN block' ELSE NULL),
         \A p \in DOMAIN live' : block_get_header(p) \in W,
         pc' = "free" => block' \in W,
         pc' \in {"find", "grow"} => block' \in P
  PROVE  Trail'
  BY DEF Trail, GoneThrough, block_get_header

\* The trail stays a trail when a search or _free merges blocks,
LEMMA MergeTrail ==
  ASSUME SInv, FreeInv, SearchMerge \/ FreeMerge
  PROVE  Trail'
<1> DEFINE e == IF pc = "find" THEN block ELSE NULL
<1>1. /\ pc \in {"find", "free"} /\ UNCHANGED <<clientVars, pc, locals>>
      /\ block \in DOMAIN hdr /\ hdr[block].is_free
  BY MergeEffect
<1>2. PICK s \in DOMAIN hdr :
        /\ s = hdr[block].next /\ hdr[s].is_free
        /\ s # NULL /\ s # block /\ s = block_end(hdr, block)
        /\ DOMAIN hdr' = DOMAIN hdr \ {s}
        /\ hdr'[block].next = hdr[s].next
        /\ hdr'[block].is_free
        /\ block_end(hdr', block) = block_end(hdr, s)
        /\ \A a \in DOMAIN hdr \ {block, s} : hdr'[a] = hdr[a]
  BY MergeEffect
<1>3. PICK P \in SUBSET DOMAIN hdr : \E W \in SUBSET P : GoneThrough(P, W)
  BY <1>1 DEF FreeInv, Trail
<1>4. PICK W \in SUBSET P : GoneThrough(P, W)
  BY <1>3
<1>5. block \in P /\ (block = e \/ block \in W)
  BY <1>1, <1>4 DEF GoneThrough
<1>6. Walked(hdr, P, W, e)
  BY <1>4 DEF GoneThrough
<1>7. WellFormed(hdr) /\ Ranks(hdr)
  BY DEF SInv, HInv, FreeInv
<1>8. pc' = pc /\ block' = block /\ live' = live
  BY <1>1 DEF clientVars, locals
<1> HIDE DEF e
<1>9. ASSUME NEW h, h = hdr, NEW g, g = hdr'
      PROVE  Walked(g, P \ {s}, W \ {s}, e)
  BY <1>1, <1>2, <1>5, <1>6, <1>7, <1>9, WalkMerge
<1>10. Walked(hdr', P \ {s}, W \ {s}, e)
  BY <1>9
<1>11. \A p \in DOMAIN live : block_get_header(p) \in W \ {s}
  BY <1>2, <1>4 DEF SInv, LiveOK, GoneThrough
<1>12. P \ {s} \in SUBSET DOMAIN hdr' /\ W \ {s} \in SUBSET (P \ {s})
  BY <1>2
<1>13. /\ pc = "free" => block \in W \ {s}
       /\ block \in P \ {s}
  BY <1>2, <1>4, <1>5 DEF GoneThrough
<1>14. Walked(hdr', P \ {s}, W \ {s}, IF pc' = "find" THEN block' ELSE NULL)
  BY <1>8, <1>10 DEF e
<1> QED
  BY <1>8, <1>11, <1>12, <1>13, <1>14, NewTrail

\* when a search takes a block: its link has been followed,
LEMMA TakesTrail ==
  ASSUME SInv, FreeInv, SearchTakes
  PROVE  Trail'
<1>1. /\ pc = "find" /\ pc' = "idle"
      /\ block \in DOMAIN hdr /\ hdr[block].is_free
      /\ hdr[block].next \in DOMAIN hdr \union {NULL}
      /\ ~mergeable(hdr, block)
      /\ DOMAIN live' = DOMAIN live \union {contents(block)}
      /\ ~hdr'[block].is_free
      /\ \A a \in DOMAIN hdr \ {block} : hdr'[a] = hdr[a]
  BY TakesEffect
<1>2. PICK P \in SUBSET DOMAIN hdr : \E W \in SUBSET P : GoneThrough(P, W)
  BY <1>1 DEF FreeInv, Trail
<1>3. PICK W \in SUBSET P : GoneThrough(P, W)
  BY <1>2
<1>4. Walked(hdr, P, W, block) /\ block \in P
  BY <1>1, <1>3 DEF GoneThrough
<1>5. \A p \in DOMAIN live' : block_get_header(p) \in W \union {block}
  <2>1. block_get_header(contents(block)) = block
    BY <1>1, HeaderOfContents, NotNull
  <2> QED
    BY <1>1, <1>3, <2>1 DEF GoneThrough
<1>6. CASE /\ DOMAIN hdr' = DOMAIN hdr
           /\ hdr'[block].next = hdr[block].next
           /\ block_end(hdr', block) = block_end(hdr, block)
  <2>1. ASSUME NEW h, h = hdr, NEW g, g = hdr'
        PROVE  Walked(g, P, W \union {block}, NULL)
    BY <1>1, <1>4, <1>6, <2>1, WalkTakes
  <2>2. W \union {block} \in SUBSET P /\ P \in SUBSET DOMAIN hdr'
    BY <1>4, <1>6
  <2> QED
    BY <1>1, <1>5, <2>1, <2>2, NewTrail
<1>7. ASSUME NEW n \in Addr, n \notin DOMAIN hdr, DOMAIN hdr' = DOMAIN hdr \union {n},
             hdr'[block].next = n, hdr'[n].next = hdr[block].next,
             block_end(hdr', n) = block_end(hdr, block)
      PROVE  Trail'
  <2>1. n # NULL
    BY <1>7, SpaceAssumption DEF Addr
  <2>2. ASSUME NEW h, h = hdr, NEW g, g = hdr'
        PROVE  Walked(g, P \union {n}, W \union {block, n}, NULL)
    BY <1>1, <1>4, <1>7, <2>1, <2>2, WalkSplits
  <2>3. W \union {block, n} \in SUBSET (P \union {n}) /\ P \union {n} \in SUBSET DOMAIN hdr'
    BY <1>4, <1>7
  <2>4. \A p \in DOMAIN live' : block_get_header(p) \in W \union {block, n}
    BY <1>5
  <2> QED
    BY <1>1, <2>2, <2>3, <2>4, NewTrail
<1> QED
  BY <1>6, <1>7, TakesEffect

\* when the list is extended,
LEMMA GrowTrail ==
  ASSUME SInv, FreeInv, GrowHeap
  PROVE  Trail'
<1>1. /\ pc = "grow" /\ pc' = "find" /\ UNCHANGED clientVars
      /\ block \in DOMAIN hdr /\ hdr[block].next = NULL
      /\ hdr'[block].is_free = hdr[block].is_free
      /\ \A a \in DOMAIN hdr \ {block} : hdr'[a] = hdr[a]
  BY GrowEffect
<1>2. PICK P \in SUBSET DOMAIN hdr : \E W \in SUBSET P : GoneThrough(P, W)
  BY <1>1 DEF FreeInv, Trail
<1>3. PICK W \in SUBSET P : GoneThrough(P, W)
  BY <1>2
<1>4. Walked(hdr, P, W, NULL) /\ block \in P
  BY <1>1, <1>3 DEF GoneThrough
<1>5. \A p \in DOMAIN live' : block_get_header(p) \in W
  BY <1>1, <1>3 DEF GoneThrough, clientVars
<1>6. CASE block' = block /\ DOMAIN hdr' = DOMAIN hdr /\ hdr'[block].next = NULL
  <2>1. \A a \in DOMAIN hdr : hdr'[a].next = hdr[a].next /\ hdr'[a].is_free = hdr[a].is_free
    BY <1>1, <1>6
  <2>2. \A a \in DOMAIN hdr : hdr[a].next # NULL => block_end(hdr', a) = block_end(hdr, a)
    BY <1>1 DEF block_end
  <2>3. ASSUME NEW h, h = hdr, NEW g, g = hdr'
        PROVE  Walked(g, P, W, NULL)
    BY <1>4, <1>6, <2>1, <2>2, <2>3, WalkSame
  <2>4. Walked(hdr', P, W, block')
    BY <2>3, WalkExcept, NotNull
  <2> QED
    BY <1>1, <1>4, <1>5, <1>6, <2>4, NewTrail
<1>7. ASSUME NEW r \in Addr, block' = r, r \notin DOMAIN hdr, DOMAIN hdr' = DOMAIN hdr \union {r},
             hdr'[block].next = r, hdr'[r].next = NULL
      PROVE  Trail'
  <2>1. r # NULL /\ HEAP_START # NULL /\ NULL \notin DOMAIN hdr
    BY <1>7, NotNull, SpaceAssumption DEF Addr
  <2>2. ASSUME NEW h, h = hdr, NEW g, g = hdr'
        PROVE  Walked(g, P \union {r}, W \union {r}, r)
    BY <1>1, <1>4, <1>7, <2>1, <2>2, WalkGrows
  <2>3. W \union {r} \in SUBSET (P \union {r}) /\ P \union {r} \in SUBSET DOMAIN hdr'
    BY <1>4, <1>7
  <2> QED
    BY <1>1, <1>5, <1>7, <2>2, <2>3, NewTrail
<1> QED
  BY <1>6, <1>7, GrowEffect

\* when the client frees a block, which is on the trail,
LEMMA FreeCallTrail ==
  ASSUME SInv, FreeInv, NEW p \in DOMAIN live, FreeCall(p)
  PROVE  Trail'
<1>1. /\ pc = "idle" /\ pc' = "free"
      /\ DOMAIN live' = DOMAIN live \ {p}
      /\ DOMAIN hdr' = DOMAIN hdr
  BY FreeCallEffect
<1>2. PICK b \in DOMAIN hdr :
        /\ b = block_get_header(p) /\ block' = b
        /\ hdr'[b].next = hdr[b].next
        /\ \A a \in DOMAIN hdr : block_end(hdr', a) = block_end(hdr, a)
        /\ \A a \in DOMAIN hdr \ {b} : hdr'[a] = hdr[a]
  BY FreeCallEffect
<1>3. PICK P \in SUBSET DOMAIN hdr : \E W \in SUBSET P : GoneThrough(P, W)
  BY <1>1 DEF FreeInv, Trail
<1>4. PICK W \in SUBSET P : GoneThrough(P, W)
  BY <1>3
<1>5. Walked(hdr, P, W, NULL) /\ b \in W
  BY <1>1, <1>2, <1>4 DEF GoneThrough
<1>6. /\ \A a \in DOMAIN hdr : hdr'[a].next = hdr[a].next
      /\ \A a \in DOMAIN hdr \ W : hdr'[a].is_free = hdr[a].is_free
  BY <1>2, <1>5
<1>7. ASSUME NEW h, h = hdr, NEW g, g = hdr'
      PROVE  Walked(g, P, W, NULL)
  BY <1>1, <1>2, <1>5, <1>6, <1>7, WalkSame
<1>8. \A r \in DOMAIN live' : block_get_header(r) \in W
  BY <1>1, <1>4 DEF GoneThrough
<1>9. P \in SUBSET DOMAIN hdr'
  BY <1>1
<1> QED
  BY <1>1, <1>2, <1>5, <1>7, <1>8, <1>9, NewTrail

\* when a search begins at HEAP_START,
LEMMA MallocCallTrail ==
  ASSUME SInv, FreeInv, NEW q \in Queries, MallocCall(q), HEAP_START \in DOMAIN hdr
  PROVE  Trail'
<1>1. /\ pc = "idle" /\ pc' = "find" /\ block' = HEAP_START
      /\ hdr' = hdr /\ live' = live
  BY DEF MallocCall, heapVars, clientVars
<1>2. PICK P \in SUBSET DOMAIN hdr : \E W \in SUBSET P : GoneThrough(P, W)
  BY <1>1 DEF FreeInv, Trail
<1>3. PICK W \in SUBSET P : GoneThrough(P, W)
  BY <1>2
<1>4. Walked(hdr, P, W, NULL) /\ \A p \in DOMAIN live : block_get_header(p) \in W
  BY <1>1, <1>3 DEF GoneThrough
<1>5. WellFormed(hdr) /\ Ranks(hdr)
  BY DEF SInv, HInv, FreeInv
<1>6. HEAP_START # NULL
  BY SpaceAssumption DEF Addr
<1>7. CASE P = {}
  <2>1. hdr[HEAP_START].next # HEAP_START
    <3>1. {HEAP_START} \in SUBSET DOMAIN hdr /\ {HEAP_START} # {}
      OBVIOUS
    <3>2. \E b \in {HEAP_START} : hdr[b].next \notin {HEAP_START}
      BY <1>5, <3>1, NoCycle
    <3> QED
      BY <3>2
  <2>2. Walked(hdr', {HEAP_START}, W, HEAP_START)
    BY <1>1, <1>7, <2>1 DEF Walked
  <2>3. {HEAP_START} \in SUBSET DOMAIN hdr' /\ W \in SUBSET {HEAP_START}
    BY <1>1, <1>7
  <2> QED
    BY <1>1, <1>4, <2>2, <2>3, NewTrail
<1>8. CASE P # {}
  <2>1. HEAP_START \in P
    BY <1>4, <1>8 DEF Walked
  <2>2. Walked(hdr, P, W, HEAP_START)
    BY <1>4, WalkExcept, NotNull
  <2> QED
    BY <1>1, <1>4, <2>1, <2>2, NewTrail
<1> QED
  BY <1>7, <1>8

\* and when it goes on to the next block.
LEMMA AdvanceTrail ==
  ASSUME SInv, FreeInv, SearchAdvances, hdr[block].next \in DOMAIN hdr
  PROVE  Trail'
<1>1. /\ pc = "find" /\ pc' = "find" /\ block' = hdr[block].next
      /\ hdr' = hdr /\ live' = live
      /\ block \in DOMAIN hdr
  BY DEF SearchAdvances, SearchPasses, Searching, Dangling, heapVars, clientVars
<1>2. PICK P \in SUBSET DOMAIN hdr : \E W \in SUBSET P : GoneThrough(P, W)
  BY <1>1 DEF FreeInv, Trail
<1>3. PICK W \in SUBSET P : GoneThrough(P, W)
  BY <1>2
<1>4. /\ Walked(hdr, P, W, block) /\ block \in P
      /\ \A p \in DOMAIN live : block_get_header(p) \in W
  BY <1>1, <1>3 DEF GoneThrough
<1>5. WellFormed(hdr) /\ Ranks(hdr)
  BY DEF SInv, HInv, FreeInv
<1>6. PICK n \in DOMAIN hdr : n = hdr[block].next
  OBVIOUS
<1>7. Walked(hdr, P \union {n}, W, n)
  BY <1>4, <1>5, <1>6, WalkOn
<1>8. P \union {n} \in SUBSET DOMAIN hdr' /\ W \in SUBSET (P \union {n})
  BY <1>1
<1> QED
  BY <1>1, <1>4, <1>6, <1>7, <1>8, NewTrail

\* Every step keeps the blocks a call has gone through in order.
LEMMA NextFree ==
  ASSUME SInv, FreeInv, [Next]_vars
  PROVE  FreeInv'
<1>1. Ranks(hdr')
  BY NextRanks DEF FreeInv
<1>2. start' = NULL => DOMAIN live' = {}
  <2>1. SearchTakes => start # NULL /\ start' = start
    BY DEF SearchTakes, Searching, FreeInv
  <2>2. \A q \in InitSizes : HeapInit(q) => start' # NULL
    BY HeapInitEffect, SpaceAssumption DEF Addr
  <2>3. \A p \in DOMAIN live : FreeCall(p) => DOMAIN live # {} /\ start' = start
    BY DEF FreeCall
  <2>4. TermCall => DOMAIN live' = {}
    BY DEF TermCall
  <2>5. \/ SearchTakes \/ (\E q \in InitSizes : HeapInit(q))
        \/ (\E p \in DOMAIN live : FreeCall(p)) \/ TermCall
        \/ start' = start /\ live' = live
    BY DEF Next, Step, Call, Other, OtherMaps, OtherUnmaps, Undefined, vars, clientVars,
       SearchWild, TermWild, Wild, SearchMerge, FreeMerge, SearchAdvances, SearchExhausted,
       SearchGivesUp, GrowHeap, GrowFails, FreeReturns, TermEnters, SpanExtends, SpanExtendsBy,
       SpanUnmaps, SpanStaysMapped, SpanEnds, SpanEndsTo, TermReturns, HeapInitFails, MallocCall
  <2> QED
    BY <2>1, <2>2, <2>3, <2>4, <2>5 DEF FreeInv
<1>3. pc' \in {"find", "grow", "free"} => start' # NULL
  <2>1. pc \in {"find", "grow", "free"} => start # NULL
    BY DEF FreeInv
  <2>2. \A p \in DOMAIN live : start # NULL
    BY DEF FreeInv
  <2> QED
    BY <2>1, <2>2 DEF Next, Step, Call, Other, OtherMaps, OtherUnmaps, Undefined, vars,
       clientVars, Return, SearchWild, TermWild, Wild, SearchMerge, SearchTakes, FreeMerge,
       SearchPasses, Searching, SearchAdvances, SearchExhausted, SearchGivesUp, GrowHeap,
       GrowFails, FreeReturns, TermEnters, SpanExtends, SpanExtendsBy, SpanUnmaps,
       SpanStaysMapped, SpanEnds, SpanEndsTo, TermReturns, HeapInit, HeapInitFails, MallocCall,
       FreeCall, TermCall
<1>4. ASSUME pc' # "wild", pc' = "find" => block' \in DOMAIN hdr'
      PROVE  Trail'
  <2>1. CASE SearchMerge \/ FreeMerge
    BY <2>1, MergeTrail
  <2>2. CASE SearchTakes
    BY <2>2, TakesTrail
  <2>3. CASE GrowHeap
    BY <2>3, GrowTrail
  <2>4. ASSUME NEW p \in DOMAIN live, FreeCall(p)
        PROVE  Trail'
    BY <2>4, FreeCallTrail
  <2>5. ASSUME NEW q \in Queries, MallocCall(q)
        PROVE  Trail'
    <3>1. HEAP_START \in DOMAIN hdr
      BY <1>4, <2>5 DEF MallocCall, heapVars
    <3> QED
      BY <2>5, <3>1, MallocCallTrail
  <2>6. CASE SearchAdvances
    <3>1. hdr[block].next \in DOMAIN hdr
      BY <1>4, <2>6 DEF SearchAdvances, SearchPasses, Searching, heapVars
    <3> QED
      BY <2>6, <3>1, AdvanceTrail
  <2>7. CASE \/ SearchExhausted \/ SearchGivesUp \/ GrowFails \/ FreeReturns
    <3>1. /\ hdr' = hdr /\ live' = live /\ pc \in {"find", "grow", "free"}
          /\ pc = "find" => block \in DOMAIN hdr /\ hdr[block].next = NULL
          /\ pc' \in {"idle", "grow"} /\ (pc' = "grow" => pc = "find" /\ block' = block)
      BY <2>7 DEF SearchExhausted, SearchGivesUp, GrowFails, FreeReturns, SearchPasses,
         Searching, Dangling, Return, heapVars, clientVars, locals
    <3>2. PICK P \in SUBSET DOMAIN hdr : \E W \in SUBSET P : GoneThrough(P, W)
      BY <3>1 DEF FreeInv, Trail
    <3>3. PICK W \in SUBSET P : GoneThrough(P, W)
      BY <3>2
    <3>4. Walked(hdr, P, W, NULL)
      BY <3>1, <3>3 DEF GoneThrough, Walked
    <3>5. /\ \A p \in DOMAIN live : block_get_header(p) \in W
          /\ pc' = "grow" => block \in P
      BY <3>1, <3>3 DEF GoneThrough
    <3>6. P \in SUBSET DOMAIN hdr'
      BY <3>1
    <3> QED
      BY <3>1, <3>4, <3>5, <3>6, NewTrail
  <2>8. CASE UNCHANGED <<hdr, live, pc, block>>
    <3>1. Trail
      BY <1>4, <2>8 DEF FreeInv
    <3>2. PICK P \in SUBSET DOMAIN hdr : \E W \in SUBSET P : GoneThrough(P, W)
      BY <3>1 DEF Trail
    <3>3. PICK W \in SUBSET P : GoneThrough(P, W)
      BY <3>2
    <3>4. P \in SUBSET DOMAIN hdr'
      BY <2>8
    <3> QED
      BY <2>8, <3>3, <3>4, NewTrail DEF GoneThrough
  <2>9. ASSUME DOMAIN live' = {}, pc' \notin {"find", "grow", "free"}
        PROVE  Trail'
    <3>1. Walked(hdr', {}, {}, NULL)
      BY DEF Walked
    <3> QED
      BY <2>9, <3>1, NewTrail
  <2>10. ASSUME NEW q \in InitSizes, HeapInit(q)
         PROVE  DOMAIN live' = {} /\ pc' \notin {"find", "grow", "free"}
    BY <2>10 DEF HeapInit, FreeInv
  <2>11. CASE TermCall
    BY <2>9, <2>11 DEF TermCall
  <2>12. CASE TermEnters \/ SpanExtends \/ SpanUnmaps \/ SpanStaysMapped \/ TermReturns
    <3>1. DOMAIN live = {}
      BY <2>12 DEF TermEnters, SpanExtends, SpanExtendsBy, SpanUnmaps, SpanStaysMapped,
         SpanEnds, SpanEndsTo, TermReturns, SInv, CallState
    <3>2. live' = live /\ pc' \notin {"find", "grow", "free"}
      BY <2>12 DEF TermEnters, SpanExtends, SpanExtendsBy, SpanUnmaps, SpanStaysMapped,
         SpanEnds, SpanEndsTo, TermReturns, Return, clientVars
    <3> QED
      BY <2>9, <3>1, <3>2
  <2>13. CASE HeapInitFails \/ Other \/ Undefined \/ UNCHANGED vars
    BY <2>8, <2>13 DEF HeapInitFails, Other, OtherMaps, OtherUnmaps, Undefined, vars,
       heapVars, clientVars, locals
  <2>14. ~SearchWild /\ ~TermWild
    BY <1>4 DEF SearchWild, TermWild, Wild
  <2> QED
    BY <2>1, <2>2, <2>3, <2>4, <2>5, <2>6, <2>7, <2>9, <2>10, <2>11, <2>12, <2>13, <2>14
       DEF Next, Step, Call
<1> QED
  BY <1>1, <1>2, <1>3, <1>4 DEF FreeInv

\* What a call has gone through stays in order, and no links form a cycle, even in
\* a heap that holds links to a region that is gone.
THEOREM BlocksStayOrdered == Spec => []FreeInv
<1>1. ASSUME Init
      PROVE  FreeInv
  <2>1. DOMAIN hdr = {} /\ DOMAIN live = {} /\ pc = "idle"
    BY <1>1 DEF Init
  <2>2. Ranks(hdr)
    <3>1. [a \in {} |-> 0] \in [DOMAIN hdr -> Nat]
      BY <2>1
    <3> QED
      BY <2>1, <3>1 DEF Ranks, Ranked
  <2>3. Trail
    BY <2>1, EmptyTrail
  <2> QED
    BY <2>1, <2>2, <2>3 DEF FreeInv
<1>2. IInv /\ FreeInv /\ [Next]_vars => FreeInv'
  BY InvSplit, NextFree
<1> QED
  BY <1>1, <1>2, HeapStaysWellFormed, PTL DEF Spec

\* _free reads only headers, even in a heap that holds links to a region that is
\* gone: _malloc has followed every link that a merge of _free looks behind.
THEOREM FreeReadsOnlyHeaders == Spec => []FreeReadsHeaders
<1>1. ASSUME FreeInv, pc = "free"
      PROVE  ~Dangling(block)
  <2>1. PICK P \in SUBSET DOMAIN hdr : \E W \in SUBSET P : GoneThrough(P, W)
    BY <1>1 DEF FreeInv, Trail
  <2>2. PICK W \in SUBSET P : GoneThrough(P, W)
    BY <2>1
  <2>3. block \in W /\ hdr[block].next \in DOMAIN hdr \union {NULL}
    BY <1>1, <2>2 DEF GoneThrough, Walked
  <2> QED
    BY <2>3 DEF Dangling
<1>2. FreeInv => FreeReadsHeaders
  BY <1>1 DEF FreeReadsHeaders
<1> QED
  BY <1>2, BlocksStayOrdered, PTL

-----------------------------------------------------------------------------
(* The search is first fit *)

\* Block b does not serve the query, alone or with the free neighbour behind it.
Unfit(b) ==
  hdr[b].is_free => ~mergeable(hdr, b) /\ hdr[b].capacity < normalize_query(query)

\* Q are the blocks before the one the first search is at: none of them serves.
SearchInv ==
  ~degraded =>
    /\ pc = "find" /\ ~grown =>
         \E Q \in SUBSET (DOMAIN hdr \ {block}) :
           /\ HEAP_START \in Q \union {block}
           /\ \A b \in Q : hdr[b].next \in Q \union {block} /\ Unfit(b)
    /\ pc = "grow" => \A b \in DOMAIN hdr : Unfit(b)

\* The search merges the blocks behind the one it is at, not those before.
LEMMA MergeSearch ==
  ASSUME SInv, LinkInv, SearchInv, ~degraded, SearchMerge
  PROVE  SearchInv'
<1>1. /\ pc = "find" /\ pc' = pc /\ block' = block /\ grown' = grown /\ query' = query
      /\ degraded' = degraded
      /\ block \in DOMAIN hdr /\ hdr[block].is_free
  BY MergeEffect DEF clientVars, locals, SearchMerge, Searching
<1>2. PICK s \in DOMAIN hdr :
        /\ s = hdr[block].next /\ s # NULL /\ s # block
        /\ DOMAIN hdr' = DOMAIN hdr \ {s}
        /\ hdr'[block].is_free
        /\ \A a \in DOMAIN hdr \ {block, s} : hdr'[a] = hdr[a]
  BY MergeEffect
<1>3. Links(hdr)
  BY DEF LinkInv
<1>4. CASE grown
  BY <1>1, <1>4 DEF SearchInv
<1>5. CASE ~grown
  <2>1. PICK Q \in SUBSET (DOMAIN hdr \ {block}) :
          /\ HEAP_START \in Q \union {block}
          /\ \A b \in Q : hdr[b].next \in Q \union {block} /\ Unfit(b)
    BY <1>1, <1>5 DEF SearchInv
  <2>2. HEAP_START \in (Q \ {s}) \union {block}
    BY <1>1, <1>2, <1>3, <2>1 DEF Links
  <2>3. ASSUME NEW b \in Q \ {s}
        PROVE  hdr'[b].next \in (Q \ {s}) \union {block} /\ Unfit(b)'
    <3>1. hdr'[b] = hdr[b] /\ b \in DOMAIN hdr /\ b # block
      BY <1>2, <2>1
    <3>2. hdr[b].next \in (Q \ {s}) \union {block}
      BY <1>1, <1>2, <1>3, <2>1, <3>1 DEF Links
    <3>3. hdr'[hdr[b].next].is_free = hdr[hdr[b].next].is_free
      <4>1. CASE hdr[b].next = block
        <5>1. hdr[block].is_free \in BOOLEAN /\ hdr'[block].is_free \in BOOLEAN
          BY <1>1, <1>2, BlockFacts, NextInv DEF SInv, HInv, Next, Step
        <5> QED
          BY <1>1, <1>2, <4>1, <5>1
      <4>2. CASE hdr[b].next # block
        BY <1>2, <3>2, <4>2
      <4> QED
        BY <4>1, <4>2
    <3>4. mergeable(hdr', b) = mergeable(hdr, b)
      BY <3>1, <3>3 DEF mergeable, block_end
    <3>5. Unfit(b)
      BY <2>1
    <3>6. Unfit(b)' = Unfit(b)
      BY <1>1, <3>1, <3>4 DEF Unfit, normalize_query
    <3> QED
      BY <3>1, <3>2, <3>5, <3>6
  <2>4. Q \ {s} \in SUBSET (DOMAIN hdr' \ {block})
    BY <1>2, <2>1
  <2> QED
    BY <1>1, <2>2, <2>3, <2>4 DEF SearchInv
<1> QED
  BY <1>4, <1>5

\* The search goes past a block that does not serve.
LEMMA AdvanceSearch ==
  ASSUME SInv, SearchInv, Ranks(hdr), ~degraded, SearchAdvances, LinkInv
  PROVE  SearchInv'
<1>1. /\ pc = "find" /\ pc' = pc /\ hdr' = hdr /\ grown' = grown /\ query' = query
      /\ degraded' = degraded
      /\ block \in DOMAIN hdr /\ block' = hdr[block].next /\ hdr[block].next # NULL
      /\ ~mergeable(hdr, block) /\ ~Good(block)
  BY DEF SearchAdvances, SearchPasses, Searching, Dangling, heapVars, clientVars
<1>2. WellFormed(hdr)
  BY DEF SInv, HInv
<1>3. Unfit(block)
  <2>1. hdr[block].capacity \in Nat /\ normalize_query(query) \in Nat
    BY <1>1, <1>2, BlockFacts, LayoutAssumption, SpaceAssumption
       DEF SInv, VarsOK, normalize_query
  <2> QED
    BY <1>1, <2>1 DEF Unfit, Good
<1>4. CASE grown
  BY <1>1, <1>4 DEF SearchInv
<1>5. CASE ~grown
  <2>1. PICK Q \in SUBSET (DOMAIN hdr \ {block}) :
          /\ HEAP_START \in Q \union {block}
          /\ \A b \in Q : hdr[b].next \in Q \union {block} /\ Unfit(b)
    BY <1>1, <1>5 DEF SearchInv
  <2>2. PICK R \in SUBSET DOMAIN hdr : R = Q \union {block}
    BY <1>1
  <2>3. hdr[block].next \notin R
    <3>1. R # {} /\ \A b \in Q : hdr[b].next \in R
      BY <2>1, <2>2
    <3>2. \E b \in R : hdr[b].next \notin R
      BY <1>2, <3>1, NoCycle
    <3> QED
      BY <2>2, <3>1, <3>2
  <2>4. \A b \in R : hdr[b].next \in R \union {hdr[block].next} /\ Unfit(b)
    BY <1>3, <2>1, <2>2
  <2>5. \A b \in R : hdr'[b].next \in R \union {block'} /\ Unfit(b)'
    BY <1>1, <2>4 DEF Unfit, normalize_query, mergeable, block_end
  <2>6. R \in SUBSET (DOMAIN hdr' \ {block'}) /\ HEAP_START \in R \union {block'}
    BY <1>1, <2>1, <2>2, <2>3
  <2> QED
    BY <2>5, <2>6, <1>1 DEF SearchInv
<1> QED
  BY <1>4, <1>5

\* The first search has come to the end of the list: it has seen every block.
LEMMA ExhaustedSearch ==
  ASSUME SInv, SearchInv, ~degraded, SearchExhausted, LinkInv, ListInv
  PROVE  SearchInv'
<1>1. /\ pc = "find" /\ pc' = "grow" /\ hdr' = hdr /\ query' = query /\ ~grown
      /\ block \in DOMAIN hdr /\ hdr[block].next = NULL
      /\ ~mergeable(hdr, block) /\ ~Good(block)
  BY DEF SearchExhausted, SearchPasses, Searching, Dangling, heapVars, clientVars, locals
<1>2. Unfit(block)
  <2>1. hdr[block].capacity \in Nat /\ normalize_query(query) \in Nat
    BY <1>1, BlockFacts, LayoutAssumption, SpaceAssumption
       DEF SInv, HInv, VarsOK, normalize_query
  <2> QED
    BY <1>1, <2>1 DEF Unfit, Good
<1>3. PICK Q \in SUBSET (DOMAIN hdr \ {block}) :
        /\ HEAP_START \in Q \union {block}
        /\ \A b \in Q : hdr[b].next \in Q \union {block} /\ Unfit(b)
  BY <1>1 DEF SearchInv
<1>4. Reaches(hdr, HEAP_START)
  BY <1>1 DEF ListInv, First, LinkInv
<1>5. Closed(hdr, Q \union {block})
  BY <1>1, <1>3 DEF Closed
<1>6. Q \union {block} = DOMAIN hdr
  BY <1>1, <1>3, <1>4, <1>5 DEF Reaches
<1>7. \A b \in DOMAIN hdr : Unfit(b)
  BY <1>2, <1>3, <1>6
<1>8. \A b \in DOMAIN hdr' : Unfit(b)'
  BY <1>1, <1>7 DEF Unfit, normalize_query, mergeable, block_end
<1> QED
  BY <1>1, <1>8 DEF SearchInv

\* Every step keeps what the search knows of the blocks before it.
LEMMA NextSearch ==
  ASSUME SInv, LinkInv, ListInv, Ranks(hdr), SearchInv, [Next]_vars
  PROVE  SearchInv'
<1> SUFFICES ASSUME ~degraded'
             PROVE  SearchInv'
  BY DEF SearchInv
<1>1. CASE SearchMerge
  <2>1. ~degraded
    BY <1>1 DEF SearchMerge, clientVars
  <2> QED
    BY <1>1, <2>1, MergeSearch
<1>2. CASE SearchAdvances
  <2>1. ~degraded
    BY <1>2 DEF SearchAdvances, clientVars
  <2> QED
    BY <1>2, <2>1, AdvanceSearch
<1>3. CASE SearchExhausted
  <2>1. ~degraded
    BY <1>3 DEF SearchExhausted, clientVars
  <2> QED
    BY <1>3, <2>1, ExhaustedSearch
<1>4. ASSUME NEW q \in Queries, MallocCall(q)
      PROVE  SearchInv'
  <2>1. pc' = "find" /\ block' = HEAP_START
    BY <1>4 DEF MallocCall
  <2>2. {} \in SUBSET (DOMAIN hdr' \ {block'}) /\ HEAP_START \in {} \union {block'}
    BY <2>1
  <2> QED
    BY <2>1, <2>2 DEF SearchInv
<1>5. CASE GrowHeap
  BY <1>5 DEF GrowHeap, SearchInv
<1>6. CASE UNCHANGED vars
  <2>1. /\ hdr' = hdr /\ pc' = pc /\ block' = block /\ grown' = grown /\ query' = query
        /\ degraded' = degraded
    BY <1>6 DEF vars, heapVars, clientVars, locals
  <2> QED
    BY <2>1 DEF SearchInv, Unfit, mergeable, block_end, normalize_query
<1>7. CASE pc' \notin {"find", "grow"}
  BY <1>7 DEF SearchInv
<1>8. \/ SearchMerge \/ SearchAdvances \/ SearchExhausted \/ GrowHeap
      \/ (\E q \in Queries : MallocCall(q)) \/ UNCHANGED vars \/ pc' \notin {"find", "grow"}
  BY DEF Next, Step, Call, Other, OtherMaps, OtherUnmaps, Undefined, Return, SearchWild, TermWild,
     Wild, SearchTakes, FreeMerge, SearchGivesUp, GrowFails, FreeReturns, TermEnters,
     SpanExtends, SpanExtendsBy, SpanUnmaps, SpanStaysMapped, SpanEnds, SpanEndsTo, TermReturns,
     HeapInit, HeapInitFails, FreeCall, TermCall
<1> QED
  BY <1>1, <1>2, <1>3, <1>4, <1>5, <1>6, <1>7, <1>8

-----------------------------------------------------------------------------
(* Walking the list *)

\* The heap has finitely many blocks.
LEMMA FinitelyMany ==
  ASSUME WellFormed(hdr)
  PROVE  IsFiniteSet(DOMAIN hdr) /\ Cardinality(DOMAIN hdr) \in Nat
<1>1. IsFiniteSet(1 .. MemSize - 1)
  BY SpaceAssumption, FS_Interval
<1>2. DOMAIN hdr \subseteq 1 .. MemSize - 1
  BY DEF WellFormed, Addr
<1> QED
  BY <1>1, <1>2, FS_Subset, FS_CardinalityType

\* What Walk is, step by step.
LEMMA WalkSteps ==
  ASSUME WellFormed(hdr)
  PROVE  /\ DOMAIN Walk = 0 .. Cardinality(DOMAIN hdr)
         /\ Walk[0] = HEAP_START
         /\ \A i \in 0 .. Cardinality(DOMAIN hdr) - 1 :
              Walk[i + 1] = IF Walk[i] \in DOMAIN hdr THEN hdr[Walk[i]].next ELSE NULL
<1> DEFINE N == Cardinality(DOMAIN hdr)
           V == Addr \union {NULL}
           next == [x \in V |-> IF x \in DOMAIN hdr THEN hdr[x].next ELSE NULL]
           Eq(at) == at = [i \in 0 .. N |->
                             IF i = 0 THEN HEAP_START
                             ELSE IF at[i - 1] \in DOMAIN hdr THEN hdr[at[i - 1]].next ELSE NULL]
<1>1. N \in Nat
  BY FinitelyMany
<1>2. next \in [V -> V] /\ HEAP_START \in V
  BY SpaceAssumption DEF WellFormed, Header
<1>3. PICK f \in [Nat -> V] : f[0] = HEAP_START /\ \A i \in Nat : f[i + 1] = next[f[i]]
  <2> HIDE DEF V, next
  <2>1. \E f : IsIterate(f, V, next, HEAP_START)
    BY <1>2, Iterates
  <2> QED
    BY <2>1 DEF IsIterate
<1> DEFINE at0 == [i \in 0 .. N |-> f[i]]
<1>4. Eq(at0)
  <2>1. ASSUME NEW i \in 0 .. N
        PROVE  at0[i] = IF i = 0 THEN HEAP_START
                        ELSE IF at0[i - 1] \in DOMAIN hdr THEN hdr[at0[i - 1]].next ELSE NULL
    <3>1. CASE i = 0
      BY <1>1, <1>3, <3>1
    <3>2. CASE i # 0
      <4>1. i - 1 \in Nat /\ i - 1 \in 0 .. N /\ (i - 1) + 1 = i
        BY <1>1, <3>2
      <4>2. f[i] = next[f[i - 1]] /\ f[i - 1] \in V
        BY <1>3, <4>1
      <4> QED
        BY <3>2, <4>1, <4>2
    <3> QED
      BY <3>1, <3>2
  <2> QED
    BY <2>1
<1>5. Walk = CHOOSE at : Eq(at)
  BY DEF Walk
<1> HIDE DEF Eq, at0, N
<1>6. Eq(Walk)
  BY <1>4, <1>5
<1>7. DOMAIN Walk = 0 .. N
  BY <1>6 DEF Eq
<1>8. Walk[0] = HEAP_START
  BY <1>1, <1>6 DEF Eq
<1>9. ASSUME NEW i \in 0 .. N - 1
      PROVE  Walk[i + 1] = IF Walk[i] \in DOMAIN hdr THEN hdr[Walk[i]].next ELSE NULL
  <2>1. i + 1 \in 0 .. N /\ i + 1 # 0 /\ (i + 1) - 1 = i
    BY <1>1
  <2>2. Walk[i + 1] = IF i + 1 = 0 THEN HEAP_START
                      ELSE IF Walk[(i + 1) - 1] \in DOMAIN hdr THEN hdr[Walk[(i + 1) - 1]].next
                      ELSE NULL
    BY <1>6, <2>1 DEF Eq
  <2> QED
    BY <2>1, <2>2
<1> QED
  BY <1>7, <1>8, <1>9 DEF N

\* The search is first fit over merged blocks: it goes past a block, and grows
\* the heap, only if the block cannot serve the query.
THEOREM SearchIsFirstFit == Spec => []SearchPassesOnlyUnfit
<1>1. Init => SearchInv
  BY DEF Init, SearchInv
<1>2. IInv /\ LinkInv /\ ListInv /\ FreeInv /\ SearchInv /\ [Next]_vars => SearchInv'
  BY InvSplit, NextSearch DEF FreeInv
<1>3. ASSUME IInv, SearchInv, ~degraded
      PROVE  \A b \in Passed : b \in DOMAIN hdr /\ Unfit(b)
  <2>1. WellFormed(hdr)
    BY <1>3, InvSplit DEF SInv, HInv
  <2>2. CASE pc = "grow"
    BY <1>3, <2>2 DEF SearchInv, Passed
  <2>3. CASE pc = "find" /\ ~grown
    <3> DEFINE N == Cardinality(DOMAIN hdr)
    <3>1. PICK Q \in SUBSET (DOMAIN hdr \ {block}) :
            /\ HEAP_START \in Q \union {block}
            /\ \A b \in Q : hdr[b].next \in Q \union {block} /\ Unfit(b)
      BY <1>3, <2>3 DEF SearchInv
    <3>2. N \in Nat
      BY <2>1, FinitelyMany
    <3> HIDE DEF N
    <3>3. /\ DOMAIN Walk = 0 .. N
          /\ Walk[0] = HEAP_START
          /\ \A i \in 0 .. N - 1 :
               Walk[i + 1] = IF Walk[i] \in DOMAIN hdr THEN hdr[Walk[i]].next ELSE NULL
      BY <2>1, WalkSteps DEF N
    <3> DEFINE S == {i \in Nat : i \in 0 .. N /\ (\A k \in 0 .. i : Walk[k] \notin {NULL, block})
                                   => Walk[i] \in Q}
    <3>4. 0 \in S
      BY <3>1, <3>3
    <3>5. ASSUME NEW i \in Nat, i \in S
          PROVE  i + 1 \in S
      <4> SUFFICES ASSUME i + 1 \in 0 .. N,
                          \A k \in 0 .. i + 1 : Walk[k] \notin {NULL, block}
                   PROVE  Walk[i + 1] \in Q
        OBVIOUS
      <4>1. Walk[i] \in Q
        BY <3>2, <3>5
      <4>2. Walk[i + 1] = hdr[Walk[i]].next
        BY <3>1, <3>2, <3>3, <4>1
      <4>3. Walk[i + 1] # block
        OBVIOUS
      <4> QED
        BY <3>1, <4>1, <4>2, <4>3
    <3> HIDE DEF S
    <3>6. Nat \subseteq S
      BY <3>4, <3>5, SetInduction
    <3>7. \A b \in Passed : b \in Q
      <4>1. Passed = {Walk[i] : i \in {j \in DOMAIN Walk :
                                   \A k \in 0 .. j : Walk[k] \notin {NULL, block}}}
        BY <2>3 DEF Passed
      <4>2. ASSUME NEW i \in 0 .. N, \A k \in 0 .. i : Walk[k] \notin {NULL, block}
            PROVE  Walk[i] \in Q
        BY <3>2, <3>6, <4>2 DEF S
      <4> QED
        BY <3>3, <4>1, <4>2
    <3> QED
      BY <3>1, <3>7
  <2>4. CASE pc # "grow" /\ ~(pc = "find" /\ ~grown)
    BY <2>4 DEF Passed
  <2> QED
    BY <2>2, <2>3, <2>4
<1>4. IInv /\ SearchInv => SearchPassesOnlyUnfit
  BY <1>3 DEF SearchPassesOnlyUnfit, Unfit
<1> QED
  BY <1>1, <1>2, <1>4, HeapStaysWellFormed, LinksStayIntact, ListStaysComplete,
     BlocksStayOrdered, PTL DEF Spec

\* Two steps of the walk that lead to blocks lead to different ones.
LEMMA WalkIsInjective ==
  ASSUME WellFormed(hdr), Ranks(hdr),
         NEW i \in Nat, NEW j \in Nat, i < j, j <= Cardinality(DOMAIN hdr),
         \A k \in 0 .. j : Walk[k] \in DOMAIN hdr
  PROVE  Walk[i] # Walk[j]
<1> DEFINE N == Cardinality(DOMAIN hdr)
<1>1. N \in Nat
  BY FinitelyMany
<1>2. \A k \in 0 .. N - 1 :
        Walk[k + 1] = IF Walk[k] \in DOMAIN hdr THEN hdr[Walk[k]].next ELSE NULL
  BY WalkSteps
<1> HIDE DEF N
<1>3. PICK rank \in [DOMAIN hdr -> Nat] : Ranked(hdr, rank)
  BY DEF Ranks
<1>4. ASSUME NEW k \in Nat, k < j
      PROVE  rank[Walk[k + 1]] < rank[Walk[k]]
  <2>1. Walk[k] \in DOMAIN hdr /\ Walk[k + 1] \in DOMAIN hdr /\ k \in 0 .. N - 1
    BY <1>1, <1>4 DEF N
  <2>2. Walk[k + 1] = hdr[Walk[k]].next
    BY <1>2, <2>1
  <2>3. Within(hdr, Walk[k + 1], Walk[k + 1])
    BY <2>1, BlockFacts, LayoutAssumption DEF Within
  <2> QED
    BY <1>3, <2>1, <2>2, <2>3 DEF Ranked
<1> DEFINE S == {d \in Nat : i + d + 1 <= j => rank[Walk[i + d + 1]] < rank[Walk[i]]}
<1>5. \A k \in 0 .. j : rank[Walk[k]] \in Nat
  OBVIOUS
<1>6. 0 \in S
  BY <1>4
<1>7. ASSUME NEW d \in Nat, d \in S
      PROVE  d + 1 \in S
  <2> SUFFICES ASSUME i + d + 2 <= j
               PROVE  rank[Walk[i + d + 2]] < rank[Walk[i]]
    OBVIOUS
  <2>1. rank[Walk[i + d + 1]] < rank[Walk[i]]
    BY <1>7
  <2>2. rank[Walk[(i + d + 1) + 1]] < rank[Walk[i + d + 1]]
    <3>1. i + d + 1 \in Nat /\ i + d + 1 < j
      OBVIOUS
    <3> QED
      BY <1>4, <3>1
  <2>3. (i + d + 1) + 1 = i + d + 2
    OBVIOUS
  <2>4. i \in 0 .. j /\ i + d + 1 \in 0 .. j /\ i + d + 2 \in 0 .. j
    OBVIOUS
  <2> QED
    BY <1>5, <2>1, <2>2, <2>3, <2>4
<1> HIDE DEF S
<1>8. Nat \subseteq S
  BY <1>6, <1>7, SetInduction
<1>9. rank[Walk[j]] < rank[Walk[i]]
  <2>1. j - i - 1 \in S
    BY <1>8
  <2>2. i + (j - i - 1) + 1 = j
    OBVIOUS
  <2> QED
    BY <2>1, <2>2 DEF S
<1>10. i \in 0 .. j /\ j \in 0 .. j
  OBVIOUS
<1> QED
  BY <1>5, <1>9, <1>10

\* The walk leads to blocks until it has come to the end of the list.
LEMMA WalkEnds ==
  ASSUME WellFormed(hdr), Ranks(hdr), Links(hdr), HEAP_START \in DOMAIN hdr
  PROVE  Walk[Cardinality(DOMAIN hdr)] = NULL
<1> DEFINE N == Cardinality(DOMAIN hdr)
<1>1. N \in Nat /\ IsFiniteSet(DOMAIN hdr)
  BY FinitelyMany
<1>2. /\ DOMAIN Walk = 0 .. N
      /\ Walk[0] = HEAP_START
      /\ \A i \in 0 .. N - 1 :
           Walk[i + 1] = IF Walk[i] \in DOMAIN hdr THEN hdr[Walk[i]].next ELSE NULL
  BY WalkSteps
<1>3. NULL \notin DOMAIN hdr
  BY SpaceAssumption DEF WellFormed, Addr
<1>4. ASSUME NEW k \in 0 .. N, Walk[k] \notin DOMAIN hdr
      PROVE  Walk[N] = NULL
  <2> HIDE DEF N
  <2> DEFINE S == {i \in Nat : i <= N => Walk[i] \in DOMAIN hdr \union {NULL}}
  <2>1. 0 \in S
    BY <1>2
  <2>2. \A i \in Nat : i \in S => i + 1 \in S
    BY <1>1, <1>2 DEF Links
  <2> HIDE DEF S
  <2>3. Nat \subseteq S
    BY <2>1, <2>2, SetInduction
  <2>4. Walk[k] = NULL
    BY <1>1, <1>4, <2>3 DEF S
  <2> DEFINE R == {i \in Nat : k + i <= N => Walk[k + i] = NULL}
  <2>5. 0 \in R
    BY <2>4
  <2>6. ASSUME NEW i \in Nat, i \in R
        PROVE  i + 1 \in R
    <3> SUFFICES ASSUME k + (i + 1) <= N
                 PROVE  Walk[k + (i + 1)] = NULL
      OBVIOUS
    <3>1. Walk[k + i] = NULL /\ k + i \in 0 .. N - 1 /\ (k + i) + 1 = k + (i + 1)
      BY <1>1, <2>6
    <3> QED
      BY <1>2, <1>3, <3>1
  <2> HIDE DEF R
  <2>7. Nat \subseteq R
    BY <2>5, <2>6, SetInduction
  <2>8. N - k \in R /\ k + (N - k) = N
    BY <1>1, <2>7
  <2> QED
    BY <1>1, <2>8 DEF R
<1>5. ASSUME \A k \in 0 .. N : Walk[k] \in DOMAIN hdr
      PROVE  FALSE
  <2>1. IsFiniteSet(0 .. N) /\ Cardinality(0 .. N) = N + 1
    BY <1>1, FS_Interval
  <2>2. Walk \in [0 .. N -> DOMAIN hdr]
    <3>1. Walk = [i \in DOMAIN Walk |-> Walk[i]]
      BY DEF Walk
    <3> QED
      BY <1>2, <1>5, <3>1
  <2>3. \E x, y \in 0 .. N : x # y /\ Walk[x] = Walk[y]
    BY <1>1, <2>1, <2>2, FS_PigeonHole
  <2>4. \A x, y \in 0 .. N : x < y => Walk[x] # Walk[y]
    <3> TAKE x, y \in 0 .. N
    <3> HAVE x < y
    <3>1. x \in Nat /\ y \in Nat /\ y <= N /\ \A k \in 0 .. y : Walk[k] \in DOMAIN hdr
      BY <1>1, <1>5
    <3> QED
      BY <3>1, WalkIsInjective
  <2> HIDE DEF N
  <2> QED
    BY <1>1, <2>3, <2>4
<1> QED
  BY <1>4, <1>5

\* The list from HEAP_START reaches every block of the heap and ends.
THEOREM ListIsComplete == Spec => []HeapListComplete
<1>1. ASSUME IInv, LinkInv, ListInv, Ranks(hdr),
             pc \in {"idle", "find", "grow", "free"}, start # NULL, ~degraded
      PROVE  /\ DOMAIN hdr \subseteq {Walk[i] : i \in DOMAIN Walk}
             /\ Walk[Cardinality(DOMAIN hdr)] = NULL
  <2> DEFINE N == Cardinality(DOMAIN hdr)
             T == {Walk[i] : i \in DOMAIN Walk} \ {NULL}
  <2>1. WellFormed(hdr) /\ SInv
    BY <1>1, InvSplit DEF SInv, HInv
  <2>2. Links(hdr) /\ HEAP_START \in DOMAIN hdr
    BY <1>1 DEF LinkInv
  <2>3. Reaches(hdr, HEAP_START)
    BY <1>1 DEF ListInv, First
  <2>4. Walk[N] = NULL
    BY <1>1, <2>1, <2>2, WalkEnds
  <2>5. N \in Nat
    BY <2>1, FinitelyMany
  <2>6. /\ DOMAIN Walk = 0 .. N
        /\ Walk[0] = HEAP_START
        /\ \A i \in 0 .. N - 1 :
             Walk[i + 1] = IF Walk[i] \in DOMAIN hdr THEN hdr[Walk[i]].next ELSE NULL
    BY <2>1, WalkSteps
  <2>7. NULL \notin DOMAIN hdr /\ HEAP_START # NULL
    BY <2>1, <2>2, NotNull
  <2> HIDE DEF N
  <2>8. T \in SUBSET DOMAIN hdr
    <3> DEFINE S == {i \in Nat : i <= N => Walk[i] \in DOMAIN hdr \union {NULL}}
    <3>1. 0 \in S
      BY <2>2, <2>6
    <3>2. \A i \in Nat : i \in S => i + 1 \in S
      BY <2>2, <2>5, <2>6 DEF Links
    <3> HIDE DEF S
    <3>3. Nat \subseteq S
      BY <3>1, <3>2, SetInduction
    <3>4. \A i \in 0 .. N : Walk[i] \in DOMAIN hdr \union {NULL}
      BY <2>5, <3>3 DEF S
    <3> QED
      BY <2>6, <3>4
  <2>9. HEAP_START \in T
    BY <2>5, <2>6, <2>7
  <2>10. Closed(hdr, T)
    <3> SUFFICES ASSUME NEW i \in 0 .. N, Walk[i] # NULL, hdr[Walk[i]].next # NULL
                 PROVE  hdr[Walk[i]].next \in T
      BY <2>6 DEF Closed
    <3>1. i \in 0 .. N - 1 /\ i + 1 \in 0 .. N
      BY <2>4, <2>5
    <3>2. Walk[i] \in DOMAIN hdr
      BY <2>6, <2>8
    <3>3. Walk[i + 1] = hdr[Walk[i]].next
      BY <2>6, <3>1, <3>2
    <3> QED
      BY <2>6, <3>1, <3>3
  <2>11. T = DOMAIN hdr
    BY <2>3, <2>8, <2>9, <2>10 DEF Reaches
  <2> QED
    BY <2>4, <2>11 DEF N
<1>2. IInv /\ LinkInv /\ ListInv /\ FreeInv => HeapListComplete
  BY <1>1 DEF HeapListComplete, FreeInv
<1> QED
  BY <1>2, HeapStaysWellFormed, LinksStayIntact, ListStaysComplete, BlocksStayOrdered, PTL
=============================================================================
