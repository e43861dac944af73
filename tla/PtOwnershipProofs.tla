------------------------- MODULE PtOwnershipProofs -------------------------
(***************************************************************************)
(* Proofs that malloc-impl.c with one thread never loses a chunk and never *)
(* hands one out twice (NothingOwnedTwice), and that what is mapped is     *)
(* what its mapped chunks and its arena lie in (MappingsAccounted), for    *)
(* every client, kernel and 64-bit build.                                  *)
(*                                                                         *)
(* Stock says of an arena that its chunks do not overlap, lie below the    *)
(* break or in pages of their own, and are each either in K, the chunks    *)
(* somebody has, or once on a list of their size; Owned adds the place of  *)
(* top.  Every page mapped for the arena has a chunk of it (Covered), so   *)
(* those lemmas also say of whatever is cut that its pieces have all its   *)
(* pages.  There are lemmas for the ways memory is cut and joined, for     *)
(* _int_free, and then one per action; the counters come last.             *)
(***************************************************************************)
EXTENDS PtMallocProofs, FiniteSetTheorems

-----------------------------------------------------------------------------
(* Who has which chunk *)

Shelves(a) ==
  [l \in Places |-> CASE l[1] = "bin" -> a.bins[l[2]]
                      [] l[1] = "fast" -> a.fast[l[2]]
                      [] OTHER -> a.cached[l[2]]]
On(a) == Members(Shelves(a))

\* The sizes a place is for.
Suits(l, s) ==
  CASE l[1] = "bin" -> l[2] = 1 \/ bin_index(s) = l[2]
    [] l[1] = "fast" -> fastbin_index(s) = l[2]
    [] OTHER -> s >= MINSIZE + l[2] * MALLOC_ALIGNMENT
AllSuit(a) == \A l \in Places : \A p \in ToSet(Shelves(a)[l]) : Suits(l, chunksize(a, p))

\* No two chunks overlap.
Tiled(a) ==
  /\ IsFiniteSet(DOMAIN a.hdr)
  /\ \A p \in DOMAIN a.hdr : p > 0 /\ chunksize(a, p) > 0
  /\ \A p, q \in DOMAIN a.hdr : p < q => p + chunksize(a, p) <= q

\* Memory lies below the break or in pages that are mapped for the arena.
Within(a, p, n, e) == p + n <= a.brk \/ PagesOf(p, n) \subseteq e.pages
Covered(a, k) == \E p \in DOMAIN a.hdr : k \in PagesOf(p, chunksize(a, p))
Backed(a, e) ==
  /\ a.brk \in 1 .. BrkLimit /\ e.pages \subseteq MapPages
  /\ e.full \subseteq e.pages /\ \A k \in e.full : Covered(a, k)
  /\ \A p \in DOMAIN a.hdr : Within(a, p, chunksize(a, p), e)

\* The chunks that are no fences are those in K, which somebody has, and those on
\* a list, once.  The environment e: the pages that are mapped for the arena, those
\* of them where a chunk must lie, and the tcache.
Big(a) == {p \in DOMAIN a.hdr : chunksize(a, p) >= MINSIZE}
Stock(a, K, e) ==
  /\ Tiled(a) /\ Backed(a, e)
  /\ Once(Shelves(a)) /\ AllSuit(a)
  /\ Big(a) = K \cup On(a) /\ K \cap On(a) = {}
  /\ a.tcache = e.tcache
Good(a, K, e) == a.died \/ Stock(a, K, e)

\* What a change of the headers leaves alone.
Aside(a, b) ==
  /\ b.bins = a.bins /\ b.fast = a.fast /\ b.cached = a.cached
  /\ b.brk = a.brk /\ b.tcache = a.tcache
  /\ a.died => b.died

LEMMA SizeIs ==
  ASSUME NEW a \in Fit, NEW p
  PROVE  /\ p \in DOMAIN a.hdr => chunksize(a, p) = a.hdr[p].sz /\ p \in Int
         /\ p \notin DOMAIN a.hdr => chunksize(a, p) = 0
         /\ chunksize(a, p) \in Int
<1>1. a.hdr \in Partial(Int, Header)
  BY DEF Fit, Arenas
<1> QED
  BY <1>1, FitType, PartialType DEF chunksize

LEMMA ShelvesType ==
  ASSUME NEW a \in Fit
  PROVE  Shelves(a) \in [Places -> Seq(Int)]
<1>1. /\ a.bins \in [1 .. NBINS - 1 -> Seq(Int)] /\ a.fast \in [FastIdx -> Seq(Int)]
      /\ a.cached \in [CacheIdx -> Seq(Int)]
  BY DEF Fit, Arenas, Bins, Fasts, Caches
<1>2. ASSUME NEW l \in Places
      PROVE  (CASE l[1] = "bin" -> a.bins[l[2]]
                [] l[1] = "fast" -> a.fast[l[2]]
                [] OTHER -> a.cached[l[2]]) \in Seq(Int)
  <2>1. \/ l[1] = "bin" /\ l[2] \in 1 .. NBINS - 1
        \/ l[1] = "fast" /\ l[2] \in FastIdx
        \/ l[1] = "cache" /\ l[2] \in CacheIdx
    BY DEF Places
  <2>2. CASE l[1] = "bin"
    BY <1>1, <2>1, <2>2
  <2>3. CASE l[1] = "fast"
    BY <1>1, <2>1, <2>3
  <2>4. CASE l[1] = "cache"
    BY <1>1, <2>1, <2>4
  <2> QED
    BY <2>1, <2>2, <2>3, <2>4
<1> QED
  BY <1>2 DEF Shelves

LEMMA SameShelves ==
  ASSUME NEW a, NEW b, Aside(a, b)
  PROVE  Shelves(b) = Shelves(a) /\ On(b) = On(a)
  BY DEF Aside, Shelves, On

\* What is on a list is a chunk.
LEMMA StockChunks ==
  ASSUME NEW a \in Fit, NEW K, NEW e, Stock(a, K, e)
  PROVE  /\ \A p \in K \cup On(a) : p \in DOMAIN a.hdr /\ p \in Nat \ {0} /\ chunksize(a, p) >= MINSIZE
         /\ \A p \in DOMAIN a.hdr : /\ p \in Nat \ {0} /\ chunksize(a, p) \in Nat \ {0}
                                    /\ chunksize(a, p) >= MINSIZE => p \in K \/ p \in On(a)
         /\ \A p \in K : p \notin On(a)
<1>1. \A p \in DOMAIN a.hdr : p \in Nat \ {0} /\ chunksize(a, p) \in Nat \ {0}
  BY SizeIs DEF Stock, Tiled
<1> QED
  BY <1>1 DEF Stock, Big

\* A chunk has its words for itself.
LEMMA Alone ==
  ASSUME NEW a \in Fit, NEW K, NEW e, Stock(a, K, e),
         NEW p \in DOMAIN a.hdr, NEW q \in DOMAIN a.hdr
  PROVE  /\ q \in p .. p + chunksize(a, p) - 1 => q = p
         /\ q < p => q + chunksize(a, q) <= p
<1>1. p \in Int /\ q \in Int /\ chunksize(a, p) \in Int
  BY SizeIs
<1> QED
  BY <1>1 DEF Stock, Tiled

\* The memory from p is cut anew: somebody has the chunks that it was and the ones
\* that it is now.
LEMMA Recut ==
  ASSUME NEW a \in Fit, NEW b \in Fit, NEW K, NEW M, NEW e, Stock(a, K, e), Aside(a, b),
         NEW p \in Nat \ {0}, NEW n \in Nat \ {0},
         \A r : r \notin p .. p + n - 1 =>
                  chunksize(b, r) = chunksize(a, r) /\ (r \in DOMAIN b.hdr <=> r \in DOMAIN a.hdr),
         \A r \in On(a) : r \notin p .. p + n - 1,
         \A r \in DOMAIN a.hdr : r < p => r + chunksize(a, r) <= p,
         \A r \in DOMAIN b.hdr : r \in p .. p + n - 1 =>
           chunksize(b, r) > 0 /\ r + chunksize(b, r) <= p + n,
         \A r, q \in DOMAIN b.hdr :
           r \in p .. p + n - 1 /\ q \in p .. p + n - 1 /\ r < q => r + chunksize(b, r) <= q,
         \A r \in DOMAIN b.hdr : r \in p .. p + n - 1 => Within(a, r, chunksize(b, r), e),
         \A k \in e.full : \A r \in DOMAIN a.hdr :
           r \in p .. p + n - 1 /\ k \in PagesOf(r, chunksize(a, r)) => Covered(b, k),
         IsFiniteSet(DOMAIN b.hdr),
         \A r : r \in M <=> IF r \in p .. p + n - 1 THEN r \in Big(b) ELSE r \in K
  PROVE  Stock(b, M, e)
<1>0. Shelves(b) = Shelves(a) /\ On(b) = On(a)
  BY SameShelves
<1>1. \A r \in DOMAIN b.hdr : r \in Int /\ chunksize(b, r) \in Int
  BY SizeIs
<1>2. \A r \in DOMAIN a.hdr : r \in Int /\ chunksize(a, r) \in Int /\ r > 0 /\ chunksize(a, r) > 0
  BY SizeIs DEF Stock, Tiled
<1>3. \A r \in On(a) : chunksize(b, r) = chunksize(a, r)
  OBVIOUS
<1>4. Tiled(b)
  <2>1. \A r \in DOMAIN b.hdr : r > 0 /\ chunksize(b, r) > 0
    BY <1>1, <1>2
  <2>2. ASSUME NEW r \in DOMAIN b.hdr, NEW q \in DOMAIN b.hdr, r < q
        PROVE  r + chunksize(b, r) <= q
    <3>0. r \in Int /\ q \in Int
      BY <1>1
    <3>1. CASE r \in p .. p + n - 1 /\ q \in p .. p + n - 1
      BY <2>2, <3>1
    <3>2. CASE r \in p .. p + n - 1 /\ q \notin p .. p + n - 1
      <4>1. q >= p + n
        BY <2>2, <3>0, <3>2
      <4>2. r + chunksize(b, r) <= p + n /\ chunksize(b, r) \in Int
        BY <1>1, <3>2
      <4> QED
        BY <3>0, <4>1, <4>2
    <3>3. CASE r \notin p .. p + n - 1 /\ q \in p .. p + n - 1
      <4>1. r < p /\ q >= p
        BY <2>2, <3>0, <3>3
      <4>2. r + chunksize(a, r) <= p /\ chunksize(b, r) = chunksize(a, r) /\ chunksize(a, r) \in Int
        BY <1>2, <3>3, <4>1
      <4> QED
        BY <3>0, <4>1, <4>2
    <3>4. CASE r \notin p .. p + n - 1 /\ q \notin p .. p + n - 1
      BY <2>2, <3>4 DEF Stock, Tiled
    <3> QED
      BY <3>1, <3>2, <3>3, <3>4
  <2> QED
    BY <2>1, <2>2 DEF Tiled
<1>5. Backed(b, e)
  <2>1. ASSUME NEW r \in DOMAIN b.hdr PROVE Within(a, r, chunksize(b, r), e)
    <3>1. CASE r \in p .. p + n - 1
      BY <2>1, <3>1
    <3>2. CASE r \notin p .. p + n - 1
      BY <2>1, <3>2 DEF Stock, Backed
    <3> QED
      BY <3>1, <3>2
  <2>2. b.brk = a.brk
    BY DEF Aside
  <2>3. ASSUME NEW k \in e.full PROVE Covered(b, k)
    <3>1. PICK r \in DOMAIN a.hdr : k \in PagesOf(r, chunksize(a, r))
      BY DEF Stock, Backed, Covered
    <3>2. CASE r \in p .. p + n - 1
      BY <3>1, <3>2
    <3>3. CASE r \notin p .. p + n - 1
      BY <3>1, <3>3 DEF Covered
    <3> QED
      BY <3>2, <3>3
  <2> QED
    BY <2>1, <2>2, <2>3 DEF Stock, Backed, Within
<1>6. AllSuit(b)
  <2> SUFFICES ASSUME NEW l \in Places, NEW r \in ToSet(Shelves(b)[l])
               PROVE  Suits(l, chunksize(b, r))
    BY DEF AllSuit
  <2>1. DOMAIN Shelves(a) = Places
    BY DEF Shelves
  <2>2. r \in On(a)
    BY <1>0, <2>1 DEF On, Members
  <2> QED
    BY <1>0, <1>3, <2>2 DEF Stock, AllSuit
<1>7. Big(b) = M \cup On(a) /\ M \cap On(a) = {}
  <2>1. \A r : r \in Big(a) <=> r \in DOMAIN a.hdr /\ chunksize(a, r) >= MINSIZE
    BY DEF Big
  <2>2. \A r : r \in Big(b) <=> r \in DOMAIN b.hdr /\ chunksize(b, r) >= MINSIZE
    BY DEF Big
  <2>3. \A r : r \in Big(a) <=> r \in K \/ r \in On(a)
    BY DEF Stock
  <2>4. \A r : ~(r \in K /\ r \in On(a))
    BY DEF Stock
  <2>5. ASSUME NEW r PROVE (r \in Big(b) <=> r \in M \/ r \in On(a)) /\ ~(r \in M /\ r \in On(a))
    <3>1. CASE r \in p .. p + n - 1
      BY <3>1
    <3>2. CASE r \notin p .. p + n - 1
      <4>1. r \in Big(b) <=> r \in Big(a)
        BY <2>1, <2>2, <3>2
      <4> QED
        BY <2>3, <2>4, <3>2, <4>1
    <3> QED
      BY <3>1, <3>2
  <2> QED
    BY <2>5
<1> QED
  BY <1>0, <1>4, <1>5, <1>6, <1>7 DEF Stock, Aside

LEMMA PagesMeet ==
  ASSUME NEW x \in Int, NEW y \in Int, x <= y
  PROVE  x \div PageSize \in Int /\ x \div PageSize <= y \div PageSize
         /\ (y + 1) \div PageSize <= y \div PageSize + 1
         /\ (x \div PageSize) * PageSize <= x
  BY Sizes

LEMMA PageParts ==
  ASSUME NEW p \in Int, NEW n \in Int, NEW q \in Int, NEW m \in Int,
         p <= q, q + m <= p + n, m > 0
  PROVE  PagesOf(q, m) \subseteq PagesOf(p, n)
<1>1. p \div PageSize \in Int /\ p \div PageSize <= q \div PageSize /\ q \div PageSize \in Int
  BY PagesMeet
<1>2. /\ (q + m - 1) \div PageSize \in Int /\ (p + n - 1) \div PageSize \in Int
      /\ (q + m - 1) \div PageSize <= (p + n - 1) \div PageSize
  <2>1. q + m - 1 \in Int /\ p + n - 1 \in Int /\ q + m - 1 <= p + n - 1
    OBVIOUS
  <2> QED
    BY <2>1, PagesMeet
<1> QED
  BY <1>1, <1>2 DEF PagesOf

LEMMA PagesJoin ==
  ASSUME NEW p \in Int, NEW n \in Int, NEW m \in Int, n > 0, m > 0
  PROVE  PagesOf(p, n + m) \subseteq PagesOf(p, n) \cup PagesOf(p + n, m)
<1> DEFINE x == p \div PageSize
           y == (p + n - 1) \div PageSize
           z == (p + n) \div PageSize
           w == (p + n + m - 1) \div PageSize
<1>1. x \in Int /\ y \in Int /\ z \in Int /\ w \in Int /\ z <= y + 1
  <2>1. p + n - 1 \in Int /\ p + n \in Int /\ (p + n - 1) + 1 = p + n /\ p + n + m - 1 \in Int
    OBVIOUS
  <2> HIDE DEF x
  <2>2. y \in Int /\ (p + n - 1 + 1) \div PageSize <= y + 1
    BY <2>1, PagesMeet
  <2> QED
    BY <2>1, <2>2, PagesMeet, SMTT(30) DEF x
<1>2. PagesOf(p, n + m) = x .. w /\ PagesOf(p, n) = x .. y /\ PagesOf(p + n, m) = z .. w
  <2>1. p + (n + m) - 1 = p + n + m - 1
    OBVIOUS
  <2> QED
    BY <2>1 DEF PagesOf
<1> HIDE DEF x, y, z, w
<1> QED
  BY <1>1, <1>2

\* Below the break nothing is mapped.
LEMMA NoMapPage ==
  ASSUME NEW a, NEW e, Backed(a, e), NEW p \in Int, NEW n \in Int, n > 0, p + n <= a.brk,
         NEW k \in e.full
  PROVE  k \notin PagesOf(p, n)
<1>0. a.brk \in Int /\ a.brk <= BrkLimit /\ BrkLimit \in Int /\ k \in MapPages
  BY ArenaAssumption DEF Backed
<1>1. k * PageSize > BrkLimit /\ k \in Nat /\ k * PageSize \in Int
  <2>1. k * PageSize > BrkLimit /\ k \in Nat
    BY <1>0, KernelAssumption, MallocAssumption
  <2> QED
    BY <2>1, Sizes
<1> DEFINE w == (p + n - 1) \div PageSize
<1>2. w \in Int /\ w * PageSize <= p + n - 1
  <2>1. p + n - 1 \in Int
    OBVIOUS
  <2> QED
    BY <2>1, PagesMeet
<1>3. k > w
  <2> SUFFICES ASSUME k <= w PROVE FALSE
    BY <1>1, <1>2
  <2>1. k * PageSize <= w * PageSize
    <3>1. \A x, y \in Int, z \in Nat : x <= y => x * z <= y * z
      OBVIOUS
    <3> HIDE DEF w
    <3> QED
      BY <1>1, <1>2, <3>1, Sizes
  <2> HIDE DEF w
  <2> QED
    BY <1>0, <1>1, <1>2, <2>1, Sizes
<1>4. p \div PageSize \in Int
  BY PagesMeet
<1> HIDE DEF w
<1> QED
  BY <1>1, <1>2, <1>3, <1>4 DEF PagesOf, w

LEMMA WithinParts ==
  ASSUME NEW a, a.brk \in Int, NEW e, NEW p \in Int, NEW n \in Int, NEW q \in Int, NEW m \in Int,
         Within(a, p, n, e), p <= q, q + m <= p + n, m > 0
  PROVE  Within(a, q, m, e)
<1>1. CASE p + n <= a.brk
  BY <1>1 DEF Within
<1>2. CASE PagesOf(p, n) \subseteq e.pages
  BY <1>2, PageParts DEF Within
<1> QED
  BY <1>1, <1>2 DEF Within

LEMMA WithinJoin ==
  ASSUME NEW a, NEW e, Backed(a, e), NEW p \in Int, NEW n \in Int, NEW m \in Int, n > 0, m > 0,
         Within(a, p, n, e), Within(a, p + n, m, e)
  PROVE  Within(a, p, n + m, e)
<1>0. a.brk \in Int /\ a.brk <= BrkLimit /\ BrkLimit \in Int /\ e.pages \subseteq MapPages
  BY ArenaAssumption DEF Backed
<1>1. CASE p + n + m <= a.brk
  BY <1>1 DEF Within
<1>2. CASE ~(p + n + m <= a.brk)
  <2>1. PagesOf(p + n, m) \subseteq e.pages
    BY <1>2 DEF Within
  <2> DEFINE k == (p + n) \div PageSize
  <2>2. k \in PagesOf(p + n, m) /\ k \in Int /\ k * PageSize <= p + n
    <3>1. p + n \in Int /\ p + n + m - 1 \in Int /\ p + n <= p + n + m - 1
      OBVIOUS
    <3> QED
      BY <3>1, PagesMeet DEF PagesOf
  <2>3. k * PageSize > BrkLimit
    BY <1>0, <2>1, <2>2, KernelAssumption
  <2> HIDE DEF k
  <2>4. p + n > a.brk
    <3>1. k * PageSize \in Int
      BY <2>2, Sizes
    <3> QED
      BY <1>0, <2>2, <2>3, <3>1
  <2>5. PagesOf(p, n) \subseteq e.pages
    BY <1>0, <2>4 DEF Within
  <2> QED
    BY <2>1, <2>5, PagesJoin DEF Within
<1> QED
  BY <1>1, <1>2

-----------------------------------------------------------------------------
(* Cutting memory *)

\* The headers after set_head.
LEMMA HeadCuts ==
  ASSUME NEW a \in Fit, NEW p \in Int, NEW s \in Int, NEW pin \in BOOLEAN
  PROVE  LET b == set_head(a, p, s, pin)
         IN  /\ Aside(a, b) /\ b.top = a.top /\ b \in Fit
             /\ DOMAIN b.hdr = (DOMAIN a.hdr \ (p + 1 .. p + s - 1)) \cup {p}
             /\ chunksize(b, p) = s
             /\ \A r : r # p /\ r \notin p + 1 .. p + s - 1 => chunksize(b, r) = chunksize(a, r)
             /\ IsFiniteSet(DOMAIN a.hdr) => IsFiniteSet(DOMAIN b.hdr)
<1> DEFINE inside == p + 1 .. p + s - 1
           h == With(Without(a.hdr, inside), p, [sz |-> s, pin |-> pin])
           f == Without(a.foot, IF pin THEN inside \cup {p} ELSE inside)
           b == set_head(a, p, s, pin)
<1>1. b = [a EXCEPT !.hdr = h, !.foot = f]
  BY DEF set_head, Fit, Arenas
<1>2. /\ DOMAIN h = (DOMAIN a.hdr \ inside) \cup {p} /\ h[p].sz = s
      /\ \A r \in DOMAIN h : r # p => h[r] = a.hdr[r]
  BY DEF With, Without
<1>3. b \in Fit
  BY SetHeadKeeps DEF Keeps, Safe
<1> HIDE DEF h, f, b
<1>4. /\ b.hdr = h /\ b.top = a.top /\ b.bins = a.bins /\ b.fast = a.fast /\ b.cached = a.cached
      /\ b.brk = a.brk /\ b.tcache = a.tcache /\ b.died = a.died
  BY <1>1 DEF Fit, Arenas
<1>5. Aside(a, b)
  BY <1>4 DEF Aside
<1>6. chunksize(b, p) = s
  BY <1>2, <1>4 DEF chunksize
<1>7. \A r : r # p /\ r \notin inside => chunksize(b, r) = chunksize(a, r)
  <2> HIDE DEF inside
  <2> QED
    BY <1>2, <1>4 DEF chunksize
<1>8. IsFiniteSet(DOMAIN a.hdr) => IsFiniteSet(DOMAIN b.hdr)
  <2> HAVE IsFiniteSet(DOMAIN a.hdr)
  <2>1. IsFiniteSet(DOMAIN a.hdr \ inside)
    BY FS_Subset
  <2>2. IsFiniteSet((DOMAIN a.hdr \ inside) \cup {p})
    BY <2>1, FS_AddElement
  <2> QED
    BY <1>2, <1>4, <2>2
<1> QED
  BY <1>2, <1>3, <1>4, <1>5, <1>6, <1>7, <1>8 DEF b

LEMMA AsideTrans ==
  ASSUME NEW a, NEW b, NEW c, Aside(a, b), Aside(b, c)
  PROVE  Aside(a, c)
  BY DEF Aside

\* Nothing on a list lies in the s words from p, and no chunk reaches into them.
Clear(a, p, s, e) ==
  /\ \A r \in On(a) : r \notin p .. p + s - 1
  /\ \A r \in DOMAIN a.hdr : r < p => r + chunksize(a, r) <= p
  /\ Within(a, p, s, e)
  /\ \A r \in DOMAIN a.hdr :
       r \in p .. p + s - 1 => r + chunksize(a, r) <= p + s \/ r + chunksize(a, r) <= a.brk

\* What the arena must fill of these words' pages are pages of theirs.
LEMMA PiecePages ==
  ASSUME NEW a \in Fit, NEW K, NEW e, Stock(a, K, e),
         NEW p \in Nat \ {0}, NEW s \in Nat, Clear(a, p, s, e),
         NEW k \in e.full, NEW r \in DOMAIN a.hdr, r \in p .. p + s - 1,
         k \in PagesOf(r, chunksize(a, r))
  PROVE  k \in PagesOf(p, s)
<1>1. r \in Int /\ chunksize(a, r) \in Int /\ chunksize(a, r) > 0
  BY SizeIs DEF Stock, Tiled
<1>2. CASE r + chunksize(a, r) <= p + s
  <2>1. p <= r
    OBVIOUS
  <2>2. PagesOf(r, chunksize(a, r)) \subseteq PagesOf(p, s)
    BY <1>1, <1>2, <2>1, PageParts
  <2> QED
    BY <2>2
<1>3. CASE r + chunksize(a, r) <= a.brk
  <2>1. Backed(a, e)
    BY DEF Stock
  <2> QED
    BY <1>1, <1>3, <2>1, NoMapPage
<1> QED
  BY <1>2, <1>3 DEF Clear

\* The s words from p become one chunk.
LEMMA OnePiece ==
  ASSUME NEW a \in Fit, NEW K, NEW e, Stock(a, K, e),
         NEW p \in Nat \ {0}, NEW s \in Nat, NEW pin \in BOOLEAN,
         s >= MINSIZE, Clear(a, p, s, e)
  PROVE  Stock(set_head(a, p, s, pin), (K \ (p .. p + s - 1)) \cup {p}, e)
<1> DEFINE b == set_head(a, p, s, pin)
           M == (K \ (p .. p + s - 1)) \cup {p}
<1>0. MINSIZE \in Nat /\ MINSIZE > 0
  <2>1. Least > 0
    BY Sizes DEF Least
  <2> QED
    BY <2>1, Sizes
<1>1. /\ Aside(a, b) /\ b \in Fit
      /\ DOMAIN b.hdr = (DOMAIN a.hdr \ (p + 1 .. p + s - 1)) \cup {p}
      /\ chunksize(b, p) = s
      /\ \A r : r # p /\ r \notin p + 1 .. p + s - 1 => chunksize(b, r) = chunksize(a, r)
      /\ IsFiniteSet(DOMAIN b.hdr)
  BY HeadCuts DEF Stock, Tiled
<1> HIDE DEF b
<1>2. s \in Nat \ {0}
  BY <1>0
<1>3. \A r : r \notin p .. p + s - 1 =>
              chunksize(b, r) = chunksize(a, r) /\ (r \in DOMAIN b.hdr <=> r \in DOMAIN a.hdr)
  <2>1. p \in p .. p + s - 1 /\ \A r \in p + 1 .. p + s - 1 : r \in p .. p + s - 1
    BY <1>2
  <2> QED
    BY <1>1, <2>1
<1>4. \A r \in DOMAIN b.hdr : r \in p .. p + s - 1 => r = p
  BY <1>1, <1>2
<1>5. /\ \A r \in DOMAIN b.hdr : r \in p .. p + s - 1 =>
           chunksize(b, r) > 0 /\ r + chunksize(b, r) <= p + s
      /\ \A r, q \in DOMAIN b.hdr :
           r \in p .. p + s - 1 /\ q \in p .. p + s - 1 /\ r < q => r + chunksize(b, r) <= q
      /\ \A r \in DOMAIN b.hdr : r \in p .. p + s - 1 => Within(a, r, chunksize(b, r), e)
  BY <1>1, <1>2, <1>4 DEF Clear
<1>6. ASSUME NEW r
      PROVE  r \in M <=> IF r \in p .. p + s - 1 THEN r \in Big(b) ELSE r \in K
  <2>1. r \in p .. p + s - 1 => (r \in Big(b) <=> r = p)
    BY <1>1, <1>4 DEF Big
  <2>2. p \in p .. p + s - 1
    BY <1>2
  <2> QED
    BY <2>1, <2>2
<1> HIDE DEF M
<1>8. ASSUME NEW k \in e.full, NEW r \in DOMAIN a.hdr, r \in p .. p + s - 1,
             k \in PagesOf(r, chunksize(a, r))
      PROVE  Covered(b, k)
  BY <1>1, <1>8, PiecePages DEF Covered
<1>7. Stock(b, M, e)
  <2>1. /\ \A r \in On(a) : r \notin p .. p + s - 1
        /\ \A r \in DOMAIN a.hdr : r < p => r + chunksize(a, r) <= p
    BY DEF Clear
  <2> QED
    BY <1>1, <1>2, <1>3, <1>5, <1>6, <1>8, <2>1, Recut
<1> QED
  BY <1>7 DEF b, M

\* The s + t words from p become two chunks, of which somebody has those that are
\* no fences.
LEMMA TwoPieces ==
  ASSUME NEW a \in Fit, NEW K, NEW e, Stock(a, K, e),
         NEW p \in Nat \ {0}, NEW s \in Nat, NEW t \in Nat, NEW x \in BOOLEAN, NEW y \in BOOLEAN,
         s > 0, t > 0, Clear(a, p, s + t, e)
  PROVE  /\ set_head(set_head(a, p, s, x), p + s, t, y) \in Fit
         /\ Aside(a, set_head(set_head(a, p, s, x), p + s, t, y))
         /\ Stock(set_head(set_head(a, p, s, x), p + s, t, y),
                  (K \ (p .. p + s + t - 1)) \cup {q \in {p} : s >= MINSIZE}
                     \cup {q \in {p + s} : t >= MINSIZE}, e)
         /\ chunksize(set_head(set_head(a, p, s, x), p + s, t, y), p) = s
         /\ chunksize(set_head(set_head(a, p, s, x), p + s, t, y), p + s) = t
         /\ set_head(set_head(a, p, s, x), p + s, t, y).top = a.top
<1> DEFINE c == set_head(a, p, s, x)
           b == set_head(c, p + s, t, y)
           n == s + t
           M == (K \ (p .. p + s + t - 1)) \cup {q \in {p} : s >= MINSIZE}
                     \cup {q \in {p + s} : t >= MINSIZE}
<1>1. /\ Aside(a, c) /\ c \in Fit /\ c.top = a.top
      /\ DOMAIN c.hdr = (DOMAIN a.hdr \ (p + 1 .. p + s - 1)) \cup {p}
      /\ chunksize(c, p) = s
      /\ \A r : r # p /\ r \notin p + 1 .. p + s - 1 => chunksize(c, r) = chunksize(a, r)
      /\ IsFiniteSet(DOMAIN c.hdr)
  BY HeadCuts DEF Stock, Tiled
<1> HIDE DEF c
<1>2. /\ Aside(c, b) /\ b \in Fit /\ b.top = c.top
      /\ DOMAIN b.hdr = (DOMAIN c.hdr \ (p + s + 1 .. p + s + t - 1)) \cup {p + s}
      /\ chunksize(b, p + s) = t
      /\ \A r : r # p + s /\ r \notin p + s + 1 .. p + s + t - 1 => chunksize(b, r) = chunksize(c, r)
      /\ IsFiniteSet(DOMAIN b.hdr)
  <2> DEFINE q == p + s
  <2>1. PICK z : z = y
    OBVIOUS
  <2>2. q \in Int /\ t \in Int /\ z \in BOOLEAN /\ c \in Fit /\ IsFiniteSet(DOMAIN c.hdr)
    BY <1>1, <2>1
  <2> HIDE DEF q
  <2>3. PICK d : d = set_head(c, q, t, z)
    OBVIOUS
  <2>4. /\ Aside(c, d) /\ d.top = c.top /\ d \in Fit
        /\ DOMAIN d.hdr = (DOMAIN c.hdr \ (q + 1 .. q + t - 1)) \cup {q}
        /\ chunksize(d, q) = t
        /\ \A r : r # q /\ r \notin q + 1 .. q + t - 1 => chunksize(d, r) = chunksize(c, r)
        /\ IsFiniteSet(DOMAIN d.hdr)
    BY <2>2, <2>3, HeadCuts
  <2>5. d = b
    BY <2>1, <2>3 DEF q
  <2> HIDE DEF b
  <2> QED
    BY <2>4, <2>5 DEF q
<1> HIDE DEF b
<1>3. n \in Nat \ {0} /\ n = s + t
  OBVIOUS
<1>4. Aside(a, b)
  BY <1>1, <1>2, AsideTrans
<1>5. \A r : r \notin p .. p + n - 1 =>
              chunksize(b, r) = chunksize(a, r) /\ (r \in DOMAIN b.hdr <=> r \in DOMAIN a.hdr)
  <2>1. /\ p \in p .. p + n - 1 /\ \A r \in p + 1 .. p + s - 1 : r \in p .. p + n - 1
        /\ p + s \in p .. p + n - 1 /\ \A r \in p + s + 1 .. p + s + t - 1 : r \in p .. p + n - 1
    BY <1>3
  <2> QED
    BY <1>1, <1>2, <2>1
<1>6. \A r \in DOMAIN b.hdr : r \in p .. p + n - 1 => r = p \/ r = p + s
  BY <1>1, <1>2, <1>3
<1>7. chunksize(b, p) = s /\ p \in DOMAIN b.hdr /\ p + s \in DOMAIN b.hdr /\ p < p + s
  BY <1>1, <1>2
<1>8. Within(a, p, s, e) /\ Within(a, p + s, t, e)
  <2>1. a.brk \in Int /\ Within(a, p, n, e) /\ p + s \in Int
    BY <1>3 DEF Stock, Backed, Clear
  <2> QED
    BY <1>3, <2>1, WithinParts
<1>9. /\ \A r \in DOMAIN b.hdr : r \in p .. p + n - 1 =>
           chunksize(b, r) > 0 /\ r + chunksize(b, r) <= p + n
      /\ \A r, q \in DOMAIN b.hdr :
           r \in p .. p + n - 1 /\ q \in p .. p + n - 1 /\ r < q => r + chunksize(b, r) <= q
      /\ \A r \in DOMAIN b.hdr : r \in p .. p + n - 1 => Within(a, r, chunksize(b, r), e)
  BY <1>2, <1>3, <1>6, <1>7, <1>8
<1>10. ASSUME NEW r
       PROVE  r \in M <=> IF r \in p .. p + n - 1 THEN r \in Big(b) ELSE r \in K
  <2>1. r \in p .. p + n - 1 => (r \in Big(b) <=> (r = p /\ s >= MINSIZE) \/ (r = p + s /\ t >= MINSIZE))
    BY <1>2, <1>6, <1>7 DEF Big
  <2>2. p \in p .. p + n - 1 /\ p + s \in p .. p + n - 1 /\ p + n - 1 = p + s + t - 1
    BY <1>3
  <2> HIDE DEF n
  <2> QED
    BY <2>1, <2>2
<1>11. /\ \A r \in On(a) : r \notin p .. p + n - 1
       /\ \A r \in DOMAIN a.hdr : r < p => r + chunksize(a, r) <= p
  BY DEF Clear
<1>13. ASSUME NEW k \in e.full, NEW r \in DOMAIN a.hdr, r \in p .. p + n - 1,
              k \in PagesOf(r, chunksize(a, r))
       PROVE  Covered(b, k)
  <2>1. k \in PagesOf(p, s + t)
    BY <1>3, <1>13, PiecePages
  <2>2. k \in PagesOf(p, s) \/ k \in PagesOf(p + s, t)
    BY <2>1, PagesJoin
  <2> QED
    BY <1>2, <1>7, <2>2 DEF Covered
<1> HIDE DEF M, n
<1>12. Stock(b, M, e)
  BY <1>2, <1>3, <1>4, <1>5, <1>9, <1>10, <1>11, <1>13, Recut
<1> QED
  BY <1>1, <1>2, <1>4, <1>7, <1>12 DEF b, c, M

\* A chunk that somebody has, alone or with the one behind it, can be cut.
LEMMA ChunkIsClear ==
  ASSUME NEW a \in Fit, NEW K, NEW e, Stock(a, K, e), NEW p \in K
  PROVE  /\ Clear(a, p, chunksize(a, p), e)
         /\ K \ (p .. p + chunksize(a, p) - 1) = K \ {p}
         /\ p \in Nat \ {0} /\ chunksize(a, p) \in Nat /\ chunksize(a, p) >= MINSIZE
         /\ p \in DOMAIN a.hdr
<1>1. /\ p \in DOMAIN a.hdr /\ p \in Nat \ {0} /\ chunksize(a, p) >= MINSIZE
      /\ chunksize(a, p) \in Nat \ {0}
  BY StockChunks
<1>2. \A r \in K \cup On(a) : r \in p .. p + chunksize(a, p) - 1 => r = p
  BY <1>1, StockChunks, Alone
<1>3. p \notin On(a) /\ p \in p .. p + chunksize(a, p) - 1
  BY <1>1, StockChunks
<1>4. \A r \in DOMAIN a.hdr : r < p => r + chunksize(a, r) <= p
  BY <1>1, Alone
<1>5. Within(a, p, chunksize(a, p), e)
  BY <1>1 DEF Stock, Backed
<1>6. \A r \in DOMAIN a.hdr : r \in p .. p + chunksize(a, p) - 1 => r = p
  BY <1>1, Alone
<1>7. \A r \in DOMAIN a.hdr :
        r \in p .. p + chunksize(a, p) - 1 => r + chunksize(a, r) <= p + chunksize(a, p)
  BY <1>1, <1>6
<1> QED
  BY <1>1, <1>2, <1>3, <1>4, <1>5, <1>7 DEF Clear

LEMMA PairIsClear ==
  ASSUME NEW a \in Fit, NEW K, NEW e, Stock(a, K, e), NEW p \in K,
         p + chunksize(a, p) \in K
  PROVE  LET q == p + chunksize(a, p)
             n == chunksize(a, p) + chunksize(a, q)
         IN  /\ Clear(a, p, n, e)
             /\ K \ (p .. p + n - 1) = K \ {p, q}
             /\ n \in Nat /\ n >= MINSIZE + MINSIZE
<1> DEFINE s == chunksize(a, p)
           q == p + s
           t == chunksize(a, q)
           n == s + t
<1>1. /\ Clear(a, p, s, e) /\ K \ (p .. p + s - 1) = K \ {p}
      /\ p \in Nat \ {0} /\ s \in Nat /\ s >= MINSIZE /\ p \in DOMAIN a.hdr
  BY ChunkIsClear
<1>2. /\ Clear(a, q, t, e) /\ K \ (q .. q + t - 1) = K \ {q}
      /\ q \in Nat \ {0} /\ t \in Nat /\ t >= MINSIZE /\ q \in DOMAIN a.hdr
  BY ChunkIsClear
<1>3. q = p + s /\ n = s + t
  OBVIOUS
<1> HIDE DEF s, q, t, n
<1>4. MINSIZE \in Nat /\ MINSIZE > 0
  <2>1. Least > 0
    BY Sizes DEF Least
  <2> QED
    BY <2>1, Sizes
<1>5. \A r : r \in p .. p + n - 1 <=> r \in p .. p + s - 1 \/ r \in q .. q + t - 1
  BY <1>1, <1>2, <1>3
<1>6. Within(a, p, n, e)
  <2>1. Within(a, p, s, e) /\ Within(a, p + s, t, e) /\ Backed(a, e)
    BY <1>1, <1>2, <1>3 DEF Clear, Stock
  <2> QED
    BY <1>1, <1>2, <1>3, <1>4, <2>1, WithinJoin
<1>10. ASSUME NEW r \in DOMAIN a.hdr, r \in p .. p + n - 1
       PROVE  r + chunksize(a, r) <= p + n \/ r + chunksize(a, r) <= a.brk
  <2>0. r \in Int /\ chunksize(a, r) \in Int /\ p + s <= p + n /\ q + t = p + n
    BY <1>1, <1>2, <1>3, SizeIs
  <2>1. CASE r \in p .. p + s - 1
    <3>1. r + chunksize(a, r) <= p + s \/ r + chunksize(a, r) <= a.brk
      BY <1>1, <2>1 DEF Clear
    <3> QED
      BY <1>1, <1>2, <1>3, <2>0, <3>1
  <2>2. CASE r \in q .. q + t - 1
    BY <1>2, <2>0, <2>2 DEF Clear
  <2> QED
    BY <1>5, <1>10, <2>1, <2>2
<1>7. Clear(a, p, n, e)
  BY <1>1, <1>2, <1>5, <1>6, <1>10 DEF Clear
<1>8. K \ (p .. p + n - 1) = K \ {p, q}
  BY <1>1, <1>2, <1>5
<1>9. n \in Nat /\ n >= MINSIZE + MINSIZE
  BY <1>1, <1>2, <1>3, <1>4
<1> QED
  BY <1>7, <1>8, <1>9 DEF n, t, q, s

-----------------------------------------------------------------------------
(* Moving chunks between the lists *)

\* The same chunks in the same memory, whatever the lists.
SameHeap(a, b) ==
  /\ DOMAIN b.hdr = DOMAIN a.hdr /\ \A r : chunksize(b, r) = chunksize(a, r)
  /\ b.brk = a.brk /\ b.tcache = a.tcache

\* Neither the chunks nor the lists change.
LEMMA Stays ==
  ASSUME NEW a, NEW b, NEW K, NEW e, SameHeap(a, b), Aside(a, b)
  PROVE  Stock(a, K, e) => Stock(b, K, e)
<1> HAVE Stock(a, K, e)
<1>1. Shelves(b) = Shelves(a) /\ On(b) = On(a)
  BY SameShelves
<1>2. Tiled(b)
  BY DEF Stock, SameHeap, Tiled
<1>3. Backed(b, e)
  BY DEF Stock, SameHeap, Backed, Within, Covered
<1>4. AllSuit(b)
  BY <1>1 DEF Stock, SameHeap, AllSuit
<1>5. Big(b) = Big(a)
  BY DEF SameHeap, Big
<1> QED
  BY <1>1, <1>2, <1>3, <1>4, <1>5 DEF Stock, SameHeap

LEMMA StaysGood ==
  ASSUME NEW a, NEW b, NEW K, NEW e, SameHeap(a, b), Aside(a, b), Good(a, K, e)
  PROVE  Good(b, K, e)
  BY Stays DEF Good, Aside

\* The lists change, and with them who has which chunk.
LEMMA Rearranged ==
  ASSUME NEW a \in Fit, NEW b \in Fit, NEW K, NEW M, NEW e, Stock(a, K, e), SameHeap(a, b),
         Once(Shelves(b)), AllSuit(b),
         \A x : x \in M \/ x \in On(b) <=> x \in K \/ x \in On(a),
         \A x \in M : x \notin On(b)
  PROVE  Stock(b, M, e)
<1>1. Tiled(b) /\ Backed(b, e)
  BY DEF Stock, SameHeap, Tiled, Backed, Within, Covered
<1>2. Big(b) = Big(a)
  BY DEF SameHeap, Big
<1>3. M \cup On(b) = K \cup On(a)
  OBVIOUS
<1> QED
  BY <1>1, <1>2, <1>3 DEF Stock, SameHeap

LEMMA SuitsAfter ==
  ASSUME NEW a, NEW b, NEW l \in Places, SameHeap(a, b), AllSuit(a),
         \A m \in Places : m # l => Shelves(b)[m] = Shelves(a)[m],
         \A x \in ToSet(Shelves(b)[l]) : x \in ToSet(Shelves(a)[l]) \/ Suits(l, chunksize(b, x))
  PROVE  AllSuit(b)
  BY DEF AllSuit, SameHeap

\* x, which somebody has, is put on a list.
LEMMA PutOn ==
  ASSUME NEW a \in Fit, NEW b \in Fit, NEW K, NEW e, Stock(a, K, e), SameHeap(a, b),
         NEW l \in Places, NEW x \in K, NEW k \in 1 .. Len(Shelves(a)[l]) + 1,
         Shelves(b) = [Shelves(a) EXCEPT ![l] = InsertAt(Shelves(a)[l], k, x)],
         Suits(l, chunksize(a, x))
  PROVE  Stock(b, K \ {x}, e)
<1>1. Shelves(a) \in [Places -> Seq(Int)] /\ Once(Shelves(a))
  BY ShelvesType DEF Stock
<1>2. x \in Int /\ x \notin Members(Shelves(a))
  BY StockChunks DEF On
<1> DEFINE L == Shelves(a)
           N == [L EXCEPT ![l] = InsertAt(L[l], k, x)]
<1>3. Once(N) /\ Members(N) = Members(L) \cup {x}
  <2>1. /\ L \in [Places -> Seq(Int)] /\ Once(L) /\ x \in Int /\ x \notin Members(L)
        /\ k \in 1 .. Len(L[l]) + 1
    BY <1>1, <1>2
  <2> HIDE DEF L
  <2>2. LET M == [L EXCEPT ![l] = InsertAt(L[l], k, x)]
        IN  Once(M) /\ Members(M) = Members(L) \cup {x}
    BY <2>1, Shelved, ZenonT(40)
  <2> QED
    BY <2>2, Zenon
<1>4. Once(Shelves(b)) /\ On(b) = On(a) \cup {x}
  BY <1>3 DEF On
<1>5. AllSuit(b)
  <2>1. \A m \in Places : m # l => Shelves(b)[m] = Shelves(a)[m]
    BY <1>1
  <2>2. ASSUME NEW y \in ToSet(Shelves(b)[l])
        PROVE  y \in ToSet(Shelves(a)[l]) \/ Suits(l, chunksize(b, y))
    <3>1. DOMAIN Shelves(b) = Places /\ DOMAIN Shelves(a) = Places
      BY DEF Shelves
    <3>3. y \in On(b)
      BY <3>1 DEF On, Members
    <3>4. CASE y = x
      BY <3>4 DEF SameHeap
    <3>5. CASE y \in On(a)
      <4>1. PICK m \in Places : y \in ToSet(Shelves(a)[m])
        BY <3>1, <3>5 DEF On, Members
      <4>2. CASE m = l
        BY <4>1, <4>2
      <4>3. CASE m # l
        <5>1. y \in ToSet(Shelves(b)[m])
          BY <2>1, <4>1, <4>3
        <5> QED
          BY <1>4, <3>1, <5>1, <4>3, OnOneList
      <4> QED
        BY <4>2, <4>3
    <3> QED
      BY <1>4, <3>3, <3>4, <3>5
  <2> QED
    BY <2>1, <2>2, SuitsAfter DEF Stock
<1>6. \A y : y \in K \ {x} \/ y \in On(b) <=> y \in K \/ y \in On(a)
  BY <1>4
<1>7. \A y \in K \ {x} : y \notin On(b)
  BY <1>4, StockChunks
<1> QED
  BY <1>4, <1>5, <1>6, <1>7, Rearranged

\* Some chunks are taken off a list.
LEMMA TakenFrom ==
  ASSUME NEW a \in Fit, NEW b \in Fit, NEW K, NEW e, Stock(a, K, e), SameHeap(a, b),
         NEW l \in Places, NEW s, NEW X,
         Shelves(b) = [Shelves(a) EXCEPT ![l] = s],
         Once(Shelves(b)), \A y : y \in On(b) <=> y \in On(a) /\ y \notin X,
         \A y \in X : y \in On(a)
  PROVE  Stock(b, K \cup X, e)
<1>0. DOMAIN Shelves(b) = Places /\ DOMAIN Shelves(a) = Places
  BY DEF Shelves
<1>1. \A m \in Places : m # l => Shelves(b)[m] = Shelves(a)[m]
  BY <1>0
<1>2. AllSuit(b)
  <2>1. ASSUME NEW y \in ToSet(Shelves(b)[l])
        PROVE  y \in ToSet(Shelves(a)[l])
    <3>2. y \in On(a)
      BY <1>0 DEF On, Members
    <3>3. PICK m \in Places : y \in ToSet(Shelves(a)[m])
      BY <1>0, <3>2 DEF On, Members
    <3>4. CASE m # l
      <4>1. y \in ToSet(Shelves(b)[m])
        BY <1>1, <3>3, <3>4
      <4> QED
        BY <1>0, <4>1, <3>3, <3>4, OnOneList
    <3> QED
      BY <3>3, <3>4
  <2> QED
    BY <1>1, <2>1, SuitsAfter DEF Stock
<1>3. /\ \A y : y \in K \cup X \/ y \in On(b) <=> y \in K \/ y \in On(a)
      /\ \A y \in K \cup X : y \notin On(b)
  BY StockChunks
<1> QED
  BY <1>2, <1>3, Rearranged

\* The indices of the bins, the unsorted list among them.
BinIdx == 1 .. NBINS - 1

LEMMA PlaceKinds ==
  /\ \A i \in 1 .. NBINS - 1 : <<"bin", i>> \in Places
  /\ \A i \in FastIdx : <<"fast", i>> \in Places
  /\ \A i \in CacheIdx : <<"cache", i>> \in Places
  /\ \A l \in Places : \/ \E i \in 1 .. NBINS - 1 : l = <<"bin", i>>
                       \/ \E i \in FastIdx : l = <<"fast", i>>
                       \/ \E i \in CacheIdx : l = <<"cache", i>>
<1>1. /\ \A i \in 1 .. NBINS - 1 : <<"bin", i>> \in Places
      /\ \A i \in FastIdx : <<"fast", i>> \in Places
      /\ \A i \in CacheIdx : <<"cache", i>> \in Places
  BY DEF Places
<1>2. ASSUME NEW l \in Places
      PROVE  \/ \E i \in 1 .. NBINS - 1 : l = <<"bin", i>>
             \/ \E i \in FastIdx : l = <<"fast", i>>
             \/ \E i \in CacheIdx : l = <<"cache", i>>
  BY DEF Places
<1> QED
  BY <1>1, <1>2

LEMMA ShelfOf ==
  ASSUME NEW a
  PROVE  /\ DOMAIN Shelves(a) = Places
         /\ \A i \in 1 .. NBINS - 1 : Shelves(a)[<<"bin", i>>] = a.bins[i]
         /\ \A i \in FastIdx : Shelves(a)[<<"fast", i>>] = a.fast[i]
         /\ \A i \in CacheIdx : Shelves(a)[<<"cache", i>>] = a.cached[i]
  BY PlaceKinds DEF Shelves

LEMMA BinShelf ==
  ASSUME NEW a \in Fit, NEW b, NEW i \in BinIdx, NEW s,
         b.bins = [a.bins EXCEPT ![i] = s], b.fast = a.fast, b.cached = a.cached
  PROVE  /\ Shelves(b) = [Shelves(a) EXCEPT ![<<"bin", i>>] = s]
         /\ <<"bin", i>> \in Places /\ Shelves(a)[<<"bin", i>>] = a.bins[i]
<1> DEFINE l == <<"bin", i>>
<1>0. i \in 1 .. NBINS - 1
  BY DEF BinIdx
<1>1. DOMAIN a.bins = 1 .. NBINS - 1
  BY FieldType DEF Bins
<1>2. /\ b.bins[i] = s /\ \A j \in 1 .. NBINS - 1 : j # i => b.bins[j] = a.bins[j]
  BY <1>0, <1>1
<1>3. ASSUME NEW m \in Places
      PROVE  Shelves(b)[m] = IF m = l THEN s ELSE Shelves(a)[m]
  <2>1. CASE \E j \in 1 .. NBINS - 1 : m = <<"bin", j>>
    <3>1. PICK j \in 1 .. NBINS - 1 : m = <<"bin", j>>
      BY <2>1
    <3>2. Shelves(b)[m] = b.bins[j] /\ Shelves(a)[m] = a.bins[j]
      BY <3>1, ShelfOf
    <3>3. m = l <=> j = i
      BY <3>1
    <3> QED
      BY <1>2, <3>2, <3>3
  <2>2. CASE \E j \in FastIdx : m = <<"fast", j>>
    <3>1. PICK j \in FastIdx : m = <<"fast", j>>
      BY <2>2
    <3>2. Shelves(b)[m] = b.fast[j] /\ Shelves(a)[m] = a.fast[j]
      BY <3>1, ShelfOf
    <3> QED
      BY <3>1, <3>2
  <2>3. CASE \E j \in CacheIdx : m = <<"cache", j>>
    <3>1. PICK j \in CacheIdx : m = <<"cache", j>>
      BY <2>3
    <3>2. Shelves(b)[m] = b.cached[j] /\ Shelves(a)[m] = a.cached[j]
      BY <3>1, ShelfOf
    <3> QED
      BY <3>1, <3>2
  <2> QED
    BY <2>1, <2>2, <2>3, PlaceKinds
<1>4. l \in Places /\ Shelves(a)[l] = a.bins[i]
  BY <1>0, PlaceKinds, ShelfOf
<1> HIDE DEF l
<1>5. Shelves(b) = [Shelves(a) EXCEPT ![l] = s]
  <2>1. Shelves(b) = [m \in Places |-> Shelves(b)[m]] /\ Shelves(a) = [m \in Places |-> Shelves(a)[m]]
    BY DEF Shelves
  <2> QED
    BY <1>3, <1>4, <2>1
<1> QED
  BY <1>4, <1>5 DEF l

LEMMA FastShelf ==
  ASSUME NEW a \in Fit, NEW b, NEW i \in FastIdx, NEW s,
         b.fast = [a.fast EXCEPT ![i] = s], b.bins = a.bins, b.cached = a.cached
  PROVE  /\ Shelves(b) = [Shelves(a) EXCEPT ![<<"fast", i>>] = s]
         /\ <<"fast", i>> \in Places /\ Shelves(a)[<<"fast", i>>] = a.fast[i]
<1> DEFINE l == <<"fast", i>>
<1>1. DOMAIN a.fast = FastIdx
  BY FieldType DEF Fasts
<1>2. /\ b.fast[i] = s /\ \A j \in FastIdx : j # i => b.fast[j] = a.fast[j]
  BY <1>1
<1>3. ASSUME NEW m \in Places
      PROVE  Shelves(b)[m] = IF m = l THEN s ELSE Shelves(a)[m]
  <2>1. CASE \E j \in FastIdx : m = <<"fast", j>>
    <3>1. PICK j \in FastIdx : m = <<"fast", j>>
      BY <2>1
    <3>2. Shelves(b)[m] = b.fast[j] /\ Shelves(a)[m] = a.fast[j]
      BY <3>1, ShelfOf, ZenonT(40)
    <3>3. m = l <=> j = i
      BY <3>1
    <3> QED
      BY <1>2, <3>2, <3>3
  <2>2. CASE \E j \in 1 .. NBINS - 1 : m = <<"bin", j>>
    <3>1. PICK j \in 1 .. NBINS - 1 : m = <<"bin", j>>
      BY <2>2
    <3>2. Shelves(b)[m] = b.bins[j] /\ Shelves(a)[m] = a.bins[j]
      BY <3>1, ShelfOf
    <3> QED
      BY <3>1, <3>2
  <2>3. CASE \E j \in CacheIdx : m = <<"cache", j>>
    <3>1. PICK j \in CacheIdx : m = <<"cache", j>>
      BY <2>3
    <3>2. Shelves(b)[m] = b.cached[j] /\ Shelves(a)[m] = a.cached[j]
      BY <3>1, ShelfOf
    <3> QED
      BY <3>1, <3>2
  <2> QED
    BY <2>1, <2>2, <2>3, PlaceKinds
<1>4. l \in Places /\ Shelves(a)[l] = a.fast[i]
  BY PlaceKinds, ShelfOf
<1> HIDE DEF l
<1>5. Shelves(b) = [Shelves(a) EXCEPT ![l] = s]
  <2>1. Shelves(b) = [m \in Places |-> Shelves(b)[m]] /\ Shelves(a) = [m \in Places |-> Shelves(a)[m]]
    BY DEF Shelves
  <2> QED
    BY <1>3, <1>4, <2>1
<1> QED
  BY <1>4, <1>5 DEF l

LEMMA CacheShelf ==
  ASSUME NEW a \in Fit, NEW b, NEW i \in CacheIdx, NEW s,
         b.cached = [a.cached EXCEPT ![i] = s], b.bins = a.bins, b.fast = a.fast
  PROVE  /\ Shelves(b) = [Shelves(a) EXCEPT ![<<"cache", i>>] = s]
         /\ <<"cache", i>> \in Places /\ Shelves(a)[<<"cache", i>>] = a.cached[i]
<1> DEFINE l == <<"cache", i>>
<1>1. DOMAIN a.cached = CacheIdx
  BY FieldType DEF Caches
<1>2. /\ b.cached[i] = s /\ \A j \in CacheIdx : j # i => b.cached[j] = a.cached[j]
  BY <1>1
<1>3. ASSUME NEW m \in Places
      PROVE  Shelves(b)[m] = IF m = l THEN s ELSE Shelves(a)[m]
  <2>1. CASE \E j \in CacheIdx : m = <<"cache", j>>
    <3>1. PICK j \in CacheIdx : m = <<"cache", j>>
      BY <2>1
    <3>2. Shelves(b)[m] = b.cached[j] /\ Shelves(a)[m] = a.cached[j]
      BY <3>1, ShelfOf
    <3>3. m = l <=> j = i
      BY <3>1
    <3> QED
      BY <1>2, <3>2, <3>3
  <2>2. CASE \E j \in 1 .. NBINS - 1 : m = <<"bin", j>>
    <3>1. PICK j \in 1 .. NBINS - 1 : m = <<"bin", j>>
      BY <2>2
    <3>2. Shelves(b)[m] = b.bins[j] /\ Shelves(a)[m] = a.bins[j]
      BY <3>1, ShelfOf
    <3> QED
      BY <3>1, <3>2
  <2>3. CASE \E j \in FastIdx : m = <<"fast", j>>
    <3>1. PICK j \in FastIdx : m = <<"fast", j>>
      BY <2>3
    <3>2. Shelves(b)[m] = b.fast[j] /\ Shelves(a)[m] = a.fast[j]
      BY <3>1, ShelfOf
    <3> QED
      BY <3>1, <3>2
  <2> QED
    BY <2>1, <2>2, <2>3, PlaceKinds
<1>4. l \in Places /\ Shelves(a)[l] = a.cached[i]
  BY PlaceKinds, ShelfOf
<1> HIDE DEF l
<1>5. Shelves(b) = [Shelves(a) EXCEPT ![l] = s]
  <2>1. Shelves(b) = [m \in Places |-> Shelves(b)[m]] /\ Shelves(a) = [m \in Places |-> Shelves(a)[m]]
    BY DEF Shelves
  <2> QED
    BY <1>3, <1>4, <2>1
<1> QED
  BY <1>4, <1>5 DEF l

LEMMA InFront ==
  ASSUME NEW s \in Seq(Int), NEW x \in Int
  PROVE  <<x>> \o s = InsertAt(s, 1, x) /\ 1 \in 1 .. Len(s) + 1
<1>1. SubSeq(s, 1, 0) = <<>> /\ SubSeq(s, 1, Len(s)) = s
  OBVIOUS
<1>2. <<>> \o <<x>> = <<x>>
  OBVIOUS
<1>3. 1 - 1 = 0 /\ Len(s) \in Nat
  OBVIOUS
<1> QED
  BY <1>1, <1>2, <1>3 DEF InsertAt

LEMMA Same ==
  ASSUME NEW a, NEW b, b.hdr = a.hdr, b.brk = a.brk, b.tcache = a.tcache
  PROVE  SameHeap(a, b)
  BY DEF SameHeap, chunksize

\* The fields a list change leaves alone.
LEMMA ToUnsortedStock ==
  ASSUME NEW a \in Fit, NEW K, NEW e, NEW p \in K, Stock(a, K, e)
  PROVE  Stock(to_unsorted(a, p), K \ {p}, e)
<1> DEFINE b == to_unsorted(a, p)
           l == <<"bin", 1>>
<1>1. p \in Int
  BY StockChunks
<1>2. 1 \in 1 .. NBINS - 1 /\ a.bins[1] \in Seq(Int)
  BY OwnBin, Sizes
<1>3. b = [a EXCEPT !.bins[1] = <<p>> \o a.bins[1]]
  BY DEF to_unsorted
<1>4. /\ b.bins = [a.bins EXCEPT ![1] = <<p>> \o a.bins[1]] /\ b.fast = a.fast /\ b.cached = a.cached
      /\ b.hdr = a.hdr /\ b.brk = a.brk /\ b.tcache = a.tcache
  BY <1>3 DEF Fit, Arenas
<1>5. b \in Fit
  BY <1>1, UnsortedKeeps DEF Keeps, Safe
<1> HIDE DEF b
<1>6. SameHeap(a, b)
  BY <1>4, Same
<1>7. /\ Shelves(b) = [Shelves(a) EXCEPT ![<<"bin", 1>>] = <<p>> \o a.bins[1]]
      /\ <<"bin", 1>> \in Places /\ Shelves(a)[<<"bin", 1>>] = a.bins[1]
  <2> DEFINE i == 1
             s == <<p>> \o a.bins[1]
  <2>1. i \in BinIdx /\ b.bins = [a.bins EXCEPT ![i] = s]
        /\ b.fast = a.fast /\ b.cached = a.cached
    BY <1>2, <1>4 DEF BinIdx
  <2> HIDE DEF i, s
  <2>2. /\ Shelves(b) = [Shelves(a) EXCEPT ![<<"bin", i>>] = s]
        /\ <<"bin", i>> \in Places /\ Shelves(a)[<<"bin", i>>] = a.bins[i]
    BY <2>1, BinShelf
  <2> QED
    BY <2>2 DEF i, s
<1>8. <<p>> \o a.bins[1] = InsertAt(a.bins[1], 1, p) /\ 1 \in 1 .. Len(a.bins[1]) + 1
  BY <1>1, <1>2, InFront
<1>9. Suits(l, chunksize(a, p))
  BY DEF Suits
<1> HIDE DEF l
<1>10. /\ l \in Places /\ 1 \in 1 .. Len(Shelves(a)[l]) + 1
       /\ Shelves(b) = [Shelves(a) EXCEPT ![l] = InsertAt(Shelves(a)[l], 1, p)]
  BY <1>7, <1>8 DEF l
<1>11. Stock(b, K \ {p}, e)
  BY <1>5, <1>6, <1>9, <1>10, PutOn
<1> QED
  BY <1>11 DEF b

\* The cache bin of an aligned size is for chunks of that size.
LEMMA CacheIdxExact ==
  ASSUME NEW sz \in Nat, sz >= MINSIZE, aligned_OK(sz)
  PROVE  /\ csize2tidx(sz) \in Nat
         /\ csize2tidx(sz) * MALLOC_ALIGNMENT = sz - MINSIZE
<1> DEFINE A == MALLOC_ALIGNMENT
           q == sz \div A
           m == MINSIZE \div A
<1>1. A \in Nat \ {0} /\ MINSIZE \in Nat /\ MINSIZE % A = 0 /\ sz % A = 0
  BY Layout DEF aligned_OK
<1>2. q \in Nat /\ sz = A * q /\ m \in Nat /\ MINSIZE = A * m
  <2>1. q \in Nat /\ sz = A * q + (sz % A)
    BY <1>1, Division
  <2>2. m \in Nat /\ MINSIZE = A * m + (MINSIZE % A)
    BY <1>1, Division
  <2> HIDE DEF A, q, m
  <2> QED
    BY <1>1, <2>1, <2>2
<1>3. csize2tidx(sz) = (sz - MINSIZE + A - 1) \div A
  BY DEF csize2tidx
<1> HIDE DEF A, q, m
<1> DEFINE d == q - m
<1>4. d \in Int /\ sz - MINSIZE = A * d
  BY <1>1, <1>2
<1>5. d >= 0
  <2>1. CASE d < 0
    <3>1. A * d < 0
      BY <1>1, <1>4, <2>1
    <3> QED
      BY <1>1, <1>4, <3>1
  <2> QED
    BY <1>4, <2>1
<1> HIDE DEF d
<1>6. (A * d + A - 1) \div A = d
  <2> DEFINE x == A * d + A - 1
             y == x \div A
             r == x % A
  <2>1. x \in Nat
    BY <1>1, <1>4, <1>5
  <2>2. y \in Nat /\ x = A * y + r /\ r \in 0 .. A - 1
    <3> HIDE DEF x
    <3> QED
      BY <1>1, <2>1, Division
  <2>3. x = A * d + A - 1
    OBVIOUS
  <2> HIDE DEF x, y, r
  <2>4. A * y <= A * d + A - 1 /\ A * y + A - 1 >= A * d + A - 1 /\ A * y \in Int /\ A * d \in Int
    BY <1>1, <1>4, <2>1, <2>2, <2>3
  <2>5. ASSUME y > d PROVE FALSE
    <3>1. A * y >= A * (d + 1)
      BY <1>1, <1>4, <2>2, <2>5
    <3>2. A * (d + 1) = A * d + A
      BY <1>1, <1>4
    <3> QED
      BY <1>1, <2>4, <3>1, <3>2
  <2>6. ASSUME y < d PROVE FALSE
    <3>1. A * (y + 1) <= A * d
      BY <1>1, <1>4, <2>2, <2>6
    <3>2. A * (y + 1) = A * y + A
      BY <1>1, <2>2
    <3> QED
      BY <1>1, <2>4, <3>1, <3>2
  <2>7. y = d
    <3>1. y \in Int /\ d \in Int /\ ~(y > d) /\ ~(y < d)
      BY <1>4, <2>2, <2>5, <2>6
    <3> QED
      BY <3>1
  <2> QED
    BY <2>7 DEF x, y
<1>7. csize2tidx(sz) = d
  BY <1>1, <1>3, <1>4, <1>6
<1> QED
  BY <1>1, <1>4, <1>5, <1>7 DEF A

LEMMA UnlinkStock ==
  ASSUME NEW a \in Fit, NEW K, NEW e, NEW p, Stock(a, K, e), ~unlink_chunk(a, p).died
  PROVE  /\ p \in On(a) /\ chunksize(a, p) = prev_size(a, next_chunk(a, p))
         /\ Stock(unlink_chunk(a, p), K \cup {p}, e)
         /\ SameHeap(a, unlink_chunk(a, p)) /\ unlink_chunk(a, p) \in Fit
         /\ unlink_chunk(a, p).hdr = a.hdr /\ unlink_chunk(a, p).top = a.top
<1> DEFINE b == unlink_chunk(a, p)
           i == CHOOSE j \in BinsOf(a, p) : TRUE
           heir == fd(a.bins[i], p)
           n == Position(a.bins[i], p)
           s == RemoveAt(a.bins[i], n)
           k == IF p \in a.skip THEN (a.skip \ {p}) \cup (IF heir = NULL THEN {} ELSE {heir})
                                ELSE a.skip
           l == <<"bin", i>>
<1>1. BinsOf(a, p) # {} /\ chunksize(a, p) = prev_size(a, next_chunk(a, p))
  BY DEF unlink_chunk, Fit, Arenas
<1>2. i \in BinsOf(a, p)
  BY <1>1
<1>3. i \in DOMAIN a.bins /\ p \in ToSet(a.bins[i])
  BY <1>2 DEF BinsOf
<1>4. i \in 1 .. NBINS - 1 /\ a.bins[i] \in Seq(Int)
  BY <1>3 DEF Fit, Arenas, Bins
<1>5. n \in DOMAIN a.bins[i] /\ a.bins[i][n] = p
  BY <1>3, PositionIn
<1>6. b = [a EXCEPT !.bins = [a.bins EXCEPT ![i] = s], !.skip = k]
  BY <1>1 DEF unlink_chunk, Fit, Arenas
<1>7. b \in Fit
  BY UnlinkKeeps DEF Keeps, Safe
<1> HIDE DEF i, b, k, n, s
<1>8. /\ b.bins = [a.bins EXCEPT ![i] = s] /\ b.fast = a.fast /\ b.cached = a.cached
      /\ b.hdr = a.hdr /\ b.brk = a.brk /\ b.tcache = a.tcache /\ b.top = a.top
  BY <1>6 DEF Fit, Arenas
<1>9. SameHeap(a, b)
  BY <1>8, Same
<1>10. /\ Shelves(b) = [Shelves(a) EXCEPT ![l] = s] /\ l \in Places /\ Shelves(a)[l] = a.bins[i]
  <2>1. i \in BinIdx
    BY <1>4 DEF BinIdx
  <2> QED
    BY <1>8, <2>1, BinShelf DEF l
<1> HIDE DEF l
<1>11. Shelves(a) \in [Places -> Seq(Int)] /\ Once(Shelves(a))
  BY ShelvesType DEF Stock
<1> DEFINE L == Shelves(a)
<1>12. /\ L \in [Places -> Seq(Int)] /\ Once(L) /\ n \in DOMAIN L[l] /\ L[l][n] = p
       /\ Shelves(b) = [L EXCEPT ![l] = RemoveAt(L[l], n)]
  BY <1>5, <1>10, <1>11 DEF s
<1> HIDE DEF L
<1>13. Once(Shelves(b)) /\ Members(Shelves(b)) = Members(L) \ {p}
  <2>1. /\ Once([L EXCEPT ![l] = RemoveAt(L[l], n)])
        /\ Members([L EXCEPT ![l] = RemoveAt(L[l], n)]) = Members(L) \ {L[l][n]}
    <3>1. L \in [Places -> Seq(Int)] /\ Once(L) /\ n \in DOMAIN L[l] /\ l \in Places
      BY <1>10, <1>12
    <3> QED
      BY <3>1, Unshelved
  <2> QED
    BY <1>12, <2>1, Zenon
<1>14. p \in Members(L)
  <2>1. DOMAIN L = Places
    BY <1>12
  <2> QED
    BY <1>10, <1>12, <2>1 DEF Members, ToSet
<1>15. /\ \A y : y \in On(b) <=> y \in On(a) /\ y \notin {p}
       /\ p \in On(a)
  BY <1>13, <1>14 DEF On, L
<1>16. Stock(b, K \cup {p}, e)
  BY <1>7, <1>9, <1>10, <1>13, <1>15, TakenFrom
<1> QED
  BY <1>1, <1>7, <1>8, <1>9, <1>15, <1>16 DEF b

LEMMA TcachePutStock ==
  ASSUME NEW a \in Fit, NEW K, NEW e, NEW p \in K, Stock(a, K, e),
         NEW sz \in Nat, sz >= MINSIZE, aligned_OK(sz), csize2tidx(sz) < TCACHE_BINS,
         chunksize(a, p) >= sz
  PROVE  /\ Stock(tcache_put(a, p, sz), K \ {p}, e)
         /\ SameHeap(a, tcache_put(a, p, sz)) /\ tcache_put(a, p, sz).top = a.top
         /\ tcache_put(a, p, sz) \in Fit /\ tcache_put(a, p, sz).died = a.died
<1> DEFINE b == tcache_put(a, p, sz)
           i == csize2tidx(sz)
           l == <<"cache", i>>
           s == <<p>> \o a.cached[i]
<1>1. p \in Int
  BY StockChunks
<1>2. i \in CacheIdx
  BY CacheIdxOf
<1>3. a.cached[i] \in Seq(Int)
  BY <1>2, FieldType DEF Caches
<1>4. b = [a EXCEPT !.cached = [a.cached EXCEPT ![i] = s]]
  BY DEF tcache_put, Fit, Arenas
<1>5. b \in Fit
  BY <1>1, TcachePutSafe DEF Safe
<1>6. Suits(l, chunksize(a, p))
  <2>1. i * MALLOC_ALIGNMENT = sz - MINSIZE
    BY CacheIdxExact
  <2>2. MINSIZE \in Nat /\ chunksize(a, p) \in Int
    BY Sizes, SizeIs
  <2> HIDE DEF i
  <2>3. chunksize(a, p) >= MINSIZE + i * MALLOC_ALIGNMENT
    BY <2>1, <2>2
  <2> QED
    BY <2>3 DEF Suits
<1> HIDE DEF b, i, s
<1>7. /\ b.cached = [a.cached EXCEPT ![i] = s] /\ b.fast = a.fast /\ b.bins = a.bins
      /\ b.hdr = a.hdr /\ b.brk = a.brk /\ b.tcache = a.tcache /\ b.top = a.top /\ b.died = a.died
  BY <1>4 DEF Fit, Arenas
<1>8. SameHeap(a, b)
  BY <1>7, Same
<1>9. /\ Shelves(b) = [Shelves(a) EXCEPT ![l] = s] /\ l \in Places /\ Shelves(a)[l] = a.cached[i]
  BY <1>2, <1>7, CacheShelf
<1> HIDE DEF l
<1>10. s = InsertAt(a.cached[i], 1, p) /\ 1 \in 1 .. Len(a.cached[i]) + 1
  BY <1>1, <1>3, InFront DEF s
<1>11. Stock(b, K \ {p}, e)
  BY <1>5, <1>6, <1>8, <1>9, <1>10, PutOn
<1> QED
  BY <1>5, <1>7, <1>8, <1>11 DEF b

LEMMA FastPutStock ==
  ASSUME NEW a \in Fit, NEW K, NEW e, NEW p \in K, Stock(a, K, e),
         NEW i \in FastIdx, fastbin_index(chunksize(a, p)) = i
  PROVE  Stock([a EXCEPT !.have_fastchunks = TRUE, !.fast[i] = <<p>> \o @], K \ {p}, e)
<1> DEFINE b == [a EXCEPT !.have_fastchunks = TRUE, !.fast[i] = <<p>> \o @]
           l == <<"fast", i>>
           s == <<p>> \o a.fast[i]
           h == TRUE
<1>1. p \in Int
  BY StockChunks
<1>3. a.fast[i] \in Seq(Int)
  BY FieldType DEF Fasts
<1>4. b = [a EXCEPT !.have_fastchunks = h, !.fast[i] = s] /\ h \in BOOLEAN
  BY DEF Fit, Arenas
<1>5. s \in Seq(Int)
  BY <1>1, <1>3
<1>6. Suits(l, chunksize(a, p))
  BY DEF Suits
<1> HIDE DEF b, s, h
<1>50. b \in Fit
  BY <1>4, <1>5, FastKeeps DEF Safe
<1>7. /\ b.fast = [a.fast EXCEPT ![i] = s] /\ b.cached = a.cached /\ b.bins = a.bins
      /\ b.hdr = a.hdr /\ b.brk = a.brk /\ b.tcache = a.tcache
  BY <1>4 DEF Fit, Arenas
<1>8. SameHeap(a, b)
  BY <1>7, Same
<1>9. /\ Shelves(b) = [Shelves(a) EXCEPT ![l] = s] /\ l \in Places /\ Shelves(a)[l] = a.fast[i]
  BY <1>7, FastShelf
<1> HIDE DEF l
<1>10. s = InsertAt(a.fast[i], 1, p) /\ 1 \in 1 .. Len(a.fast[i]) + 1
  BY <1>1, <1>3, InFront DEF s
<1>11. Stock(b, K \ {p}, e)
  BY <1>50, <1>6, <1>8, <1>9, <1>10, PutOn
<1> QED
  BY <1>11 DEF b

LEMMA PutInBin ==
  ASSUME NEW a \in Fit, NEW b \in Fit, NEW K, NEW e, NEW v \in K, Stock(a, K, e), SameHeap(a, b),
         NEW i \in BinIdx, Suits(<<"bin", i>>, chunksize(a, v)),
         NEW k \in 1 .. Len(a.bins[i]) + 1,
         b.bins = [a.bins EXCEPT ![i] = InsertAt(a.bins[i], k, v)],
         b.fast = a.fast, b.cached = a.cached
  PROVE  Stock(b, K \ {v}, e)
<1> DEFINE s == InsertAt(a.bins[i], k, v)
           l == <<"bin", i>>
<1>1. s = InsertAt(a.bins[i], k, v) /\ b.bins = [a.bins EXCEPT ![i] = s]
  OBVIOUS
<1> HIDE DEF s
<1>2. /\ Shelves(b) = [Shelves(a) EXCEPT ![<<"bin", i>>] = s] /\ <<"bin", i>> \in Places
      /\ Shelves(a)[<<"bin", i>>] = a.bins[i]
  BY <1>1, BinShelf, SMTT(30)
<1>3. l \in Places /\ Suits(l, chunksize(a, v)) /\ Shelves(a)[l] = a.bins[i]
      /\ Shelves(b) = [Shelves(a) EXCEPT ![l] = InsertAt(Shelves(a)[l], k, v)]
  BY <1>1, <1>2
<1> HIDE DEF l
<1>4. k \in 1 .. Len(Shelves(a)[l]) + 1
  BY <1>3
<1> QED
  BY <1>3, <1>4, PutOn

LEMMA PlaceInBinStock ==
  ASSUME NEW a \in Fit, NEW K, NEW e, NEW v \in K, Stock(a, K, e)
  PROVE  /\ Stock(PlaceInBin(a, v), K \ {v}, e)
         /\ SameHeap(a, PlaceInBin(a, v)) /\ PlaceInBin(a, v).top = a.top
<1> DEFINE size == chunksize(a, v)
           i == bin_index(size)
           bin == a.bins[i]
           notLarger == {k \in DOMAIN bin : bin[k] \in a.skip /\ chunksize(a, bin[k]) <= size}
           at == IF notLarger = {} THEN Len(bin) + 1 ELSE Min(notLarger)
           tie == notLarger # {} /\ chunksize(a, bin[at]) = size
           place == IF tie THEN SecondPlace(at) ELSE at
           front == <<v>> \o bin
           mid == InsertAt(bin, place, v)
           skip == IF tie THEN a.skip ELSE a.skip \cup {v}
           map == a.binmap \cup {i}
           l == <<"bin", i>>
           b == PlaceInBin(a, v)
<1>0. v \in Int /\ size \in Nat /\ size >= MINSIZE
  BY StockChunks
<1>1. i \in 2 .. LAST_BIN
  BY <1>0, BinExists
<1>2. i \in 1 .. NBINS - 1
  <2>1. NBINS - 1 = LAST_BIN
    BY LadderAssumption DEF NBINS
  <2> HIDE DEF size, i
  <2> QED
    BY <1>1, <2>1
<1>3. bin \in Seq(Int) /\ DOMAIN a.bins = 1 .. NBINS - 1
  BY <1>2, FieldType DEF Bins
<1>4. \/ b = [a EXCEPT !.binmap = map, !.bins = [a.bins EXCEPT ![i] = front]]
      \/ b = [a EXCEPT !.binmap = map, !.bins = [a.bins EXCEPT ![i] = mid], !.skip = skip]
  BY DEF PlaceInBin, mark_bin, Fit, Arenas
<1>5. b \in Fit
  <2>1. size >= Least
    BY <1>0, Sizes
  <2> QED
    BY <1>0, <2>1, PlaceInBinKeeps DEF Keeps, Safe
<1>6. Suits(l, size)
  BY DEF Suits
<1> HIDE DEF size, i, bin, b, l
<1>7. place \in 1 .. Len(bin) + 1
  <2>1. notLarger \subseteq 1 .. Len(bin) /\ Len(bin) \in Nat
    BY <1>3
  <2>2. notLarger # {} => Min(notLarger) \in notLarger
    <3>1. notLarger \subseteq Nat
      BY <2>1
    <3> HIDE DEF notLarger
    <3> QED
      BY <3>1, MinOf
  <2> HIDE DEF notLarger
  <2>4. CASE notLarger = {}
    <3>1. place = Len(bin) + 1
      BY <2>4
    <3> HIDE DEF place
    <3> QED
      BY <2>1, <3>1
  <2>5. CASE notLarger # {}
    <3>1. at = Min(notLarger)
      BY <2>5
    <3>2. Min(notLarger) \in 1 .. Len(bin)
      BY <2>1, <2>2, <2>5, Zenon
    <3> HIDE DEF at, tie
    <3>3. at \in 1 .. Len(bin)
      BY <3>1, <3>2, Zenon
    <3>4. place = at \/ place = at + 1
      BY DEF SecondPlace
    <3> HIDE DEF place
    <3> QED
      BY <2>1, <3>3, <3>4
  <2> QED
    BY <2>4, <2>5
<1> HIDE DEF place
<1>8. front = InsertAt(bin, 1, v) /\ 1 \in 1 .. Len(bin) + 1
  BY <1>0, <1>3, InFront
<1> HIDE DEF map, skip, front, mid, at, tie, notLarger
<1>9. PICK k \in 1 .. Len(bin) + 1 : /\ b.bins = [a.bins EXCEPT ![i] = InsertAt(bin, k, v)]
           /\ b.fast = a.fast /\ b.cached = a.cached
           /\ b.hdr = a.hdr /\ b.brk = a.brk /\ b.tcache = a.tcache /\ b.top = a.top
  <2>1. CASE b = [a EXCEPT !.binmap = map, !.bins = [a.bins EXCEPT ![i] = front]]
    <3>1. /\ b.bins = [a.bins EXCEPT ![i] = front] /\ b.fast = a.fast /\ b.cached = a.cached
          /\ b.hdr = a.hdr /\ b.brk = a.brk /\ b.tcache = a.tcache /\ b.top = a.top
      BY <2>1 DEF Fit, Arenas
    <3> QED
      BY <1>8, <3>1
  <2>2. CASE b = [a EXCEPT !.binmap = map, !.bins = [a.bins EXCEPT ![i] = mid], !.skip = skip]
    <3>1. /\ b.bins = [a.bins EXCEPT ![i] = mid] /\ b.fast = a.fast /\ b.cached = a.cached
          /\ b.hdr = a.hdr /\ b.brk = a.brk /\ b.tcache = a.tcache /\ b.top = a.top
      BY <2>2 DEF Fit, Arenas
    <3>2. mid = InsertAt(bin, place, v)
      BY DEF mid
    <3> QED
      BY <1>7, <3>1, <3>2
  <2> QED
    BY <1>4, <2>1, <2>2
<1>10. SameHeap(a, b)
  BY <1>9, Same
<1>11. b.bins = [a.bins EXCEPT ![i] = InsertAt(a.bins[i], k, v)] /\ k \in 1 .. Len(a.bins[i]) + 1
  BY <1>9 DEF bin
<1>12. i \in BinIdx /\ Suits(<<"bin", i>>, chunksize(a, v))
  BY <1>2, <1>6 DEF BinIdx, size, l
<1>13. Stock(b, K \ {v}, e)
  BY <1>5, <1>9, <1>10, <1>11, <1>12, PutInBin
<1> QED
  BY <1>9, <1>10, <1>13 DEF b

LEMMA UnlinkDies ==
  ASSUME NEW a \in Fit, NEW p, a.died
  PROVE  unlink_chunk(a, p).died
  BY UnlinkKeeps DEF Keeps, Safe

LEMMA CheckedAlive ==
  ASSUME NEW a \in Fit, NEW ok, ~Checked(a, ok).died
  PROVE  ok /\ Checked(a, ok) = a /\ ~a.died
<1>1. CASE ok
  BY <1>1 DEF Checked
<1>2. CASE ~ok
  BY <1>2 DEF Checked, Fit, Arenas
<1> QED
  BY <1>1, <1>2

\* The chunk q is behind p, and they have n words together.
Neighbours(a, p, q, n) == q = p + chunksize(a, p) /\ n = chunksize(a, p) + chunksize(a, q)

\* Two neighbours that somebody has become one chunk.
LEMMA JoinTwo ==
  ASSUME NEW a \in Fit, NEW K, NEW e, NEW p \in K, NEW q \in K, NEW n \in Int, NEW pin \in BOOLEAN,
         Stock(a, K, e), Neighbours(a, p, q, n)
  PROVE  /\ Stock(set_head(a, p, n, pin), K \ {q}, e)
         /\ set_head(a, p, n, pin) \in Fit /\ set_head(a, p, n, pin).top = a.top
         /\ chunksize(set_head(a, p, n, pin), p) = n
         /\ Aside(a, set_head(a, p, n, pin))
<1> DEFINE b == set_head(a, p, n, pin)
<1>1. /\ Clear(a, p, n, e) /\ K \ (p .. p + n - 1) = K \ {p, q}
      /\ n \in Nat /\ n >= MINSIZE + MINSIZE
  BY PairIsClear DEF Neighbours
<1>2. p \in Nat \ {0} /\ MINSIZE \in Nat /\ q # p
  <2>1. p \in Nat \ {0} /\ chunksize(a, p) \in Nat \ {0}
    BY StockChunks
  <2> QED
    BY <2>1, Sizes DEF Neighbours
<1>3. n >= MINSIZE
  BY <1>1, <1>2
<1>4. Stock(b, (K \ (p .. p + n - 1)) \cup {p}, e)
  BY <1>1, <1>2, <1>3, OnePiece
<1>5. (K \ (p .. p + n - 1)) \cup {p} = K \ {q}
  BY <1>1, <1>2
<1>6. b \in Fit /\ b.top = a.top /\ chunksize(b, p) = n /\ Aside(a, b)
  <2>1. p \in Int /\ n \in Int
    BY <1>2
  <2> QED
    BY <2>1, HeadCuts
<1> QED
  BY <1>4, <1>5, <1>6

LEMMA JoinPrevStock ==
  ASSUME NEW a \in Fit, NEW K, NEW e, NEW p \in K, Stock(a, K, e), ~JoinPrev(a, p).died
  PROVE  /\ Stock(JoinPrev(a, p), (K \ {p}) \cup {MergeBase(a, p)}, e)
         /\ JoinPrev(a, p) \in Fit /\ JoinPrev(a, p).top = a.top
         /\ MergeBase(a, p) = p \/ MergeBase(a, p) \notin K
<1>1. CASE prev_inuse(a, p)
  <2>1. JoinPrev(a, p) = a /\ MergeBase(a, p) = p
    BY <1>1 DEF JoinPrev, MergeBase
  <2>2. (K \ {p}) \cup {p} = K
    OBVIOUS
  <2> QED
    BY <2>1, <2>2
<1>2. CASE ~prev_inuse(a, p)
  <2> DEFINE q == MergeBase(a, p)
             b == Checked(a, chunksize(a, q) = prev_size(a, p))
             c == unlink_chunk(b, q)
             n == prev_size(a, p) + chunksize(a, p)
             yes == TRUE
             d == set_head(c, q, n, yes)
  <2>0. p \in Int /\ q \in Int /\ prev_size(a, p) \in Int /\ chunksize(a, p) \in Int
        /\ q = p - prev_size(a, p)
    BY <1>2, StockChunks, MergeBaseType, FitType DEF MergeBase
  <2>1. JoinPrev(a, p) = d
    BY <1>2 DEF JoinPrev
  <2>2. b \in Fit
    BY CheckedFit
  <2>3. ~d.died
    BY <2>1
  <2>4. n \in Int /\ yes \in BOOLEAN
    BY <2>0
  <2>5. c \in Fit
    BY <2>2, UnlinkKeeps DEF Keeps, Safe
  <2> HIDE DEF q, yes, n, c
  <2>6. ~c.died
    BY <2>0, <2>3, <2>4, <2>5, HeadCuts DEF Aside
  <2>7. ~b.died
    BY <2>2, <2>6, UnlinkDies DEF c
  <2>8. b = a /\ chunksize(a, q) = prev_size(a, p)
    BY <2>7, CheckedAlive
  <2> HIDE DEF b
  <2>14. c = unlink_chunk(a, q) /\ ~unlink_chunk(a, q).died
    BY <2>6, <2>8 DEF c
  <2> DEFINE M == K \cup {q}
  <2>9. /\ q \in On(a) /\ Stock(c, M, e) /\ SameHeap(a, c) /\ c.top = a.top
    BY <2>14, UnlinkStock, ZenonT(40)
  <2>10. /\ q \in M /\ p \in M /\ Neighbours(c, q, p, n)
    BY <2>0, <2>8, <2>9 DEF SameHeap, n, Neighbours
  <2> HIDE DEF M
  <2>15. /\ Stock(d, M \ {p}, e) /\ d \in Fit /\ d.top = c.top
    BY <2>4, <2>5, <2>9, <2>10, JoinTwo
  <2>11. /\ Stock(d, (K \cup {q}) \ {p}, e) /\ d \in Fit /\ d.top = c.top
    BY <2>15 DEF M
  <2>12. q \notin K
    BY <2>9, StockChunks
  <2>13. (K \cup {q}) \ {p} = (K \ {p}) \cup {q}
    BY <2>12
  <2> QED
    BY <2>1, <2>9, <2>11, <2>12, <2>13 DEF q
<1> QED
  BY <1>1, <1>2

LEMMA PinsStay ==
  ASSUME NEW a \in Fit, NEW p
  PROVE  /\ SameHeap(a, set_inuse_bit(a, p)) /\ Aside(a, set_inuse_bit(a, p))
         /\ set_inuse_bit(a, p).top = a.top /\ set_inuse_bit(a, p) \in Fit
         /\ SameHeap(a, clear_inuse_bit(a, p)) /\ Aside(a, clear_inuse_bit(a, p))
         /\ clear_inuse_bit(a, p).top = a.top /\ clear_inuse_bit(a, p) \in Fit
<1>1. a.hdr \in Partial(Int, Header)
  BY DEF Fit, Arenas
<1>2. ASSUME NEW v, NEW b, b.hdr = [a.hdr EXCEPT ![p].pin = v], b.brk = a.brk, b.tcache = a.tcache
      PROVE  SameHeap(a, b)
  <2>1. DOMAIN b.hdr = DOMAIN a.hdr
    BY <1>2
  <2>2. ASSUME NEW r PROVE chunksize(b, r) = chunksize(a, r)
    <3>1. CASE r \in DOMAIN a.hdr
      <4>1. a.hdr[r] \in Header
        BY <1>1, <3>1, PartialType
      <4>2. b.hdr[r].sz = a.hdr[r].sz
        BY <1>2, <3>1, <4>1 DEF Header
      <4> QED
        BY <2>1, <3>1, <4>2 DEF chunksize
    <3>2. CASE r \notin DOMAIN a.hdr
      BY <2>1, <3>2 DEF chunksize
    <3> QED
      BY <3>1, <3>2
  <2> QED
    BY <1>2, <2>1, <2>2 DEF SameHeap
<1> DEFINE b == set_inuse_bit(a, p)
           c == clear_inuse_bit(a, p)
           t == TRUE
           f == FALSE
<1>3. b.hdr = [a.hdr EXCEPT ![p].pin = t] /\ c.hdr = [a.hdr EXCEPT ![p].pin = f]
  BY DEF set_inuse_bit, clear_inuse_bit, Fit, Arenas
<1>4. /\ b.brk = a.brk /\ b.tcache = a.tcache /\ b.top = a.top /\ b.bins = a.bins
      /\ b.fast = a.fast /\ b.cached = a.cached /\ b.died = a.died
  BY DEF set_inuse_bit, Fit, Arenas
<1>5. /\ c.brk = a.brk /\ c.tcache = a.tcache /\ c.top = a.top /\ c.bins = a.bins
      /\ c.fast = a.fast /\ c.cached = a.cached /\ c.died = a.died
  BY DEF clear_inuse_bit, Fit, Arenas
<1>6. b \in Fit /\ c \in Fit
  BY InuseBitKeeps DEF Keeps, Safe
<1> HIDE DEF b, c, t, f
<1>7. SameHeap(a, b) /\ SameHeap(a, c)
  BY <1>2, <1>3, <1>4, <1>5
<1>8. Aside(a, b) /\ Aside(a, c)
  BY <1>4, <1>5 DEF Aside
<1> QED
  BY <1>4, <1>5, <1>6, <1>7, <1>8 DEF b, c

LEMMA KindOfSized ==
  ASSUME NEW a \in Fit, NEW K, NEW e, NEW p \in K, Stock(a, K, e)
  PROVE  Sized(a, p) /\ p \in Int /\ chunksize(a, p) \in Int
  BY StockChunks, Sizes DEF Sized

LEMMA JoinNextStock ==
  ASSUME NEW a \in Fit, NEW K, NEW e, NEW p \in K, Stock(a, K, e), ~JoinNext(a, p).died
  PROVE  /\ Stock(JoinNext(a, p), K, e)
         /\ JoinNext(a, p) \in Fit /\ JoinNext(a, p).top = a.top
<1> DEFINE q == next_chunk(a, p)
<1>1. CASE inuse(a, q)
  <2>1. JoinNext(a, p) = clear_inuse_bit(a, q)
    BY <1>1 DEF JoinNext
  <2> QED
    BY <2>1, PinsStay, Stays
<1>2. CASE ~inuse(a, q)
  <2> DEFINE n == chunksize(a, p) + chunksize(a, q)
             c == unlink_chunk(a, q)
             pin == prev_inuse(c, p)
             d == set_head(c, p, n, pin)
             M == K \cup {q}
  <2>0. p \in Int /\ n \in Int
    BY KindOfSized, FitType
  <2>1. JoinNext(a, p) = d
    BY <1>2 DEF JoinNext, set_head_size
  <2>2. c \in Fit
    BY UnlinkKeeps DEF Keeps, Safe
  <2>3. pin \in BOOLEAN
    BY <2>2, FitType
  <2>4. ~d.died
    BY <2>1
  <2> HIDE DEF c, n, pin
  <2>5. ~c.died
    BY <2>0, <2>2, <2>3, <2>4, HeadCuts DEF Aside
  <2>6. ~unlink_chunk(a, q).died
    BY <2>5 DEF c
  <2>9. /\ q \in On(a) /\ Stock(c, M, e) /\ SameHeap(a, c) /\ c.top = a.top
    BY <2>6, UnlinkStock, ZenonT(40) DEF c
  <2>10. /\ q \in M /\ p \in M /\ Neighbours(c, p, q, n)
    BY <2>9 DEF SameHeap, n, Neighbours, next_chunk
  <2>12. q \notin K
    BY <2>9, StockChunks
  <2>13. M \ {q} = K
    BY <2>12
  <2> HIDE DEF M, q
  <2>11. /\ Stock(d, M \ {q}, e) /\ d \in Fit /\ d.top = c.top
    BY <2>0, <2>2, <2>3, <2>9, <2>10, JoinTwo
  <2> QED
    BY <2>1, <2>9, <2>11, <2>13
<1> QED
  BY <1>1, <1>2

LEMMA FootStays ==
  ASSUME NEW a \in Fit, NEW p, NEW s
  PROVE  /\ SameHeap(a, set_foot(a, p, s)) /\ Aside(a, set_foot(a, p, s))
         /\ set_foot(a, p, s).top = a.top /\ set_foot(a, p, s).hdr = a.hdr
<1> DEFINE b == set_foot(a, p, s)
<1>1. /\ b.hdr = a.hdr /\ b.brk = a.brk /\ b.tcache = a.tcache /\ b.top = a.top /\ b.bins = a.bins
      /\ b.fast = a.fast /\ b.cached = a.cached /\ b.died = a.died
  BY DEF set_foot, Fit, Arenas
<1> HIDE DEF b
<1>2. SameHeap(a, b) /\ Aside(a, b)
  BY <1>1, Same DEF Aside
<1> QED
  BY <1>1, <1>2 DEF b

LEMMA UnsortedStays ==
  ASSUME NEW a \in Fit, NEW p
  PROVE  /\ SameHeap(a, to_unsorted(a, p)) /\ to_unsorted(a, p).top = a.top
         /\ to_unsorted(a, p).died = a.died
<1> DEFINE b == to_unsorted(a, p)
<1>1. /\ b.hdr = a.hdr /\ b.brk = a.brk /\ b.tcache = a.tcache /\ b.top = a.top /\ b.died = a.died
  BY DEF to_unsorted, Fit, Arenas
<1> HIDE DEF b
<1>2. SameHeap(a, b)
  BY <1>1, Same
<1> QED
  BY <1>1, <1>2 DEF b

\* The chunks in H, the one at top, and the ones on a list are all there are.
Tops(a) == {a.top} \ {NULL}
Owned(a, H, e) == Stock(a, H \cup Tops(a), e) /\ a.top \notin H
Sound(a, H, e) == a.died \/ Owned(a, H, e)

LEMMA TopMovesTo ==
  ASSUME NEW a \in Fit, NEW K, NEW e, Stock(a, K, e), NEW p \in K
  PROVE  Owned([a EXCEPT !.top = p], K \ {p}, e) /\ [a EXCEPT !.top = p] \in Fit
<1> DEFINE b == [a EXCEPT !.top = p]
<1>1. p \in Nat \ {0}
  BY StockChunks
<1>2. b \in Fit
  BY <1>1, TopKeeps DEF Keeps, Safe
<1>3. /\ b.hdr = a.hdr /\ b.brk = a.brk /\ b.tcache = a.tcache /\ b.top = p /\ b.bins = a.bins
      /\ b.fast = a.fast /\ b.cached = a.cached /\ b.died = a.died
  BY DEF Fit, Arenas
<1> HIDE DEF b
<1>4. SameHeap(a, b) /\ Aside(a, b)
  BY <1>3, Same DEF Aside
<1>5. Stock(b, K, e)
  BY <1>4, Stays
<1>6. (K \ {p}) \cup Tops(b) = K
  BY <1>1, <1>3 DEF Tops, NULL
<1> QED
  BY <1>2, <1>3, <1>5, <1>6 DEF Owned, b

LEMMA PutFreeOwned ==
  ASSUME NEW a \in Fit, NEW H, NEW e, NEW p \in H, Owned(a, H, e), ~PutFree(a, p).died
  PROVE  Owned(PutFree(a, p), H \ {p}, e) /\ PutFree(a, p) \in Fit
<1> DEFINE K == H \cup Tops(a)
<1>0. Stock(a, K, e) /\ a.top \notin H /\ p \in K
  BY DEF Owned
<1>1. CASE next_chunk(a, p) = a.top
  <2> DEFINE n == chunksize(a, p) + chunksize(a, a.top)
             yes == TRUE
             b == set_head(a, p, n, yes)
             t == a.top
  <2>1. PutFree(a, p) = [b EXCEPT !.top = p]
    BY <1>1 DEF PutFree
  <2>2. n \in Int /\ yes \in BOOLEAN
    BY FitType
  <2>3. t > 0
    BY <1>0, <1>1, StockChunks DEF next_chunk
  <2>4. t \in K /\ Neighbours(a, p, t, n)
    BY <1>1, <2>3 DEF Tops, NULL, Neighbours, next_chunk
  <2>5. (K \ {t}) \ {p} = H \ {p} /\ p \in K \ {t}
    BY <1>0 DEF Tops
  <2> HIDE DEF K, n, yes, t
  <2>6. Stock(b, K \ {t}, e) /\ b \in Fit
    BY <1>0, <2>2, <2>4, JoinTwo
  <2> HIDE DEF b
  <2>7. Owned([b EXCEPT !.top = p], (K \ {t}) \ {p}, e) /\ [b EXCEPT !.top = p] \in Fit
    BY <2>5, <2>6, TopMovesTo
  <2> QED
    BY <2>1, <2>5, <2>7
<1>2. CASE next_chunk(a, p) # a.top
  <2> DEFINE b == JoinNext(a, p)
             c == to_unsorted(b, p)
             d == set_foot(c, p, chunksize(b, p))
  <2>1. PutFree(a, p) = d
    BY <1>2 DEF PutFree
  <2>2. b \in Fit /\ p \in Int /\ Sized(a, p)
    BY <1>0, KindOfSized, JoinNextKeeps DEF Keeps, Safe
  <2>3. c \in Fit
    BY <2>2, UnsortedKeeps DEF Keeps, Safe
  <2>4. ~d.died
    BY <2>1
  <2>5. ~b.died
    BY <2>2, <2>3, <2>4, UnsortedStays, FootStays DEF Aside
  <2> HIDE DEF K
  <2>6. Stock(b, K, e) /\ b.top = a.top
    BY <1>0, <2>5, JoinNextStock
  <2> HIDE DEF b
  <2>7. Stock(c, K \ {p}, e) /\ c.top = b.top
    BY <1>0, <2>2, <2>6, ToUnsortedStock, UnsortedStays
  <2> HIDE DEF c
  <2>8. Stock(d, K \ {p}, e) /\ d.top = c.top
    BY <2>3, <2>7, FootStays, Stays
  <2>9. d \in Fit
    BY <2>1, <2>2, PutFreeKeeps DEF Keeps, Safe
  <2> HIDE DEF d
  <2>10. K \ {p} = (H \ {p}) \cup Tops(d)
    BY <1>0, <2>6, <2>7, <2>8 DEF K, Tops
  <2> QED
    BY <1>0, <2>1, <2>6, <2>7, <2>8, <2>9, <2>10 DEF Owned
<1> QED
  BY <1>1, <1>2

\* A chunk that somebody has is freed for good.
LEMMA CoalesceOwned ==
  ASSUME NEW a \in Fit, NEW H, NEW e, NEW p \in H, Owned(a, H, e), ~Coalesce(a, p).died
  PROVE  Owned(Coalesce(a, p), H \ {p}, e) /\ Coalesce(a, p) \in Fit
<1> DEFINE K == H \cup Tops(a)
           b == JoinPrev(a, p)
           q == MergeBase(a, p)
           M == (H \ {p}) \cup {q}
<1>0. Stock(a, K, e) /\ a.top \notin H /\ p \in K
  BY DEF Owned
<1>1. Coalesce(a, p) = PutFree(b, q)
  BY DEF Coalesce
<1> HIDE DEF K
<1>2. p \in Int /\ Sized(a, p)
  BY <1>0, KindOfSized
<1>3. b \in Fit /\ Sized(b, q) /\ q \in Int
  BY <1>2, JoinPrevKeeps, MergeBaseType DEF Keeps, Safe
<1> HIDE DEF b
<1>4. ~b.died
  BY <1>1, <1>3, PutFreeKeeps DEF Keeps, Safe
<1> USE DEF b
<1>5. /\ Stock(b, (K \ {p}) \cup {q}, e) /\ b.top = a.top /\ (q = p \/ q \notin K)
  BY <1>0, <1>4, JoinPrevStock
<1> HIDE DEF b, q
<1>6. (K \ {p}) \cup {q} = M \cup Tops(b) /\ b.top \notin M
  <2>1. q = p \/ (q \notin H /\ q # a.top)
    <3>1. CASE q \notin K
      <4>1. q # a.top
        <5>1. CASE a.top = NULL
          <6>1. q \in Nat \ {0}
            <7> DEFINE N == (K \ {p}) \cup {q}
            <7>1. q \in N /\ Stock(b, N, e)
              BY <1>5
            <7> HIDE DEF N
            <7> QED
              BY <1>3, <7>1, StockChunks
          <6> QED
            BY <5>1, <6>1 DEF NULL
        <5>2. CASE a.top # NULL
          BY <3>1, <5>2 DEF K, Tops
        <5> QED
          BY <5>1, <5>2
      <4> QED
        BY <3>1, <4>1 DEF K
    <3> QED
      BY <1>5, <3>1
  <2>2. p # a.top
    BY <1>0
  <2> QED
    BY <1>0, <1>5, <2>1, <2>2 DEF K, Tops
<1>7. Owned(b, M, e) /\ q \in M
  BY <1>5, <1>6 DEF Owned
<1>8. ~PutFree(b, q).died
  BY <1>1
<1>9. M \ {q} = H \ {p}
  <2>1. q = p \/ q \notin H
    BY <1>5 DEF K
  <2> QED
    BY <2>1
<1> HIDE DEF M
<1>10. Owned(PutFree(b, q), M \ {q}, e) /\ PutFree(b, q) \in Fit
  BY <1>3, <1>7, <1>8, PutFreeOwned
<1> QED
  BY <1>1, <1>9, <1>10

-----------------------------------------------------------------------------
(* Folds over lists *)

\* The lists of a fold over 1 .. n.
LEMMA PrefixMax ==
  ASSUME NEW n \in Nat, n > 0
  PROVE  Max(1 .. n) = n /\ (1 .. n) \ {Max(1 .. n)} = 1 .. n - 1 /\ 1 .. n # {}
<1>1. 1 .. n # {} /\ n \in 1 .. n /\ 1 .. n \in SUBSET (1 .. n)
  OBVIOUS
<1>2. Max(1 .. n) \in 1 .. n /\ \A y \in 1 .. n : Max(1 .. n) >= y
  <2> DEFINE t == 1 .. n
  <2>1. t \in SUBSET (1 .. n) /\ t # {}
    BY <1>1
  <2> HIDE DEF t
  <2>2. Max(t) \in t /\ \A y \in t : Max(t) >= y
    BY <2>1, MaxOf
  <2> QED
    BY <2>2 DEF t
<1> DEFINE x == Max(1 .. n)
<1> HIDE DEF x
<1>3. x = n
  <2>1. x \in 1 .. n /\ x >= n
    BY <1>1, <1>2 DEF x
  <2> QED
    BY <2>1
<1> QED
  BY <1>1, <1>3 DEF x

\* The turns of malloc_consolidate: the arena is g[k] once k chunks of s are freed.
FreedInTurn(a, g, s) == \A k \in 1 .. Len(s) : g[k] = CoalesceFast(a, g[k - 1], s[k])

LEMMA AllFreedRuns ==
  ASSUME NEW a, NEW base \in Fit, NEW s \in Seq(Int)
  PROVE  \E g : /\ g[0] = base /\ AllFreed(a, base, s) = g[Len(s)]
                /\ \A k \in 0 .. Len(s) : g[k] \in Fit
                /\ FreedInTurn(a, g, s)
<1> DEFINE next == [x \in Fit \X Int |-> CoalesceFast(a, x[1], x[2])]
           Eqn(g) == g = [t \in SUBSET DOMAIN s |->
                           IF t = {} THEN base ELSE CoalesceFast(a, g[t \ {Max(t)}], s[Max(t)])]
           iter == CHOOSE g : Eqn(g)
<1>0. Len(s) \in Nat /\ DOMAIN s = 1 .. Len(s) /\ \A i \in 1 .. Len(s) : s[i] \in Int
  OBVIOUS
<1>1. ASSUME NEW b \in Fit, NEW p \in Int PROVE CoalesceFast(a, b, p) \in Fit
  BY CoalesceFastKeeps DEF Keeps, Safe
<1>2. next \in [Fit \X Int -> Fit]
  BY <1>1
<1>3. PICK f : IsFold(f, Fit, next, base, s)
  <2> HIDE DEF next
  <2> QED
    BY <1>2, FoldExists
<1>4. \A t \in SUBSET DOMAIN s : t # {} => Max(t) \in t /\ s[Max(t)] \in Int
  <2> SUFFICES ASSUME NEW t \in SUBSET DOMAIN s, t # {}
               PROVE  Max(t) \in t /\ s[Max(t)] \in Int
    OBVIOUS
  <2>1. Max(t) \in t
    BY <1>0, MaxOf
  <2> QED
    BY <2>1
<1>5. Eqn(f)
  <2>1. ASSUME NEW t \in SUBSET DOMAIN s
        PROVE  f[t] = IF t = {} THEN base ELSE CoalesceFast(a, f[t \ {Max(t)}], s[Max(t)])
    <3>1. CASE t = {}
      BY <1>3, <3>1 DEF IsFold
    <3>2. CASE t # {}
      <4>1. t \ {Max(t)} \in SUBSET DOMAIN s
        OBVIOUS
      <4>2. f[t \ {Max(t)}] \in Fit /\ s[Max(t)] \in Int
        BY <1>3, <1>4, <3>2, <4>1 DEF IsFold
      <4>3. f[t] = next[<<f[t \ {Max(t)}], s[Max(t)]>>]
        BY <1>3, <3>2 DEF IsFold
      <4> QED
        BY <3>2, <4>2, <4>3
    <3> QED
      BY <3>1, <3>2
  <2>2. f = [t \in SUBSET DOMAIN s |-> f[t]]
    BY <1>3 DEF IsFold
  <2> QED
    BY <2>1, <2>2
<1>6. Eqn(iter)
  <2> HIDE DEF Eqn
  <2> QED
    BY <1>5
<1> DEFINE g == [k \in 0 .. Len(s) |-> iter[1 .. k]]
<1>7. AllFreed(a, base, s) = iter[1 .. Len(s)]
  BY <1>0 DEF AllFreed, FoldLeft, MapThenFoldSet, iter
<1> HIDE DEF iter
<1>8. iter[{}] = base /\ 1 .. 0 = {}
  BY <1>6
<1>9. ASSUME NEW k \in 1 .. Len(s) PROVE iter[1 .. k] = CoalesceFast(a, iter[1 .. k - 1], s[k])
  <2>1. /\ 1 .. k \in SUBSET DOMAIN s /\ 1 .. k # {}
        /\ Max(1 .. k) = k /\ (1 .. k) \ {Max(1 .. k)} = 1 .. k - 1
    BY <1>0, PrefixMax, SMTT(30)
  <2>2. iter[1 .. k] = CoalesceFast(a, iter[(1 .. k) \ {Max(1 .. k)}], s[Max(1 .. k)])
    BY <1>6, <2>1
  <2> QED
    BY <2>1, <2>2
<1> HIDE DEF Eqn
<1>10. g[0] = base /\ AllFreed(a, base, s) = g[Len(s)]
  BY <1>0, <1>7, <1>8
<1>11. \A k \in 1 .. Len(s) : g[k] = CoalesceFast(a, g[k - 1], s[k])
  BY <1>0, <1>9
<1> HIDE DEF g
<1> DEFINE R == {k \in Nat : k <= Len(s) => g[k] \in Fit}
<1>12. 0 \in R
  BY <1>10
<1>13. ASSUME NEW k \in Nat, k \in R PROVE k + 1 \in R
  <2> SUFFICES ASSUME k + 1 <= Len(s) PROVE g[k + 1] \in Fit
    OBVIOUS
  <2>1. k + 1 \in 1 .. Len(s) /\ (k + 1) - 1 = k /\ g[k] \in Fit
    BY <1>0, <1>13
  <2>2. g[k + 1] = CoalesceFast(a, g[k], s[k + 1]) /\ s[k + 1] \in Int
    BY <1>0, <1>11, <2>1
  <2> QED
    BY <1>1, <2>1, <2>2
<1>14. FreedInTurn(a, g, s)
  BY <1>11 DEF FreedInTurn
<1>15. \A k \in 0 .. Len(s) : g[k] \in Fit
  <2> HIDE DEF R
  <2>1. Nat \subseteq R
    BY <1>12, <1>13, SetInduction
  <2> USE DEF R
  <2> QED
    BY <1>0, <2>1
<1> QED
  BY <1>10, <1>15, <1>14

\* The turns that stash chunks in the tcache.
CachedRun(g, base, s, sz) ==
  /\ g[0] = base /\ AllCached(base, s, sz) = g[Len(s)]
  /\ \A k \in 0 .. Len(s) : g[k] \in Fit
  /\ \A k \in 1 .. Len(s) : g[k] = tcache_put(g[k - 1], s[k], sz)

LEMMA AllCachedRuns ==
  ASSUME NEW base \in Fit, NEW s \in Seq(Int), NEW sz
  PROVE  \E g : CachedRun(g, base, s, sz)
<1> DEFINE next == [x \in Fit \X Int |-> tcache_put(x[1], x[2], sz)]
           Eqn(g) == g = [t \in SUBSET DOMAIN s |->
                           IF t = {} THEN base ELSE tcache_put(g[t \ {Max(t)}], s[Max(t)], sz)]
           iter == CHOOSE g : Eqn(g)
<1>0. Len(s) \in Nat /\ DOMAIN s = 1 .. Len(s) /\ \A i \in 1 .. Len(s) : s[i] \in Int
  OBVIOUS
<1>1. ASSUME NEW b \in Fit, NEW p \in Int PROVE tcache_put(b, p, sz) \in Fit
  BY TcachePutSafe DEF Safe
<1>2. next \in [Fit \X Int -> Fit]
  BY <1>1
<1>3. PICK f : IsFold(f, Fit, next, base, s)
  <2> HIDE DEF next
  <2> QED
    BY <1>2, FoldExists
<1>4. \A t \in SUBSET DOMAIN s : t # {} => Max(t) \in t /\ s[Max(t)] \in Int
  <2> SUFFICES ASSUME NEW t \in SUBSET DOMAIN s, t # {}
               PROVE  Max(t) \in t /\ s[Max(t)] \in Int
    OBVIOUS
  <2>1. Max(t) \in t
    BY <1>0, MaxOf
  <2> QED
    BY <2>1
<1>5. Eqn(f)
  <2>1. ASSUME NEW t \in SUBSET DOMAIN s
        PROVE  f[t] = IF t = {} THEN base ELSE tcache_put(f[t \ {Max(t)}], s[Max(t)], sz)
    <3>1. CASE t = {}
      BY <1>3, <3>1 DEF IsFold
    <3>2. CASE t # {}
      <4>1. t \ {Max(t)} \in SUBSET DOMAIN s
        OBVIOUS
      <4>2. f[t \ {Max(t)}] \in Fit /\ s[Max(t)] \in Int
        BY <1>3, <1>4, <3>2, <4>1 DEF IsFold
      <4>3. f[t] = next[<<f[t \ {Max(t)}], s[Max(t)]>>]
        BY <1>3, <3>2 DEF IsFold
      <4> QED
        BY <3>2, <4>2, <4>3
    <3> QED
      BY <3>1, <3>2
  <2>2. f = [t \in SUBSET DOMAIN s |-> f[t]]
    BY <1>3 DEF IsFold
  <2> QED
    BY <2>1, <2>2
<1>6. Eqn(iter)
  <2> HIDE DEF Eqn
  <2> QED
    BY <1>5
<1> DEFINE g == [k \in 0 .. Len(s) |-> iter[1 .. k]]
<1>7. AllCached(base, s, sz) = iter[1 .. Len(s)]
  BY <1>0 DEF AllCached, FoldLeft, MapThenFoldSet, iter
<1> HIDE DEF iter
<1>8. iter[{}] = base /\ 1 .. 0 = {}
  BY <1>6
<1>9. ASSUME NEW k \in 1 .. Len(s) PROVE iter[1 .. k] = tcache_put(iter[1 .. k - 1], s[k], sz)
  <2>1. /\ 1 .. k \in SUBSET DOMAIN s /\ 1 .. k # {}
        /\ Max(1 .. k) = k /\ (1 .. k) \ {Max(1 .. k)} = 1 .. k - 1
    BY <1>0, PrefixMax
  <2>2. iter[1 .. k] = tcache_put(iter[(1 .. k) \ {Max(1 .. k)}], s[Max(1 .. k)], sz)
    BY <1>6, <2>1
  <2> QED
    BY <2>1, <2>2
<1> HIDE DEF Eqn
<1>10. g[0] = base /\ AllCached(base, s, sz) = g[Len(s)]
  BY <1>0, <1>7, <1>8
<1>11. \A k \in 1 .. Len(s) : g[k] = tcache_put(g[k - 1], s[k], sz)
  BY <1>0, <1>9
<1> HIDE DEF g
<1> DEFINE R == {k \in Nat : k <= Len(s) => g[k] \in Fit}
<1>12. 0 \in R
  BY <1>10
<1>13. ASSUME NEW k \in Nat, k \in R PROVE k + 1 \in R
  <2> SUFFICES ASSUME k + 1 <= Len(s) PROVE g[k + 1] \in Fit
    OBVIOUS
  <2>1. k + 1 \in 1 .. Len(s) /\ (k + 1) - 1 = k /\ g[k] \in Fit
    BY <1>0, <1>13
  <2>2. g[k + 1] = tcache_put(g[k], s[k + 1], sz) /\ s[k + 1] \in Int
    BY <1>0, <1>11, <2>1
  <2> QED
    BY <1>1, <2>1, <2>2
<1>14. \A k \in 0 .. Len(s) : g[k] \in Fit
  <2> HIDE DEF R
  <2>1. Nat \subseteq R
    BY <1>12, <1>13, SetInduction
  <2> USE DEF R
  <2> QED
    BY <1>0, <2>1
<1>15. CachedRun(g, base, s, sz)
  BY <1>10, <1>11, <1>14 DEF CachedRun
<1> QED
  BY <1>15

\* The turns that mark chunks used.
UsedRun(g, base, s, nb) ==
  /\ g[0] = base /\ AllUsed(base, s, nb) = g[Len(s)]
  /\ \A k \in 0 .. Len(s) : g[k] \in Fit
  /\ \A k \in 1 .. Len(s) : g[k] = set_inuse_bit(g[k - 1], s[k] + nb)

LEMMA AllUsedRuns ==
  ASSUME NEW base \in Fit, NEW s \in Seq(Int), NEW nb \in Int
  PROVE  \E g : UsedRun(g, base, s, nb)
<1> DEFINE next == [x \in Fit \X Int |-> set_inuse_bit(x[1], x[2] + nb)]
           Eqn(g) == g = [t \in SUBSET DOMAIN s |->
                           IF t = {} THEN base ELSE set_inuse_bit(g[t \ {Max(t)}], s[Max(t)] + nb)]
           iter == CHOOSE g : Eqn(g)
<1>0. Len(s) \in Nat /\ DOMAIN s = 1 .. Len(s) /\ \A i \in 1 .. Len(s) : s[i] \in Int
  OBVIOUS
<1>1. ASSUME NEW b \in Fit, NEW p \in Int PROVE set_inuse_bit(b, p + nb) \in Fit
  BY InuseBitKeeps DEF Keeps, Safe
<1>2. next \in [Fit \X Int -> Fit]
  BY <1>1
<1>3. PICK f : IsFold(f, Fit, next, base, s)
  <2> HIDE DEF next
  <2> QED
    BY <1>2, FoldExists
<1>4. \A t \in SUBSET DOMAIN s : t # {} => Max(t) \in t /\ s[Max(t)] \in Int
  <2> SUFFICES ASSUME NEW t \in SUBSET DOMAIN s, t # {}
               PROVE  Max(t) \in t /\ s[Max(t)] \in Int
    OBVIOUS
  <2>1. Max(t) \in t
    BY <1>0, MaxOf
  <2> QED
    BY <2>1
<1>5. Eqn(f)
  <2>1. ASSUME NEW t \in SUBSET DOMAIN s
        PROVE  f[t] = IF t = {} THEN base ELSE set_inuse_bit(f[t \ {Max(t)}], s[Max(t)] + nb)
    <3>1. CASE t = {}
      BY <1>3, <3>1 DEF IsFold
    <3>2. CASE t # {}
      <4>1. t \ {Max(t)} \in SUBSET DOMAIN s
        OBVIOUS
      <4>2. f[t \ {Max(t)}] \in Fit /\ s[Max(t)] \in Int
        BY <1>3, <1>4, <3>2, <4>1 DEF IsFold
      <4>3. f[t] = next[<<f[t \ {Max(t)}], s[Max(t)]>>]
        BY <1>3, <3>2 DEF IsFold
      <4> QED
        BY <3>2, <4>2, <4>3
    <3> QED
      BY <3>1, <3>2
  <2>2. f = [t \in SUBSET DOMAIN s |-> f[t]]
    BY <1>3 DEF IsFold
  <2> QED
    BY <2>1, <2>2
<1>6. Eqn(iter)
  <2> HIDE DEF Eqn
  <2> QED
    BY <1>5
<1> DEFINE g == [k \in 0 .. Len(s) |-> iter[1 .. k]]
<1>7. AllUsed(base, s, nb) = iter[1 .. Len(s)]
  BY <1>0 DEF AllUsed, FoldLeft, MapThenFoldSet, iter
<1> HIDE DEF iter
<1>8. iter[{}] = base /\ 1 .. 0 = {}
  BY <1>6
<1>9. ASSUME NEW k \in 1 .. Len(s) PROVE iter[1 .. k] = set_inuse_bit(iter[1 .. k - 1], s[k] + nb)
  <2>1. /\ 1 .. k \in SUBSET DOMAIN s /\ 1 .. k # {}
        /\ Max(1 .. k) = k /\ (1 .. k) \ {Max(1 .. k)} = 1 .. k - 1
    BY <1>0, PrefixMax, SMTT(30)
  <2>2. iter[1 .. k] = set_inuse_bit(iter[(1 .. k) \ {Max(1 .. k)}], s[Max(1 .. k)] + nb)
    BY <1>6, <2>1
  <2> QED
    BY <2>1, <2>2
<1> HIDE DEF Eqn
<1>10. g[0] = base /\ AllUsed(base, s, nb) = g[Len(s)]
  BY <1>0, <1>7, <1>8
<1>11. \A k \in 1 .. Len(s) : g[k] = set_inuse_bit(g[k - 1], s[k] + nb)
  BY <1>0, <1>9
<1> HIDE DEF g
<1> DEFINE R == {k \in Nat : k <= Len(s) => g[k] \in Fit}
<1>12. 0 \in R
  BY <1>10
<1>13. ASSUME NEW k \in Nat, k \in R PROVE k + 1 \in R
  <2> SUFFICES ASSUME k + 1 <= Len(s) PROVE g[k + 1] \in Fit
    OBVIOUS
  <2>1. k + 1 \in 1 .. Len(s) /\ (k + 1) - 1 = k /\ g[k] \in Fit
    BY <1>0, <1>13
  <2>2. g[k + 1] = set_inuse_bit(g[k], s[k + 1] + nb) /\ s[k + 1] \in Int
    BY <1>0, <1>11, <2>1
  <2> QED
    BY <1>1, <2>1, <2>2
<1>14. \A k \in 0 .. Len(s) : g[k] \in Fit
  <2> HIDE DEF R
  <2>1. Nat \subseteq R
    BY <1>12, <1>13, SetInduction
  <2> USE DEF R
  <2> QED
    BY <1>0, <2>1
<1>15. UsedRun(g, base, s, nb)
  BY <1>10, <1>11, <1>14 DEF UsedRun
<1> QED
  BY <1>15

-----------------------------------------------------------------------------
(* malloc_consolidate *)

InFast(a, x) == \E i \in FastIdx : x \in ToSet(a.fast[i])

LEMMA FastChunksOnce ==
  ASSUME NEW a \in Fit, NEW K, NEW e, Stock(a, K, e)
  PROVE  /\ FastChunks(a) \in Seq(Int) /\ Distinct(FastChunks(a))
         /\ \A x : x \in ToSet(FastChunks(a)) <=> InFast(a, x)
<1> DEFINE n == NFASTBINS
           q == [k \in 1 .. n |-> a.fast[k - 1]]
<1>1. a.fast \in [FastIdx -> Seq(Int)]
  BY DEF Fit, Arenas, Fasts
<1>2. n \in Nat \ {0} /\ FastIdx = 0 .. n - 1
  BY FastBinsExist
<1> HIDE DEF n
<1>3. q \in [1 .. n -> Seq(Int)] /\ \A k \in 1 .. n : q[k] = a.fast[k - 1] /\ k - 1 \in FastIdx
  BY <1>1, <1>2
<1>4. DOMAIN q = 1 .. n
  OBVIOUS
<1> HIDE DEF q
<1>5. Once(q)
  <2> SUFFICES ASSUME NEW l \in 1 .. n, NEW m \in 1 .. n, NEW i \in DOMAIN q[l], NEW j \in DOMAIN q[m],
                      q[l][i] = q[m][j]
               PROVE  l = m /\ i = j
    BY <1>4 DEF Once
  <2>1. /\ Shelves(a)[<<"fast", l - 1>>] = q[l] /\ Shelves(a)[<<"fast", m - 1>>] = q[m]
        /\ <<"fast", l - 1>> \in DOMAIN Shelves(a) /\ <<"fast", m - 1>> \in DOMAIN Shelves(a)
    BY <1>3, ShelfOf, PlaceKinds, ZenonT(40)
  <2>2. <<"fast", l - 1>> = <<"fast", m - 1>> /\ i = j
    BY <2>1 DEF Stock, Once
  <2>3. l - 1 = m - 1
    BY <2>2
  <2> QED
    BY <1>2, <2>2, <2>3
<1>6. FastChunks(a) = FlattenSeq(q)
  BY DEF FastChunks, q, n
<1>7. /\ FlattenSeq(q) \in Seq(Int) /\ Distinct(FlattenSeq(q))
      /\ \A x : x \in ToSet(FlattenSeq(q)) <=> \E i \in 1 .. n : x \in ToSet(q[i])
  BY <1>2, <1>3, <1>5, Flattened
<1>8. ASSUME NEW x PROVE (\E i \in 1 .. n : x \in ToSet(q[i])) <=> InFast(a, x)
  <2>1. ASSUME NEW i \in 1 .. n, x \in ToSet(q[i]) PROVE InFast(a, x)
    BY <1>3, <2>1 DEF InFast
  <2>2. ASSUME NEW i \in FastIdx, x \in ToSet(a.fast[i]) PROVE \E k \in 1 .. n : x \in ToSet(q[k])
    <3>1. i + 1 \in 1 .. n /\ (i + 1) - 1 = i
      BY <1>2
    <3>2. q[i + 1] = a.fast[i]
      BY <1>3, <3>1
    <3> QED
      BY <2>2, <3>1, <3>2
  <2> QED
    BY <2>1, <2>2 DEF InFast
<1> QED
  BY <1>6, <1>7, <1>8

\* The fast bins without their chunks.
NoFast == [i \in FastIdx |-> <<>>]
LEMMA FastEmptied ==
  ASSUME NEW a \in Fit, NEW b \in Fit, NEW K, NEW e, Stock(a, K, e), SameHeap(a, b),
         b.bins = a.bins, b.cached = a.cached, b.fast = NoFast
  PROVE  Stock(b, K \cup ToSet(FastChunks(a)), e)
<1> DEFINE F == ToSet(FastChunks(a))
<1>1. /\ DOMAIN Shelves(a) = Places /\ DOMAIN Shelves(b) = Places
      /\ \A l \in Places : \/ Shelves(b)[l] = Shelves(a)[l] /\ l[1] # "fast"
                           \/ Shelves(b)[l] = <<>> /\ l[1] = "fast"
  <2>1. DOMAIN Shelves(a) = Places /\ DOMAIN Shelves(b) = Places
    BY ShelfOf
  <2>2. ASSUME NEW l \in Places
        PROVE  \/ Shelves(b)[l] = Shelves(a)[l] /\ l[1] # "fast"
               \/ Shelves(b)[l] = <<>> /\ l[1] = "fast"
    <3>1. CASE \E i \in 1 .. NBINS - 1 : l = <<"bin", i>>
      <4>1. PICK i \in 1 .. NBINS - 1 : l = <<"bin", i>>
        BY <3>1
      <4>2. Shelves(b)[l] = b.bins[i] /\ Shelves(a)[l] = a.bins[i]
        BY <4>1, ShelfOf
      <4>3. l[1] = "bin"
        BY <4>1
      <4> QED
        BY <4>2, <4>3
    <3>2. CASE \E i \in FastIdx : l = <<"fast", i>>
      BY <3>2, ShelfOf DEF NoFast
    <3>3. CASE \E i \in CacheIdx : l = <<"cache", i>>
      <4>1. PICK i \in CacheIdx : l = <<"cache", i>>
        BY <3>3
      <4>2. Shelves(b)[l] = b.cached[i] /\ Shelves(a)[l] = a.cached[i]
        BY <4>1, ShelfOf
      <4>3. l[1] = "cache"
        BY <4>1
      <4> QED
        BY <4>2, <4>3
    <3> QED
      BY <3>1, <3>2, <3>3, PlaceKinds
  <2> QED
    BY <2>1, <2>2
<1>2. \A x : x \in F <=> \E l \in Places : l[1] = "fast" /\ x \in ToSet(Shelves(a)[l])
  <2> TAKE x
  <2>1. x \in F <=> InFast(a, x)
    BY FastChunksOnce
  <2>2. ASSUME NEW i \in FastIdx, x \in ToSet(a.fast[i])
        PROVE  \E l \in Places : l[1] = "fast" /\ x \in ToSet(Shelves(a)[l])
    BY <2>2, ShelfOf, PlaceKinds
  <2>3. ASSUME NEW l \in Places, l[1] = "fast", x \in ToSet(Shelves(a)[l]) PROVE InFast(a, x)
    <3>1. PICK i \in FastIdx : l = <<"fast", i>>
      BY <2>3, PlaceKinds
    <3> QED
      BY <2>3, <3>1, ShelfOf DEF InFast
  <2> QED
    BY <2>1, <2>2, <2>3 DEF InFast
<1> HIDE DEF F
<1>3. \A x : x \in On(a) <=> \E l \in Places : x \in ToSet(Shelves(a)[l])
  BY <1>1 DEF On, Members
<1>4. \A x : x \in On(b) <=> \E l \in Places : x \in ToSet(Shelves(b)[l])
  BY <1>1 DEF On, Members
<1>5. \A l \in Places : \A i \in DOMAIN Shelves(b)[l] : Shelves(b)[l] = Shelves(a)[l] /\ l[1] # "fast"
  BY <1>1
<1>6. \A l \in Places : \A x \in ToSet(Shelves(b)[l]) : Shelves(b)[l] = Shelves(a)[l] /\ l[1] # "fast"
  BY <1>5 DEF ToSet
<1>7. Once(Shelves(b))
  BY <1>1, <1>5 DEF Stock, Once
<1>8. AllSuit(b)
  BY <1>6 DEF Stock, AllSuit, SameHeap
<1>9. ASSUME NEW x PROVE x \in On(b) <=> x \in On(a) /\ x \notin F
  <2>1. ASSUME x \in On(b) PROVE x \in On(a) /\ x \notin F
    <3>1. PICK l \in Places : x \in ToSet(Shelves(b)[l])
      BY <1>4, <2>1
    <3>2. x \in ToSet(Shelves(a)[l]) /\ l[1] # "fast"
      BY <1>6, <3>1
    <3>3. ASSUME NEW m \in Places, m[1] = "fast", x \in ToSet(Shelves(a)[m]) PROVE FALSE
      <4>1. l = m
        BY <1>1, <3>2, <3>3, OnOneList DEF Stock
      <4> QED
        BY <3>2, <3>3, <4>1
    <3> QED
      BY <1>2, <1>3, <3>2, <3>3
  <2>2. ASSUME x \in On(a), x \notin F PROVE x \in On(b)
    <3>1. PICK l \in Places : x \in ToSet(Shelves(a)[l])
      BY <1>3, <2>2
    <3>2. l[1] # "fast"
      BY <1>2, <2>2, <3>1
    <3> QED
      BY <1>1, <1>4, <3>1, <3>2
  <2> QED
    BY <2>1, <2>2
<1>10. \A x \in F : x \in On(a)
  BY <1>2, <1>3
<1> DEFINE M == K \cup F
<1>11. \A x : x \in M \/ x \in On(b) <=> x \in K \/ x \in On(a)
  BY <1>9, <1>10
<1>12. \A x \in M : x \notin On(b)
  BY <1>9, StockChunks
<1> HIDE DEF M
<1>13. Stock(b, M, e)
  BY <1>7, <1>8, <1>11, <1>12, Rearranged
<1> QED
  BY <1>13 DEF M, F

LEMMA CoalesceFastOwned ==
  ASSUME NEW a, NEW b \in Fit, NEW H, NEW e, NEW p \in H, Owned(b, H, e), ~CoalesceFast(a, b, p).died
  PROVE  Owned(CoalesceFast(a, b, p), H \ {p}, e)
<1> DEFINE ok == aligned_OK(p) /\ InItsFastBin(a, p, chunksize(b, p))
           c == Checked(b, ok)
<1>1. CoalesceFast(a, b, p) = Coalesce(c, p)
  BY DEF CoalesceFast
<1>2. p \in Int /\ Sized(b, p)
  <2> DEFINE K == H \cup Tops(b)
  <2>1. Stock(b, K, e) /\ p \in K
    BY DEF Owned
  <2> HIDE DEF K
  <2> QED
    BY <2>1, KindOfSized
<1>3. c \in Fit
  BY CheckedFit
<1>4. Sized(c, p)
  BY <1>2 DEF Checked, Sized, chunksize, Fit, Arenas
<1> HIDE DEF ok
<1>5. ~c.died
  <2> HIDE DEF c
  <2> QED
    BY <1>1, <1>2, <1>3, <1>4, CoalesceKeeps DEF Keeps, Safe
<1>6. c = b
  BY <1>5, CheckedAlive
<1> HIDE DEF c
<1> QED
  BY <1>1, <1>6, CoalesceOwned

LEMMA CoalesceFastDies ==
  ASSUME NEW a, NEW b \in Fit, NEW p \in Int, b.died
  PROVE  CoalesceFast(a, b, p).died
  BY CoalesceFastKeeps DEF Keeps, Safe

\* The chunks of the list s are freed for good.
LEMMA AllFreedOwned ==
  ASSUME NEW a, NEW base \in Fit, NEW H, NEW e, NEW s \in Seq(Int), Distinct(s),
         Owned(base, H \cup ToSet(s), e), \A x \in ToSet(s) : x \notin H
  PROVE  Sound(AllFreed(a, base, s), H, e) /\ AllFreed(a, base, s) \in Fit
<1>1. PICK g : /\ g[0] = base /\ AllFreed(a, base, s) = g[Len(s)]
               /\ \A k \in 0 .. Len(s) : g[k] \in Fit
               /\ FreedInTurn(a, g, s)
  BY AllFreedRuns
<1>2. Len(s) \in Nat /\ DOMAIN s = 1 .. Len(s) /\ \A i \in 1 .. Len(s) : s[i] \in Int
  OBVIOUS
<1> DEFINE Left(k) == H \cup {s[j] : j \in k + 1 .. Len(s)}
           R == {k \in Nat : k <= Len(s) => Sound(g[k], Left(k), e)}
<1>3. 0 \in R
  <2>1. Left(0) = H \cup ToSet(s)
    BY <1>2 DEF ToSet
  <2> HIDE DEF Left
  <2> QED
    BY <1>1, <2>1 DEF Sound
<1>4. ASSUME NEW k \in Nat, k \in R PROVE k + 1 \in R
  <2> SUFFICES ASSUME k + 1 <= Len(s), ~g[k + 1].died PROVE Owned(g[k + 1], Left(k + 1), e)
    BY DEF Sound
  <2>1. /\ k + 1 \in 1 .. Len(s) /\ (k + 1) - 1 = k /\ k \in 0 .. Len(s)
        /\ Sound(g[k], Left(k), e)
    BY <1>2, <1>4
  <2>2. /\ g[k + 1] = CoalesceFast(a, g[k], s[k + 1]) /\ s[k + 1] \in Int /\ g[k] \in Fit
    BY <1>1, <1>2, <2>1 DEF FreedInTurn
  <2>3. ~g[k].died
    BY <2>2, CoalesceFastDies
  <2>4. s[k + 1] \in Left(k)
    BY <2>1
  <2>5. Left(k) \ {s[k + 1]} = Left(k + 1)
    <3>1. s[k + 1] \notin H
      BY <1>2, <2>1 DEF ToSet
    <3>2. ASSUME NEW j \in k + 2 .. Len(s) PROVE s[j] # s[k + 1]
      <4>1. j \in DOMAIN s /\ k + 1 \in DOMAIN s /\ j # k + 1
        BY <1>2, <2>1
      <4> QED
        BY <4>1 DEF Distinct
    <3>3. k + 1 .. Len(s) = {k + 1} \cup (k + 2 .. Len(s)) /\ (k + 1) + 1 = k + 2
      BY <1>2, <2>1
    <3> QED
      BY <3>1, <3>2, <3>3
  <2> HIDE DEF Left
  <2>6. Owned(CoalesceFast(a, g[k], s[k + 1]), Left(k) \ {s[k + 1]}, e)
    BY <2>1, <2>2, <2>3, <2>4, CoalesceFastOwned DEF Sound
  <2> QED
    BY <2>2, <2>5, <2>6
<1>5. Sound(g[Len(s)], Left(Len(s)), e)
  <2> HIDE DEF R
  <2>1. Nat \subseteq R
    BY <1>3, <1>4, SetInduction
  <2> USE DEF R
  <2> HIDE DEF Left
  <2> QED
    BY <1>2, <2>1
<1>6. Left(Len(s)) = H
  BY <1>2
<1> HIDE DEF Left, R
<1> QED
  BY <1>1, <1>2, <1>5, <1>6

LEMMA ConsolidateOwned ==
  ASSUME NEW a \in Fit, NEW H, NEW e, Owned(a, H, e)
  PROVE  Sound(malloc_consolidate(a), H, e) /\ malloc_consolidate(a) \in Fit
<1> DEFINE none == [i \in FastIdx |-> <<>>]
           no == FALSE
           b == [a EXCEPT !.have_fastchunks = no, !.fast = none]
           s == FastChunks(a)
           K == H \cup Tops(a)
<1>1. none \in Fasts /\ none = NoFast /\ no \in BOOLEAN
  BY EmptyInts DEF Fasts, NoFast
<1>3. malloc_consolidate(a) = AllFreed(a, b, s)
  BY DEF malloc_consolidate, AllFreed
<1> HIDE DEF none, no
<1>2. b \in Fit
  BY <1>1 DEF Fit, Arenas, FeetFine
<1>4. /\ b.hdr = a.hdr /\ b.brk = a.brk /\ b.tcache = a.tcache /\ b.top = a.top
      /\ b.bins = a.bins /\ b.cached = a.cached /\ b.fast = NoFast
  BY <1>1 DEF Fit, Arenas
<1> HIDE DEF b
<1>5. SameHeap(a, b)
  BY <1>4, Same
<1>6. Stock(a, K, e) /\ a.top \notin H
  BY DEF Owned
<1>7. /\ s \in Seq(Int) /\ Distinct(s) /\ \A x \in ToSet(s) : x \in On(a)
  <2> HIDE DEF K
  <2>1. s \in Seq(Int) /\ Distinct(s) /\ \A x \in ToSet(s) : InFast(a, x)
    BY <1>6, FastChunksOnce
  <2>2. ASSUME NEW i \in FastIdx, NEW x \in ToSet(a.fast[i]) PROVE x \in On(a)
    <3>1. <<"fast", i>> \in DOMAIN Shelves(a) /\ Shelves(a)[<<"fast", i>>] = a.fast[i]
      BY ShelfOf, PlaceKinds
    <3> QED
      BY <3>1 DEF On, Members
  <2> QED
    BY <2>1, <2>2 DEF InFast
<1>8. \A x \in ToSet(s) : x \notin K /\ x # NULL
  <2> HIDE DEF K, s
  <2> QED
    BY <1>6, <1>7, StockChunks DEF NULL
<1>9. Stock(b, K \cup ToSet(s), e)
  <2> HIDE DEF K
  <2> QED
    BY <1>2, <1>4, <1>5, <1>6, FastEmptied
<1>10. Owned(b, H \cup ToSet(s), e)
  <2>1. (H \cup ToSet(s)) \cup Tops(b) = K \cup ToSet(s)
    BY <1>4 DEF Tops
  <2>2. b.top \notin H \cup ToSet(s)
    <3>1. CASE a.top = NULL
      BY <1>4, <1>6, <1>8, <3>1
    <3>2. CASE a.top # NULL
      BY <1>4, <1>6, <1>8, <3>2 DEF Tops
    <3> QED
      BY <3>1, <3>2
  <2> QED
    BY <1>9, <2>1, <2>2 DEF Owned
<1> HIDE DEF s
<1> QED
  BY <1>2, <1>3, <1>7, <1>8, <1>10, AllFreedOwned

-----------------------------------------------------------------------------
(* The break, and free *)

\* A chunk ends below the break or starts above all that the break can reach.
LEMMA AboveBreak ==
  ASSUME NEW a \in Fit, NEW K, NEW e, Stock(a, K, e), NEW r \in DOMAIN a.hdr
  PROVE  r + chunksize(a, r) <= a.brk \/ r > BrkLimit
<1>1. r \in Nat \ {0} /\ chunksize(a, r) \in Nat \ {0}
  BY StockChunks
<1>2. Within(a, r, chunksize(a, r), e) /\ e.pages \subseteq MapPages
  BY DEF Stock, Backed
<1>3. CASE PagesOf(r, chunksize(a, r)) \subseteq e.pages
  <2> DEFINE k == r \div PageSize
             s == chunksize(a, r)
  <2>1. k \in Int /\ k * PageSize <= r /\ k <= (r + s - 1) \div PageSize /\ (r + s - 1) \div PageSize \in Int
    <3>1. r \in Int /\ r + s - 1 \in Int /\ r <= r + s - 1
      BY <1>1
    <3> QED
      BY <3>1, PagesMeet
  <2>2. k \in PagesOf(r, s)
    BY <2>1 DEF PagesOf
  <2>3. k * PageSize > BrkLimit
    BY <1>2, <1>3, <2>2, KernelAssumption
  <2> HIDE DEF k
  <2>4. k * PageSize \in Int /\ BrkLimit \in Int
    BY <2>1, Sizes, ArenaAssumption
  <2> QED
    BY <1>1, <2>1, <2>3, <2>4
<1> QED
  BY <1>2, <1>3 DEF Within

\* The break moves, and what it passes is no chunk.
LEMMA BreakMoves ==
  ASSUME NEW a \in Fit, NEW b, NEW K, NEW e, Stock(a, K, e),
         b.hdr = a.hdr, b.bins = a.bins, b.fast = a.fast, b.cached = a.cached, b.tcache = a.tcache,
         b.brk \in 1 .. BrkLimit,
         \A r \in DOMAIN a.hdr : r + chunksize(a, r) <= a.brk => r + chunksize(a, r) <= b.brk
  PROVE  Stock(b, K, e)
<1>1. \A r : chunksize(b, r) = chunksize(a, r)
  BY DEF chunksize
<1>2. Shelves(b) = Shelves(a) /\ On(b) = On(a)
  BY DEF Shelves, On
<1>3. Tiled(b)
  BY <1>1 DEF Stock, Tiled
<1>4. Backed(b, e)
  BY <1>1 DEF Stock, Backed, Within, Covered
<1>5. AllSuit(b) /\ Big(b) = Big(a)
  BY <1>1, <1>2 DEF Stock, AllSuit, Big
<1> QED
  BY <1>2, <1>3, <1>4, <1>5 DEF Stock

\* The same chunks as in a, after top has been given n words and the break set to
\* its end.
TopSpans(a, b, n) ==
  /\ b.hdr = set_head(a, a.top, n, TRUE).hdr /\ b.brk = a.top + n
  /\ b.bins = a.bins /\ b.fast = a.fast /\ b.cached = a.cached /\ b.tcache = a.tcache
  /\ b.top = a.top /\ b.died = a.died

LEMMA TopSpansOwned ==
  ASSUME NEW a \in Fit, NEW b, NEW H, NEW e, Owned(a, H, e), a.top # NULL,
         a.brk = a.top + chunksize(a, a.top),
         NEW n \in Int, n >= MINSIZE, a.top + n <= BrkLimit, TopSpans(a, b, n)
  PROVE  Owned(b, H, e)
<1> DEFINE K == H \cup Tops(a)
           t == a.top
           s == chunksize(a, t)
           yes == TRUE
<1>1. Stock(a, K, e) /\ a.top \notin H /\ t \in K
  BY DEF Owned, Tops
<1> HIDE DEF K
<1>2. t \in Nat \ {0} /\ s \in Nat \ {0} /\ n \in Nat \ {0} /\ BrkLimit \in Int /\ t \in DOMAIN a.hdr
      /\ a.brk = t + s /\ t + n <= BrkLimit /\ yes \in BOOLEAN
  <2>1. Least > 0
    BY Sizes DEF Least
  <2> QED
    BY <1>1, <2>1, StockChunks, Sizes, ArenaAssumption
<1>3. TopSpans(a, b, n) /\ t = a.top /\ s = chunksize(a, a.top)
  OBVIOUS
<1>4. ASSUME NEW r \in DOMAIN a.hdr, r # t
      PROVE  r \in Nat \ {0} /\ chunksize(a, r) \in Nat \ {0}
             /\ (r + chunksize(a, r) <= t \/ r > BrkLimit)
  <2>1. r \in Nat \ {0} /\ chunksize(a, r) \in Nat \ {0}
    BY <1>1, StockChunks
  <2>2. CASE r < t
    BY <1>1, <1>2, <2>1, <2>2, Alone
  <2>3. CASE r > t
    <3>1. t + s <= r
      BY <1>1, <1>2, <2>1, <2>3 DEF Stock, Tiled
    <3>2. r + chunksize(a, r) <= a.brk \/ r > BrkLimit
      BY <1>1, AboveBreak
    <3> QED
      BY <1>2, <2>1, <3>1, <3>2
  <2> QED
    BY <1>2, <1>4, <2>1, <2>2, <2>3
<1> HIDE DEF s, t, yes
<1>5. \A r \in DOMAIN a.hdr : r \in t .. t + n - 1 => r = t
  BY <1>2, <1>4
<1>6. \A r \in K \cup On(a) : r \in DOMAIN a.hdr
  BY <1>1, StockChunks
<1>7. t \notin On(a)
  BY <1>1, StockChunks
<1>8. (K \ (t .. t + n - 1)) \cup {t} = K
  BY <1>1, <1>2, <1>5, <1>6
<1> DEFINE c == [a EXCEPT !.brk = t + n]
<1>9. Stock(b, K, e)
  <2>1. CASE n >= s
    <3>0. t + n \in Int
      BY <1>2
    <3>1. c \in Fit
      BY <3>0, BreakKeeps DEF Keeps, Safe
    <3>2. /\ c.hdr = a.hdr /\ c.bins = a.bins /\ c.fast = a.fast /\ c.cached = a.cached
          /\ c.tcache = a.tcache /\ c.brk = t + n /\ c.top = t /\ c.foot = a.foot
          /\ c.died = a.died
      BY <1>3 DEF Fit, Arenas
    <3> HIDE DEF c
    <3>3. Stock(c, K, e)
      <4>1. c.brk \in 1 .. BrkLimit
        BY <1>2, <3>2
      <4>2. \A r \in DOMAIN a.hdr : r + chunksize(a, r) <= a.brk => r + chunksize(a, r) <= c.brk
        BY <1>2, <2>1, <3>2, SizeIs
      <4> QED
        BY <1>1, <3>2, <4>1, <4>2, BreakMoves
    <3>4. \A r : chunksize(c, r) = chunksize(a, r)
      BY <3>2 DEF chunksize
    <3>5. On(c) = On(a)
      BY <3>2 DEF On, Shelves
    <3>6. Clear(c, t, n, e)
      <4>1. \A r \in On(c) : r \notin t .. t + n - 1
        BY <1>5, <1>6, <1>7, <3>5
      <4>2. \A r \in DOMAIN c.hdr : r < t => r + chunksize(c, r) <= t
        BY <1>2, <1>4, <3>2, <3>4
      <4>3. Within(c, t, n, e)
        BY <1>2, <3>2 DEF Within
      <4>4. \A r \in DOMAIN c.hdr : r \in t .. t + n - 1 => r + chunksize(c, r) <= t + n
        BY <1>2, <1>3, <1>5, <2>1, <3>2, <3>4
      <4> QED
        BY <4>1, <4>2, <4>3, <4>4 DEF Clear
    <3> DEFINE d == set_head(c, t, n, yes)
    <3>7. Stock(d, K, e)
      BY <1>2, <1>8, <3>1, <3>3, <3>6, OnePiece
    <3>8. d.hdr = b.hdr
      BY <1>3, <3>1, <3>2 DEF TopSpans, set_head, Fit, Arenas, yes
    <3>9. Aside(c, d)
      BY <1>2, <3>1, HeadCuts
    <3> HIDE DEF d
    <3>10. SameHeap(d, b) /\ Aside(d, b)
      <4>1. d.died => b.died
        <5>1. CASE c.died
          BY <1>3, <3>2, <5>1 DEF TopSpans
        <5>2. CASE ~c.died
          BY <3>1, <5>2 DEF d, set_head, Fit, Arenas
        <5> QED
          BY <5>1, <5>2
      <4> QED
        BY <1>3, <3>2, <3>8, <3>9, <4>1, Same DEF TopSpans, Aside
    <3> QED
      BY <3>7, <3>10, Stays
  <2>2. CASE ~(n >= s)
    <3> DEFINE d == set_head(a, t, n, yes)
    <3>1. Clear(a, t, n, e)
      <4>1. \A r \in On(a) : r \notin t .. t + n - 1
        BY <1>5, <1>6, <1>7
      <4>2. \A r \in DOMAIN a.hdr : r < t => r + chunksize(a, r) <= t
        BY <1>2, <1>4
      <4>3. Within(a, t, n, e)
        BY <1>2, <2>2 DEF Within
      <4>4. \A r \in DOMAIN a.hdr : r \in t .. t + n - 1 => r + chunksize(a, r) <= a.brk
        BY <1>2, <1>3, <1>5
      <4> QED
        BY <4>1, <4>2, <4>3, <4>4 DEF Clear
    <3>2. Stock(d, K, e)
      BY <1>1, <1>2, <1>8, <3>1, OnePiece
    <3>3. /\ Aside(a, d) /\ d \in Fit /\ chunksize(d, t) = n
          /\ DOMAIN d.hdr = (DOMAIN a.hdr \ (t + 1 .. t + n - 1)) \cup {t}
          /\ \A r : r # t /\ r \notin t + 1 .. t + n - 1 => chunksize(d, r) = chunksize(a, r)
      BY <1>2, HeadCuts
    <3>4. d.hdr = b.hdr
      BY <1>3 DEF TopSpans, yes
    <3> HIDE DEF d
    <3>5. ASSUME NEW r \in DOMAIN d.hdr, r + chunksize(d, r) <= d.brk
          PROVE  r + chunksize(d, r) <= b.brk
      <4>1. CASE r = t
        BY <1>2, <1>3, <3>3, <4>1 DEF TopSpans
      <4>2. CASE r # t
        <5>1. r \in DOMAIN a.hdr /\ chunksize(d, r) = chunksize(a, r) /\ d.brk = a.brk
          BY <3>3, <4>2 DEF Aside
        <5>2. r \in Nat /\ chunksize(a, r) \in Nat /\ (r + chunksize(a, r) <= t \/ r > BrkLimit)
          BY <1>4, <4>2, <5>1
        <5>3. b.brk = t + n /\ d.brk <= BrkLimit
          BY <1>1, <1>3, <5>1 DEF TopSpans, Stock, Backed
        <5> QED
          BY <1>2, <3>5, <5>1, <5>2, <5>3
      <4> QED
        BY <4>1, <4>2
    <3>6. b.brk \in 1 .. BrkLimit
      BY <1>2, <1>3 DEF TopSpans
    <3>7. /\ b.bins = d.bins /\ b.fast = d.fast /\ b.cached = d.cached /\ b.tcache = d.tcache
      BY <1>3, <3>3 DEF TopSpans, Aside
    <3> QED
      BY <3>2, <3>3, <3>4, <3>5, <3>6, <3>7, BreakMoves
  <2> QED
    BY <2>1, <2>2
<1>10. b.top = a.top
  BY <1>3 DEF TopSpans
<1> QED
  BY <1>1, <1>9, <1>10 DEF Owned, K, Tops

LEMMA SystrimOwned ==
  ASSUME NEW a \in Fit, NEW H, NEW e, Owned(a, H, e), NEW pad \in Nat
  PROVE  Owned(systrim(a, pad), H, e) /\ systrim(a, pad) \in Fit
<1> DEFINE top_size == chunksize(a, a.top)
           x == (top_size - MINSIZE - 1) - pad
           extra == ALIGN_DOWN(x, PageSize)
           n == top_size - extra
           d == set_head(a, a.top, n, TRUE)
           b == [d EXCEPT !.brk = @ - extra, !.system_mem = @ - extra]
<1>0. systrim(a, pad) \in Fit
  BY SystrimKeeps DEF Keeps, Safe
<1>1. \/ systrim(a, pad) = a
      \/ /\ systrim(a, pad) = b /\ a.brk = a.top + top_size
         /\ ~(a.brk - extra > BrkLimit)
  BY DEF systrim
<1>2. top_size \in Int /\ x \in Int /\ a.top \in Int /\ a.brk \in Int /\ BrkLimit \in Int
      /\ MINSIZE \in Nat
  BY FitType, FieldType, Sizes, ArenaAssumption
<1>3. extra \in Int /\ extra <= x
  <2> HIDE DEF x
  <2>1. (x \div PageSize) * PageSize <= x
    BY <1>2, PagesMeet
  <2> QED
    BY <1>2, <2>1, AlignType, Sizes DEF ALIGN_DOWN
<1>4. n \in Int /\ n >= MINSIZE
  <2> HIDE DEF extra
  <2> QED
    BY <1>2, <1>3
<1>5. CASE systrim(a, pad) = b /\ a.brk = a.top + top_size /\ ~(a.brk - extra > BrkLimit)
  <2> HIDE DEF extra
  <2>1. a.top + n <= BrkLimit /\ a.brk - extra = a.top + n
    BY <1>2, <1>3, <1>5
  <2>2. a.top # NULL
    <3>1. CASE a.top = NULL
      <4>1. NULL \notin DOMAIN a.hdr
        BY StockChunks DEF Owned, NULL
      <4>2. top_size = 0 /\ a.brk = 0
        BY <1>5, <3>1, <4>1 DEF chunksize, NULL
      <4> QED
        BY <4>2 DEF Owned, Stock, Backed
    <3> QED
      BY <3>1
  <2>3. d \in Fit /\ Aside(a, d) /\ d.top = a.top /\ d.died = a.died
    <3> DEFINE yes == TRUE
    <3>1. yes \in BOOLEAN
      OBVIOUS
    <3> HIDE DEF yes, n
    <3>2. /\ set_head(a, a.top, n, yes) \in Fit /\ Aside(a, set_head(a, a.top, n, yes))
          /\ set_head(a, a.top, n, yes).top = a.top
      BY <1>2, <1>4, <3>1, HeadCuts
    <3>3. set_head(a, a.top, n, yes).died = a.died
      BY DEF set_head, Fit, Arenas
    <3> QED
      BY <3>2, <3>3 DEF yes
  <2> HIDE DEF d
  <2>4. /\ b.hdr = d.hdr /\ b.brk = d.brk - extra /\ b.bins = d.bins /\ b.fast = d.fast
        /\ b.cached = d.cached /\ b.tcache = d.tcache /\ b.top = d.top /\ b.died = d.died
    BY <2>3 DEF Fit, Arenas
  <2> HIDE DEF b
  <2>5. TopSpans(a, b, n)
    <3>1. b.hdr = set_head(a, a.top, n, TRUE).hdr
      BY <2>4 DEF d
    <3>2. b.brk = a.top + n
      BY <2>1, <2>3, <2>4 DEF Aside
    <3> QED
      BY <2>3, <2>4, <3>1, <3>2 DEF TopSpans, Aside
  <2> HIDE DEF n
  <2>6. Owned(b, H, e)
    BY <1>4, <1>5, <2>1, <2>2, <2>5, TopSpansOwned
  <2> QED
    BY <1>0, <1>5, <2>6
<1> QED
  BY <1>0, <1>1, <1>5

LEMMA ReduceTopOwned ==
  ASSUME NEW a \in Fit, NEW H, NEW e, Owned(a, H, e), mp \in Params
  PROVE  Owned(ReduceTop(a), H, e) /\ ReduceTop(a) \in Fit
  BY SystrimOwned, ParamsType DEF ReduceTop

LEMMA AfterFreeOwned ==
  ASSUME NEW a \in Fit, NEW H, NEW e, Owned(a, H, e), NEW p, mp \in Params, ~AfterFree(a, p).died
  PROVE  Owned(AfterFree(a, p), H, e) /\ AfterFree(a, p) \in Fit
<1>1. CASE chunksize(a, p) < FASTBIN_CONSOLIDATION_THRESHOLD
  BY <1>1 DEF AfterFree
<1>2. CASE ~(chunksize(a, p) < FASTBIN_CONSOLIDATION_THRESHOLD)
  <2> DEFINE b == IF a.have_fastchunks THEN malloc_consolidate(a) ELSE a
  <2>1. AfterFree(a, p) = ReduceTop(b)
    BY <1>2 DEF AfterFree
  <2>2. b \in Fit /\ Sound(b, H, e)
    BY ConsolidateOwned DEF Sound
  <2> HIDE DEF b
  <2>3. ~b.died
    <3>1. Safe(b, ReduceTop(b))
      BY <2>2, SystrimKeeps, KeepsSelf, ParamsType DEF ReduceTop, Keeps
    <3> QED
      BY <2>1, <3>1 DEF Safe
  <2> QED
    BY <2>1, <2>2, <2>3, ReduceTopOwned DEF Sound
<1> QED
  BY <1>1, <1>2

LEMMA FreeFastOwned ==
  ASSUME NEW a \in Fit, NEW H, NEW e, NEW p \in H, Owned(a, H, e),
         NEW i \in FastIdx, fastbin_index(chunksize(a, p)) = i,
         NEW lock, ~FreeFast(a, p, i, lock).died
  PROVE  Owned(FreeFast(a, p, i, lock), H \ {p}, e)
<1> DEFINE ok == NextOK(a, p) /\ OldFirstOK(a, p, i, lock)
           b == Checked(a, ok)
           K == H \cup Tops(a)
           d == [b EXCEPT !.have_fastchunks = TRUE, !.fast[i] = <<p>> \o @]
<1>1. b \in Fit
  BY CheckedFit
<1>2. FreeFast(a, p, i, lock) = d
  BY <1>1 DEF FreeFast, Fit, Arenas
<1>3. ~b.died
  <2> HIDE DEF b
  <2> QED
    BY <1>1, <1>2 DEF Fit, Arenas
<1> HIDE DEF ok
<1>4. b = a
  BY <1>3, CheckedAlive
<1> HIDE DEF b
<1>5. Stock(a, K, e) /\ a.top \notin H /\ p \in K
  BY DEF Owned
<1> HIDE DEF K
<1>6. Stock([a EXCEPT !.have_fastchunks = TRUE, !.fast[i] = <<p>> \o @], K \ {p}, e)
  BY <1>5, FastPutStock
<1>7. d.top = a.top
  BY <1>4 DEF Fit, Arenas
<1>8. Stock(d, K \ {p}, e)
  BY <1>4, <1>6
<1> HIDE DEF d
<1>9. K \ {p} = (H \ {p}) \cup Tops(d)
  BY <1>5, <1>7 DEF K, Tops
<1> QED
  BY <1>2, <1>5, <1>7, <1>8, <1>9 DEF Owned

\* A chunk that is freed is nobody's any more, and no other is lost.
LEMMA IntFreeOwned ==
  ASSUME NEW a \in Fit, NEW H, NEW e, NEW p \in H, Owned(a, H, e), mp \in Params,
         NEW lock, ~_int_free(a, p, lock).died
  PROVE  Owned(_int_free(a, p, lock), H \ {p}, e) /\ _int_free(a, p, lock) \in Fit
<1> DEFINE size == chunksize(a, p)
           sound == /\ p # a.top
                    /\ a.contiguous => next_chunk(a, p) < next_chunk(a, a.top)
                    /\ inuse(a, p) /\ NextOK(a, p)
           b == Checked(a, sound)
           c == Coalesce(b, p)
           K == H \cup Tops(a)
<1>0. Stock(a, K, e) /\ a.top \notin H /\ p \in K
  BY DEF Owned
<1> HIDE DEF K
<1>1. p \in Int /\ size \in Nat /\ size >= MINSIZE /\ Sized(a, p)
  BY <1>0, KindOfSized, ChunkIsClear
<1>2. _int_free(a, p, lock) \in Fit
  BY <1>1, IntFreeSafe DEF Safe
<1>3. ~(size < MINSIZE \/ ~aligned_OK(size) \/ ~aligned_OK(p))
  <2>1. ASSUME size < MINSIZE \/ ~aligned_OK(size) \/ ~aligned_OK(p) PROVE FALSE
    <3>1. _int_free(a, p, lock) = [a EXCEPT !.died = TRUE]
      BY <2>1 DEF _int_free
    <3> QED
      BY <3>1 DEF Fit, Arenas
  <2> QED
    BY <2>1
<1>4. CASE CacheRoom(a, size)
  <2>1. _int_free(a, p, lock) = tcache_put(a, p, size)
    BY <1>3, <1>4 DEF _int_free
  <2>2. csize2tidx(size) < TCACHE_BINS /\ aligned_OK(size) /\ chunksize(a, p) >= size
    BY <1>1, <1>3, <1>4 DEF CacheRoom
  <2> HIDE DEF size
  <2>3. Stock(tcache_put(a, p, size), K \ {p}, e) /\ tcache_put(a, p, size).top = a.top
    BY <1>0, <1>1, <2>2, TcachePutStock
  <2>4. K \ {p} = (H \ {p}) \cup Tops(tcache_put(a, p, size))
    BY <1>0, <2>3 DEF K, Tops
  <2> QED
    BY <1>0, <1>2, <2>1, <2>3, <2>4 DEF Owned
<1>5. CASE ~CacheRoom(a, size) /\ size <= mp.max_fast
  <2> DEFINE i == fastbin_index(size)
  <2>1. _int_free(a, p, lock) = FreeFast(a, p, i, lock)
    BY <1>3, <1>5 DEF _int_free
  <2>2. i \in FastIdx
    <3> HIDE DEF size
    <3> QED
      BY <1>1, <1>5 DEF Params
  <2>3. fastbin_index(chunksize(a, p)) = i
    OBVIOUS
  <2> HIDE DEF i
  <2>4. Owned(FreeFast(a, p, i, lock), H \ {p}, e)
    BY <2>1, <2>2, <2>3, FreeFastOwned
  <2> QED
    BY <1>2, <2>1, <2>4
<1>6. CASE ~CacheRoom(a, size) /\ ~(size <= mp.max_fast)
  <2>1. _int_free(a, p, lock) = AfterFree(c, MergeBase(a, p))
    BY <1>3, <1>6 DEF _int_free
  <2>2. b \in Fit
    BY CheckedFit
  <2>3. Sized(b, p)
    BY <1>1 DEF Checked, Sized, chunksize, Fit, Arenas
  <2> HIDE DEF b
  <2>4. Safe(b, c)
    BY <1>1, <2>2, <2>3, CoalesceKeeps DEF Keeps
  <2>5. c \in Fit /\ (b.died => c.died)
    BY <2>4 DEF Safe
  <2> HIDE DEF c
  <2>6. Safe(c, AfterFree(c, MergeBase(a, p)))
    BY <2>5, AfterFreeSafe
  <2>7. ~c.died /\ ~b.died
    BY <2>1, <2>5, <2>6 DEF Safe
  <2> HIDE DEF sound
  <2>8. b = a
    BY <2>7, CheckedAlive DEF b
  <2>9. Owned(c, H \ {p}, e)
    BY <2>7, <2>8, CoalesceOwned DEF c
  <2>10. Owned(AfterFree(c, MergeBase(a, p)), H \ {p}, e)
    BY <2>1, <2>5, <2>9, AfterFreeOwned
  <2> QED
    BY <1>2, <2>1, <2>10
<1> QED
  BY <1>4, <1>5, <1>6

-----------------------------------------------------------------------------
(* Splitting *)

\* It does not matter whether a list or a header is changed first.
LEMMA HeadThenList ==
  ASSUME NEW a \in Fit, NEW r, NEW p, NEW s, NEW pin
  PROVE  set_head(to_unsorted(a, r), p, s, pin) = to_unsorted(set_head(a, p, s, pin), r)
<1> DEFINE h == With(Without(a.hdr, p + 1 .. p + s - 1), p, [sz |-> s, pin |-> pin])
           f == Without(a.foot, IF pin THEN p + 1 .. p + s - 1 \cup {p} ELSE p + 1 .. p + s - 1)
           x == [a.bins EXCEPT ![1] = <<r>> \o a.bins[1]]
<1>1. to_unsorted(a, r) = [a EXCEPT !.bins = x]
  BY DEF to_unsorted, Fit, Arenas
<1>2. set_head(a, p, s, pin) = [a EXCEPT !.hdr = h, !.foot = f]
  BY DEF set_head, Fit, Arenas
<1>3. to_unsorted(set_head(a, p, s, pin), r) = [[a EXCEPT !.hdr = h, !.foot = f] EXCEPT !.bins = x]
  BY <1>2 DEF to_unsorted, Fit, Arenas
<1>4. set_head(to_unsorted(a, r), p, s, pin) = [[a EXCEPT !.bins = x] EXCEPT !.hdr = h, !.foot = f]
  BY <1>1 DEF set_head, Fit, Arenas
<1> HIDE DEF h, f, x
<1>5. [[a EXCEPT !.bins = x] EXCEPT !.hdr = h, !.foot = f]
        = [[a EXCEPT !.hdr = h, !.foot = f] EXCEPT !.bins = x]
  BY DEF Fit, Arenas
<1> QED
  BY <1>3, <1>4, <1>5

LEMMA HeadThenTop ==
  ASSUME NEW a \in Fit, NEW t, NEW p, NEW s, NEW pin
  PROVE  set_head([a EXCEPT !.top = t], p, s, pin) = [set_head(a, p, s, pin) EXCEPT !.top = t]
<1> DEFINE h == With(Without(a.hdr, p + 1 .. p + s - 1), p, [sz |-> s, pin |-> pin])
           f == Without(a.foot, IF pin THEN p + 1 .. p + s - 1 \cup {p} ELSE p + 1 .. p + s - 1)
<1>1. set_head(a, p, s, pin) = [a EXCEPT !.hdr = h, !.foot = f]
  BY DEF set_head, Fit, Arenas
<1>2. set_head([a EXCEPT !.top = t], p, s, pin) = [[a EXCEPT !.top = t] EXCEPT !.hdr = h, !.foot = f]
  BY DEF set_head, Fit, Arenas
<1> HIDE DEF h, f
<1>3. [[a EXCEPT !.top = t] EXCEPT !.hdr = h, !.foot = f]
        = [[a EXCEPT !.hdr = h, !.foot = f] EXCEPT !.top = t]
  BY DEF Fit, Arenas
<1> QED
  BY <1>1, <1>2, <1>3

\* A chunk of s + t words.
Parts(a, p, s, t) == chunksize(a, p) = s + t

\* A chunk that somebody has becomes two.
Cut(a, p, s, t, x, y) == set_head(set_head(a, p, s, x), p + s, t, y)
LEMMA CutChunk ==
  ASSUME NEW a \in Fit, NEW K, NEW e, Stock(a, K, e), NEW p \in K,
         NEW s \in Nat, NEW t \in Nat, s >= MINSIZE, t >= MINSIZE, Parts(a, p, s, t),
         NEW x \in BOOLEAN, NEW y \in BOOLEAN
  PROVE  /\ Cut(a, p, s, t, x, y) \in Fit
         /\ Aside(a, Cut(a, p, s, t, x, y))
         /\ Stock(Cut(a, p, s, t, x, y), K \cup {p + s}, e)
         /\ chunksize(Cut(a, p, s, t, x, y), p) = s
         /\ chunksize(Cut(a, p, s, t, x, y), p + s) = t
         /\ Cut(a, p, s, t, x, y).top = a.top
         /\ p + s \notin K /\ p + s \in Nat \ {0}
<1> DEFINE b == set_head(set_head(a, p, s, x), p + s, t, y)
           n == s + t
<1>0. MINSIZE \in Nat /\ MINSIZE > 0
  <2>1. Least > 0
    BY Sizes DEF Least
  <2> QED
    BY <2>1, Sizes
<1>1. /\ Clear(a, p, s + t, e) /\ K \ (p .. p + (s + t) - 1) = K \ {p} /\ p \in Nat \ {0}
  BY ChunkIsClear DEF Parts
<1>2. s > 0 /\ t > 0
  BY <1>0
<1>3. /\ b \in Fit /\ Aside(a, b)
      /\ Stock(b, (K \ (p .. p + s + t - 1)) \cup {q \in {p} : s >= MINSIZE}
                     \cup {q \in {p + s} : t >= MINSIZE}, e)
      /\ chunksize(b, p) = s /\ chunksize(b, p + s) = t /\ b.top = a.top
  BY <1>1, <1>2, TwoPieces
<1> HIDE DEF b
<1>4. (K \ (p .. p + s + t - 1)) \cup {q \in {p} : s >= MINSIZE} \cup {q \in {p + s} : t >= MINSIZE}
        = K \cup {p + s}
  <2>1. p + s + t - 1 = p + (s + t) - 1
    BY <1>1
  <2>2. K \ (p .. p + s + t - 1) = K \ {p}
    BY <1>1, <2>1
  <2> QED
    BY <2>2
<1>5. p + s \notin K /\ p + s \in Nat \ {0}
  <2>1. p + s \in p .. p + (s + t) - 1 /\ p + s # p
    BY <1>1, <1>2
  <2> QED
    BY <1>1, <2>1
<1> QED
  BY <1>3, <1>4, <1>5 DEF b, Cut

LEMMA SplitOffStock ==
  ASSUME NEW a \in Fit, NEW K, NEW e, Stock(a, K, e), NEW v \in K,
         NEW nb \in Nat, nb >= MINSIZE, chunksize(a, v) >= nb
  PROVE  /\ Stock(SplitOff(a, v, nb), K, e) /\ SplitOff(a, v, nb).top = a.top
         /\ chunksize(SplitOff(a, v, nb), v) >= nb
<1> DEFINE size == chunksize(a, v)
           q == v + nb
           t == size - nb
           yes == TRUE
           c == Cut(a, v, nb, t, yes, yes)
           d == to_unsorted(c, q)
           b == set_foot(d, q, t)
<1>1. size \in Nat /\ v \in Nat \ {0} /\ MINSIZE \in Nat
  BY ChunkIsClear, Sizes
<1>2. CASE size - nb < MINSIZE
  <2>1. SplitOff(a, v, nb) = set_inuse_bit(a, v + size)
    BY <1>2 DEF SplitOff
  <2> DEFINE r == v + size
  <2> HIDE DEF r
  <2>2. /\ SameHeap(a, set_inuse_bit(a, r)) /\ Aside(a, set_inuse_bit(a, r))
        /\ set_inuse_bit(a, r).top = a.top
    BY PinsStay
  <2>3. Stock(set_inuse_bit(a, r), K, e) /\ chunksize(set_inuse_bit(a, r), v) = size
    BY <2>2, Stays DEF SameHeap
  <2> QED
    BY <2>1, <2>2, <2>3 DEF r
<1>3. CASE ~(size - nb < MINSIZE)
  <2>1. SplitOff(a, v, nb) = set_foot(set_head(set_head(to_unsorted(a, q), v, nb, yes), q, t, yes), q, t)
    BY <1>3 DEF SplitOff
  <2>2. t \in Nat /\ t >= MINSIZE /\ Parts(a, v, nb, t) /\ yes \in BOOLEAN
    BY <1>1, <1>3 DEF Parts
  <2>3. q = v + nb
    OBVIOUS
  <2> HIDE DEF size, t, yes
  <2>4. /\ c \in Fit /\ Stock(c, K \cup {q}, e) /\ chunksize(c, v) = nb /\ c.top = a.top
        /\ q \notin K
    BY <2>2, CutChunk
  <2>5. SplitOff(a, v, nb) = b
    <3>1. set_head(to_unsorted(a, q), v, nb, yes) = to_unsorted(set_head(a, v, nb, yes), q)
      BY HeadThenList
    <3>2. set_head(a, v, nb, yes) \in Fit
      <4>1. v \in Int /\ nb \in Int
        BY <1>1
      <4> QED
        BY <2>2, <4>1, HeadCuts
    <3>3. set_head(to_unsorted(set_head(a, v, nb, yes), q), q, t, yes) = d
      BY <3>2, HeadThenList DEF Cut
    <3> QED
      BY <2>1, <3>1, <3>3
  <2> HIDE DEF c, q
  <2> DEFINE M == K \cup {q}
  <2>6. q \in M /\ Stock(c, M, e)
    BY <2>4
  <2>7. M \ {q} = K
    BY <2>4
  <2> HIDE DEF M
  <2>8. Stock(d, M \ {q}, e)
    BY <2>4, <2>6, ToUnsortedStock
  <2>9. SameHeap(c, d) /\ d.top = c.top
    BY <2>4, UnsortedStays
  <2>10. d \in Fit
    <3>1. q \in Int
      BY <2>4, <2>6, StockChunks
    <3> QED
      BY <2>4, <3>1, UnsortedKeeps DEF Keeps, Safe
  <2> HIDE DEF d
  <2>11. SameHeap(d, b) /\ Aside(d, b) /\ b.top = d.top
    BY <2>10, FootStays
  <2> HIDE DEF b
  <2>12. Stock(b, K, e)
    BY <2>7, <2>8, <2>11, Stays
  <2>13. chunksize(b, v) = nb
    BY <2>4, <2>9, <2>11 DEF SameHeap
  <2>14. chunksize(b, v) >= nb
    BY <2>13
  <2> QED
    BY <2>4, <2>5, <2>9, <2>11, <2>12, <2>14
<1> QED
  BY <1>2, <1>3

LEMMA SplitTopOwned ==
  ASSUME NEW a \in Fit, NEW H, NEW e, Owned(a, H, e), a.top # NULL,
         NEW nb \in Nat, nb >= MINSIZE, chunksize(a, a.top) >= nb + MINSIZE
  PROVE  Owned(SplitTop(a, nb), H \cup {a.top}, e) /\ SplitTop(a, nb) \in Fit
         /\ chunksize(SplitTop(a, nb), a.top) = nb
<1> DEFINE p == a.top
           K == H \cup Tops(a)
           q == p + nb
           t == chunksize(a, p) - nb
           yes == TRUE
           c == Cut(a, p, nb, t, yes, yes)
           b == [c EXCEPT !.top = q]
<1>1. SplitTop(a, nb) = b
  BY DEF SplitTop, Cut
<1>2. Stock(a, K, e) /\ a.top \notin H /\ p \in K /\ K = H \cup {p}
  BY DEF Owned, Tops
<1> HIDE DEF K
<1>3. t \in Nat /\ t >= MINSIZE /\ Parts(a, p, nb, t) /\ yes \in BOOLEAN
  <2>1. chunksize(a, p) \in Nat /\ MINSIZE \in Nat
    BY <1>2, ChunkIsClear, Sizes
  <2> QED
    BY <2>1 DEF Parts
<1>6. p = a.top
  OBVIOUS
<1> HIDE DEF t, yes, p
<1>4. /\ c \in Fit /\ Stock(c, K \cup {q}, e) /\ chunksize(c, p) = nb /\ q \notin K
  BY <1>2, <1>3, CutChunk
<1> HIDE DEF q, c
<1> DEFINE M == K \cup {q}
<1>5. q \in M /\ Stock(c, M, e) /\ M \ {q} = K
  BY <1>4
<1> HIDE DEF M
<1>7. Owned(b, M \ {q}, e) /\ b \in Fit
  BY <1>4, <1>5, TopMovesTo
<1>8. b.hdr = c.hdr
  BY <1>4 DEF Fit, Arenas
<1>9. chunksize(b, p) = chunksize(c, p)
  BY <1>8 DEF chunksize
<1> QED
  BY <1>1, <1>2, <1>4, <1>5, <1>6, <1>7, <1>9

LEMMA HeadDies ==
  ASSUME NEW a \in Fit, NEW p, NEW s, NEW pin
  PROVE  set_head(a, p, s, pin).died = a.died
  BY DEF set_head, Fit, Arenas

\* The same two chunks when the second is cut off first, before something that
\* changes no chunk.
LEMMA CutBehind ==
  ASSUME NEW a \in Fit, NEW K, NEW e, Stock(a, K, e), NEW p \in K,
         NEW s \in Nat, NEW t \in Nat, s >= MINSIZE, t >= MINSIZE, Parts(a, p, s, t),
         NEW x \in BOOLEAN, NEW y \in BOOLEAN, NEW q, q = p + s,
         NEW c \in Fit, SameHeap(set_head(a, q, t, x), c), Aside(set_head(a, q, t, x), c),
         c.top = a.top
  PROVE  /\ set_head(c, p, s, y) \in Fit
         /\ Stock(set_head(c, p, s, y), K \cup {q}, e)
         /\ chunksize(set_head(c, p, s, y), p) = s
         /\ chunksize(set_head(c, p, s, y), q) = t
         /\ set_head(c, p, s, y).top = a.top
         /\ q \notin K /\ q \in Nat \ {0}
<1> DEFINE b == Cut(a, p, s, t, x, y)
           b1 == set_head(a, p, s, x)
           c1 == set_head(a, q, t, x)
           d == set_head(c, p, s, y)
<1>0. p \in Nat \ {0} /\ MINSIZE \in Nat /\ MINSIZE > 0
  <2>1. Least > 0
    BY Sizes DEF Least
  <2> QED
    BY <2>1, Sizes, ChunkIsClear
<1>1. /\ b \in Fit /\ Aside(a, b) /\ Stock(b, K \cup {q}, e) /\ chunksize(b, p) = s
      /\ chunksize(b, q) = t /\ b.top = a.top /\ q \notin K /\ q \in Nat \ {0}
  <2>1. /\ b \in Fit /\ Aside(a, b) /\ Stock(b, K \cup {p + s}, e) /\ chunksize(b, p) = s
        /\ chunksize(b, p + s) = t /\ b.top = a.top /\ p + s \notin K /\ p + s \in Nat \ {0}
    BY CutChunk, SMTT(60)
  <2> HIDE DEF b
  <2>2. p + s = q
    OBVIOUS
  <2> QED
    BY <2>1, <2>2
<1>2. p \in Int /\ q \in Int /\ s \in Int /\ t \in Int /\ q = p + s /\ s > 0 /\ t > 0
  BY <1>0, <1>1
<1>3. /\ b1 \in Fit
      /\ DOMAIN b1.hdr = (DOMAIN a.hdr \ (p + 1 .. p + s - 1)) \cup {p}
      /\ chunksize(b1, p) = s
      /\ \A r : r # p /\ r \notin p + 1 .. p + s - 1 => chunksize(b1, r) = chunksize(a, r)
  BY <1>2, HeadCuts
<1>4. /\ c1 \in Fit /\ Aside(a, c1)
      /\ DOMAIN c1.hdr = (DOMAIN a.hdr \ (q + 1 .. q + t - 1)) \cup {q}
      /\ chunksize(c1, q) = t
      /\ \A r : r # q /\ r \notin q + 1 .. q + t - 1 => chunksize(c1, r) = chunksize(a, r)
  BY <1>2, HeadCuts
<1>5. b = set_head(b1, q, t, y)
  BY DEF Cut
<1> HIDE DEF b, b1
<1>6. /\ DOMAIN b.hdr = (DOMAIN b1.hdr \ (q + 1 .. q + t - 1)) \cup {q}
      /\ chunksize(b, q) = t
      /\ \A r : r # q /\ r \notin q + 1 .. q + t - 1 => chunksize(b, r) = chunksize(b1, r)
  BY <1>2, <1>3, <1>5, HeadCuts
<1>7. SameHeap(c1, c) /\ Aside(c1, c)
  OBVIOUS
<1> HIDE DEF c1
<1>8. /\ d \in Fit /\ Aside(c, d) /\ d.top = c.top
      /\ DOMAIN d.hdr = (DOMAIN c.hdr \ (p + 1 .. p + s - 1)) \cup {p}
      /\ chunksize(d, p) = s
      /\ \A r : r # p /\ r \notin p + 1 .. p + s - 1 => chunksize(d, r) = chunksize(c, r)
  BY <1>2, HeadCuts
<1> HIDE DEF d
<1>9. DOMAIN c.hdr = DOMAIN c1.hdr /\ \A r : chunksize(c, r) = chunksize(c1, r)
  BY <1>7 DEF SameHeap
<1>10. p # q /\ p \notin q + 1 .. q + t - 1 /\ q \notin p + 1 .. p + s - 1
  BY <1>2
<1>11. DOMAIN d.hdr = DOMAIN b.hdr
  <2> DEFINE P == p + 1 .. p + s - 1
             Q == q + 1 .. q + t - 1
  <2>1. DOMAIN d.hdr = (((DOMAIN a.hdr \ Q) \cup {q}) \ P) \cup {p}
    BY <1>4, <1>8, <1>9
  <2>2. DOMAIN b.hdr = (((DOMAIN a.hdr \ P) \cup {p}) \ Q) \cup {q}
    BY <1>3, <1>6
  <2>3. p \notin Q /\ q \notin P
    BY <1>10
  <2> HIDE DEF P, Q
  <2> QED
    BY <2>1, <2>2, <2>3
<1>12. ASSUME NEW r PROVE chunksize(d, r) = chunksize(b, r)
  <2> DEFINE P == p + 1 .. p + s - 1
             Q == q + 1 .. q + t - 1
  <2>1. /\ \A z : z # p /\ z \notin P => chunksize(d, z) = chunksize(c1, z)
        /\ \A z : z # q /\ z \notin Q => chunksize(b, z) = chunksize(b1, z)
        /\ \A z : z # p /\ z \notin P => chunksize(b1, z) = chunksize(a, z)
        /\ \A z : z # q /\ z \notin Q => chunksize(c1, z) = chunksize(a, z)
        /\ chunksize(d, p) = s /\ chunksize(b, p) = s /\ chunksize(c1, q) = t /\ chunksize(b, q) = t
    BY <1>1, <1>3, <1>4, <1>6, <1>8, <1>9
  <2>2. p \notin Q /\ q \notin P /\ p # q
    BY <1>10
  <2>3. r \in P => r \notin DOMAIN d.hdr /\ r \notin DOMAIN b.hdr
    BY <1>2, <1>8, <1>10, <1>11
  <2>4. r \in Q => r \notin DOMAIN d.hdr /\ r \notin DOMAIN b.hdr
    BY <1>2, <1>6, <1>10, <1>11
  <2>5. r \notin DOMAIN d.hdr => chunksize(d, r) = 0
    BY DEF chunksize
  <2>6. r \notin DOMAIN b.hdr => chunksize(b, r) = 0
    BY DEF chunksize
  <2> HIDE DEF P, Q
  <2> QED
    BY <2>1, <2>2, <2>3, <2>4, <2>5, <2>6
<1>13. Aside(b, d)
  <2>1. Aside(a, d)
    BY <1>4, <1>7, <1>8, AsideTrans
  <2>2. b.died = a.died
    <3>1. b1.died = a.died
      BY HeadDies DEF b1
    <3> QED
      BY <1>3, <1>5, <3>1, HeadDies
  <2> QED
    BY <1>1, <2>1, <2>2 DEF Aside
<1>14. SameHeap(b, d)
  BY <1>11, <1>12, <1>13 DEF SameHeap, Aside
<1>15. Stock(d, K \cup {q}, e) /\ chunksize(d, q) = t
  BY <1>1, <1>12, <1>13, <1>14, Stays
<1> QED
  BY <1>1, <1>8, <1>15 DEF d

LEMMA FreeSpareOwned ==
  ASSUME NEW a \in Fit, NEW H, NEW e, NEW p \in H, Owned(a, H, e), mp \in Params,
         NEW nb \in Nat, nb >= MINSIZE, ~FreeSpare(a, p, nb).died
  PROVE  Owned(FreeSpare(a, p, nb), H, e) /\ FreeSpare(a, p, nb) \in Fit
<1> DEFINE size == chunksize(a, p)
           K == H \cup Tops(a)
           q == p + nb
           t == size - nb
           yes == TRUE
           c == set_head(a, q, t, yes)
           y == prev_inuse(c, p)
           d == set_head(c, p, nb, y)
           N == K \cup {q}
<1>0. Stock(a, K, e) /\ a.top \notin H /\ p \in K
  BY DEF Owned
<1> HIDE DEF K
<1>1. size \in Nat /\ MINSIZE \in Nat /\ p \in Nat \ {0}
  BY <1>0, ChunkIsClear, Sizes
<1>2. CASE ~(size > nb + MINSIZE)
  BY <1>2 DEF FreeSpare
<1>3. CASE size > nb + MINSIZE
  <2>1. FreeSpare(a, p, nb) = _int_free(d, q, TRUE)
    BY <1>3 DEF FreeSpare, set_head_size
  <2>2. t \in Nat /\ t >= MINSIZE /\ Parts(a, p, nb, t) /\ yes \in BOOLEAN /\ q \in Int /\ q = p + nb
    BY <1>1, <1>3 DEF Parts
  <2> HIDE DEF size, t, yes, q
  <2>3. c \in Fit /\ c.top = a.top
    <3>1. t \in Int
      BY <2>2
    <3> QED
      BY <2>2, <3>1, HeadCuts
  <2>4. SameHeap(c, c) /\ Aside(c, c)
    BY DEF SameHeap, Aside
  <2>5. y \in BOOLEAN
    BY <2>3, FitType
  <2> HIDE DEF y
  <2>6. /\ d \in Fit /\ Stock(d, N, e) /\ d.top = a.top /\ q \notin K /\ q \in Nat \ {0}
    BY <1>0, <2>2, <2>3, <2>4, <2>5, CutBehind
  <2> HIDE DEF c, d
  <2>7. Owned(d, H \cup {q}, e) /\ q \in H \cup {q}
    <3>1. (H \cup {q}) \cup Tops(d) = N
      BY <2>6 DEF K, Tops
    <3>2. d.top \notin H \cup {q}
      <4>1. q # a.top
        BY <2>6 DEF K, Tops, NULL
      <4> QED
        BY <1>0, <2>6, <4>1
    <3> QED
      BY <2>6, <3>1, <3>2 DEF Owned
  <2>8. (H \cup {q}) \ {q} = H
    BY <2>6 DEF K
  <2> DEFINE M == H \cup {q}
  <2>9. Owned(d, M, e) /\ q \in M /\ M \ {q} = H
    BY <2>7, <2>8
  <2> HIDE DEF M
  <2>10. PICK lock : lock = TRUE
    OBVIOUS
  <2>11. FreeSpare(a, p, nb) = _int_free(d, q, lock)
    BY <2>1, <2>10
  <2> QED
    BY <2>6, <2>9, <2>11, IntFreeOwned
<1> QED
  BY <1>2, <1>3

\* What lies in front of the aligned chunk newp is given back.
LEMMA FreeLeadOwned ==
  ASSUME NEW a \in Fit, NEW H, NEW e, NEW p \in H, Owned(a, H, e), mp \in Params,
         NEW newp \in Int, ~FreeLead(a, p, newp).died,
         newp # p => newp - p >= MINSIZE /\ chunksize(a, p) - (newp - p) >= MINSIZE
  PROVE  /\ Owned(FreeLead(a, p, newp), (H \ {p}) \cup {newp}, e)
         /\ FreeLead(a, p, newp) \in Fit
         /\ newp = p \/ newp \notin H
<1> DEFINE K == H \cup Tops(a)
           s == newp - p
           t == chunksize(a, p) - s
           yes == TRUE
           c1 == set_head(a, newp, t, yes)
           c == set_inuse_bit(c1, newp + t)
           y == prev_inuse(c, p)
           d == set_head(c, p, s, y)
           N == K \cup {newp}
<1>0. Stock(a, K, e) /\ a.top \notin H /\ p \in K
  BY DEF Owned
<1> HIDE DEF K
<1>1. chunksize(a, p) \in Nat /\ MINSIZE \in Nat /\ p \in Nat \ {0}
  BY <1>0, ChunkIsClear, Sizes
<1>2. CASE newp = p
  <2>1. (H \ {p}) \cup {newp} = H
    BY <1>2
  <2>2. FreeLead(a, p, newp) = a
    BY <1>2 DEF FreeLead
  <2> QED
    BY <1>2, <2>1, <2>2
<1>3. CASE newp # p
  <2>1. FreeLead(a, p, newp) = _int_free(d, p, TRUE)
    BY <1>3 DEF FreeLead, set_head_size
  <2>2. /\ t \in Nat /\ t >= MINSIZE /\ s \in Nat /\ s >= MINSIZE /\ Parts(a, p, s, t)
        /\ yes \in BOOLEAN /\ newp = p + s
    BY <1>1, <1>3 DEF Parts
  <2> HIDE DEF s, t, yes
  <2>3. c1 \in Fit /\ c1.top = a.top
    <3>1. t \in Int
      BY <2>2
    <3> QED
      BY <2>2, <3>1, HeadCuts
  <2> HIDE DEF c1
  <2>4. SameHeap(c1, c) /\ Aside(c1, c) /\ c \in Fit /\ c.top = c1.top
    <3> DEFINE r == newp + t
    <3> HIDE DEF r
    <3>1. /\ SameHeap(c1, set_inuse_bit(c1, r)) /\ Aside(c1, set_inuse_bit(c1, r))
          /\ set_inuse_bit(c1, r) \in Fit /\ set_inuse_bit(c1, r).top = c1.top
      BY <2>3, PinsStay
    <3> QED
      BY <3>1 DEF r
  <2> HIDE DEF c
  <2>5. y \in BOOLEAN
    BY <2>4, FitType
  <2> HIDE DEF y
  <2>6. /\ d \in Fit /\ Stock(d, N, e) /\ d.top = a.top /\ newp \notin K /\ newp \in Nat \ {0}
    <3>1. SameHeap(set_head(a, newp, t, yes), c) /\ Aside(set_head(a, newp, t, yes), c) /\ c.top = a.top
      BY <2>3, <2>4 DEF c1
    <3> QED
      BY <1>0, <2>2, <2>4, <2>5, <3>1, CutBehind
  <2> HIDE DEF d
  <2> DEFINE M == H \cup {newp}
  <2>7. Owned(d, M, e) /\ p \in M
    <3>1. M \cup Tops(d) = N
      BY <2>6 DEF K, Tops
    <3>2. d.top \notin M
      <4>1. newp # a.top
        BY <2>6 DEF K, Tops, NULL
      <4> QED
        BY <1>0, <2>6, <4>1
    <3> QED
      BY <2>6, <3>1, <3>2 DEF Owned
  <2>8. M \ {p} = (H \ {p}) \cup {newp} /\ newp \notin H
    BY <1>3, <2>6 DEF K
  <2> HIDE DEF M
  <2>9. PICK lock : lock = TRUE
    OBVIOUS
  <2>10. FreeLead(a, p, newp) = _int_free(d, p, lock)
    BY <2>1, <2>9
  <2> QED
    BY <2>6, <2>7, <2>8, <2>10, IntFreeOwned
<1> QED
  BY <1>2, <1>3

\* The n words from p can become a chunk, and then M is what is held.
Spans(a, H, p, n, M, e) ==
  /\ Clear(a, p, n, e)
  /\ M = (H \ (p .. p + n - 1)) \cup {p}
  /\ a.top \notin p .. p + n - 1

LEMMA FreeTailOwned ==
  ASSUME NEW a \in Fit, NEW H, NEW e, NEW M, Owned(a, H, e), mp \in Params,
         NEW p \in Nat \ {0}, NEW n \in Nat, NEW nb \in Nat, nb >= MINSIZE, n >= nb,
         Spans(a, H, p, n, M, e), ~FreeTail(a, p, n, nb).died
  PROVE  Owned(FreeTail(a, p, n, nb), M, e) /\ FreeTail(a, p, n, nb) \in Fit
<1> DEFINE K == H \cup Tops(a)
           x == prev_inuse(a, p)
<1>0. Stock(a, K, e) /\ a.top \notin H
  BY DEF Owned
<1>1. MINSIZE \in Nat /\ MINSIZE > 0 /\ x \in BOOLEAN /\ p \in Int /\ n \in Int
  <2>1. Least > 0
    BY Sizes DEF Least
  <2> QED
    BY <2>1, Sizes, FitType
<1>2. (K \ (p .. p + n - 1)) \cup {p} = M \cup Tops(a)
  BY DEF Spans, Tops
<1>3. a.top \notin M
  <2>1. p \in p .. p + n - 1
    BY <1>1
  <2> QED
    BY <1>0, <2>1 DEF Spans
<1>4. Clear(a, p, n, e)
  BY DEF Spans
<1> HIDE DEF K, x
<1>5. CASE n - nb < MINSIZE
  <2> DEFINE c == set_head(a, p, n, x)
             r == p + n
             b == set_inuse_bit(c, r)
  <2>1. FreeTail(a, p, n, nb) = b
    BY <1>5 DEF FreeTail, set_head_size, x
  <2>2. c \in Fit /\ c.top = a.top
    BY <1>1, HeadCuts
  <2>3. Stock(c, M \cup Tops(a), e)
    BY <1>0, <1>1, <1>2, <1>4, OnePiece
  <2> HIDE DEF c, r
  <2>4. /\ SameHeap(c, b) /\ Aside(c, b) /\ b \in Fit /\ b.top = c.top
    BY <2>2, PinsStay
  <2> HIDE DEF b
  <2>5. Stock(b, M \cup Tops(a), e)
    BY <2>3, <2>4, Stays
  <2> QED
    BY <1>3, <2>1, <2>2, <2>4, <2>5 DEF Owned, Tops
<1>6. CASE ~(n - nb < MINSIZE)
  <2> DEFINE t == n - nb
             q == p + nb
             yes == TRUE
             c == set_head(set_head(a, p, nb, x), q, t, yes)
             r == p + n
             b == set_inuse_bit(c, r)
             N == M \cup {q}
  <2>1. FreeTail(a, p, n, nb) = _int_free(b, q, TRUE)
    BY <1>6 DEF FreeTail, set_head_size, x
  <2>2. t \in Nat /\ t > 0 /\ nb > 0 /\ t >= MINSIZE /\ nb + t = n /\ yes \in BOOLEAN
    BY <1>1, <1>6
  <2> HIDE DEF t, yes
  <2>3. Clear(a, p, nb + t, e) /\ p + nb + t - 1 = p + n - 1
    BY <1>1, <1>4, <2>2
  <2>4. /\ c \in Fit /\ c.top = a.top
        /\ Stock(c, (K \ (p .. p + nb + t - 1)) \cup {z \in {p} : nb >= MINSIZE}
                       \cup {z \in {p + nb} : t >= MINSIZE}, e)
    BY <1>0, <1>1, <2>2, <2>3, TwoPieces
  <2>5. (K \ (p .. p + nb + t - 1)) \cup {z \in {p} : nb >= MINSIZE} \cup {z \in {p + nb} : t >= MINSIZE}
          = N \cup Tops(a)
    <3>1. (K \ (p .. p + nb + t - 1)) \cup {p} = M \cup Tops(a)
      BY <1>2, <2>3
    <3> QED
      BY <2>2, <3>1
  <2>6. Stock(c, N \cup Tops(a), e)
    BY <2>4, <2>5
  <2>7. q \in p .. p + n - 1 /\ q # p
    BY <1>1, <2>2
  <2>8. q # a.top /\ q \notin M
    BY <2>7 DEF Spans
  <2> HIDE DEF c, r, q, N
  <2>9. /\ SameHeap(c, b) /\ Aside(c, b) /\ b \in Fit /\ b.top = c.top
    BY <2>4, PinsStay
  <2> HIDE DEF b
  <2>10. Stock(b, N \cup Tops(a), e)
    BY <2>6, <2>9, Stays
  <2>11. q \in N /\ N \ {q} = M /\ a.top \notin N
    BY <1>3, <2>8 DEF N
  <2>12. Owned(b, N, e)
    BY <2>4, <2>9, <2>10, <2>11 DEF Owned, Tops
  <2>13. ~_int_free(b, q, TRUE).died
    BY <2>1
  <2>14. Owned(_int_free(b, q, TRUE), N \ {q}, e) /\ _int_free(b, q, TRUE) \in Fit
    BY <2>9, <2>11, <2>12, <2>13, IntFreeOwned
  <2> QED
    BY <2>1, <2>11, <2>14
<1> QED
  BY <1>5, <1>6

\* b is a with a chunk of s words at p.
CutsAt(a, b, p, s) ==
  /\ Aside(a, b) /\ b \in Fit /\ b.top = a.top
  /\ DOMAIN b.hdr = (DOMAIN a.hdr \ (p + 1 .. p + s - 1)) \cup {p}
  /\ chunksize(b, p) = s
  /\ \A r : r # p /\ r \notin p + 1 .. p + s - 1 => chunksize(b, r) = chunksize(a, r)
  /\ IsFiniteSet(DOMAIN a.hdr) => IsFiniteSet(DOMAIN b.hdr)

LEMMA HeadMakes ==
  ASSUME NEW a \in Fit, NEW p \in Int, NEW s \in Int, NEW pin \in BOOLEAN
  PROVE  CutsAt(a, set_head(a, p, s, pin), p, s)
  BY HeadCuts DEF CutsAt

\* Two chunks of a header's size behind the first n words of the chunk t.
Fenced(a, t, n) ==
  set_head(set_head(set_head(a, t, n, TRUE), t + n, CHUNK_HDR_SZ, TRUE),
           t + n + CHUNK_HDR_SZ, CHUNK_HDR_SZ, TRUE)

\* The last words before the end of a page are in the same page.
LEMMA LastPage ==
  ASSUME NEW x \in Int, x % PageSize = 0, NEW n \in Nat, n < PageSize
  PROVE  (x - n - 1) \div PageSize = (x - 1) \div PageSize
<1> DEFINE z == x \div PageSize
<1>1. PageSize \in Nat \ {0}
  BY Sizes
<1>2. z \in Int /\ x = z * PageSize
  BY <1>1
<1> HIDE DEF z
<1>3. \A y \in Int : y >= z * PageSize - PageSize /\ y < z * PageSize => y \div PageSize = z - 1
  <2> SUFFICES ASSUME NEW y \in Int, y >= z * PageSize - PageSize, y < z * PageSize
               PROVE  y \div PageSize = z - 1
    OBVIOUS
  <2>1. (z - 1) * PageSize <= y /\ y < (z - 1 + 1) * PageSize
    BY <1>1, <1>2
  <2> QED
    BY <1>1, <1>2, <2>1
<1>4. z * PageSize \in Int
  BY <1>1, <1>2
<1> QED
  BY <1>1, <1>2, <1>3, <1>4

\* Where a page ends behind the fences, they and what is before them have all pages.
LEMMA FencePages ==
  ASSUME NEW t \in Nat, NEW n \in Nat, NEW size \in Nat, NEW h \in Nat \ {0},
         n + 2 * h <= size, size < n + 2 * h + PageSize, (t + size) % PageSize = 0,
         NEW k \in PagesOf(t, size)
  PROVE  \/ n > 0 /\ k \in PagesOf(t, n)
         \/ k \in PagesOf(t + n, h)
         \/ k \in PagesOf(t + n + h, h)
<1> DEFINE m == n + h + h
           x == t + size
           left == size - m
<1>1. m \in Nat /\ x \in Int /\ left \in Nat /\ left < PageSize /\ x % PageSize = 0
      /\ x - left - 1 = t + m - 1 /\ x - 1 = t + size - 1 /\ m = (n + h) + h
  BY Sizes
<1>2. PagesOf(t, size) = PagesOf(t, m)
  <2> HIDE DEF m, x, left
  <2>1. (x - left - 1) \div PageSize = (x - 1) \div PageSize
    BY <1>1, LastPage
  <2> QED
    BY <1>1, <2>1 DEF PagesOf
<1> HIDE DEF m
<1>3. k \in PagesOf(t, n + h) \/ k \in PagesOf(t + n + h, h)
  <2> DEFINE y == n + h
  <2>1. y \in Int /\ y > 0 /\ m = y + h /\ t + y = t + n + h
    BY <1>1
  <2> HIDE DEF y
  <2>2. PagesOf(t, y + h) \subseteq PagesOf(t, y) \cup PagesOf(t + y, h)
    BY <2>1, PagesJoin
  <2>3. k \in PagesOf(t, y) \/ k \in PagesOf(t + y, h)
    BY <1>2, <2>1, <2>2
  <2> QED
    BY <2>1, <2>3 DEF y
<1>4. CASE n > 0
  <2>1. PagesOf(t, n + h) \subseteq PagesOf(t, n) \cup PagesOf(t + n, h)
    BY <1>4, PagesJoin
  <2> QED
    BY <1>3, <1>4, <2>1
<1>5. CASE n = 0
  <2>1. n + h = h /\ t + n = t
    BY <1>5
  <2> QED
    BY <1>3, <2>1
<1> QED
  BY <1>4, <1>5

LEMMA FencedStock ==
  ASSUME NEW a \in Fit, NEW K, NEW e, NEW M, Stock(a, K, e), NEW t \in K,
         NEW n \in Nat, n + 2 * CHUNK_HDR_SZ <= chunksize(a, t),
         chunksize(a, t) < n + 2 * CHUNK_HDR_SZ + PageSize,
         (t + chunksize(a, t)) % PageSize = 0,
         \A r : r \in M <=> r \in K /\ (r = t => n >= MINSIZE)
  PROVE  /\ Stock(Fenced(a, t, n), M, e) /\ Fenced(a, t, n) \in Fit
         /\ Fenced(a, t, n).top = a.top /\ Aside(a, Fenced(a, t, n))
<1> DEFINE h == CHUNK_HDR_SZ
           f == t + n
           g == f + h
           yes == TRUE
           size == chunksize(a, t)
           b == set_head(a, t, n, yes)
           c == set_head(b, f, h, yes)
           d == set_head(c, g, h, yes)
<1>1. /\ h \in Nat \ {0} /\ h < MINSIZE /\ MINSIZE \in Nat /\ yes \in BOOLEAN
  BY Sizes DEF Least
<1>2. /\ Clear(a, t, size, e) /\ K \ (t .. t + size - 1) = K \ {t}
      /\ t \in Nat \ {0} /\ size \in Nat /\ size >= MINSIZE /\ t \in DOMAIN a.hdr
  BY ChunkIsClear
<1>3. n + 2 * h <= size /\ size < n + 2 * h + PageSize /\ (t + size) % PageSize = 0
  OBVIOUS
<1>4. Fenced(a, t, n) = d
  BY DEF Fenced
<1> HIDE DEF yes, h, size
<1>5. /\ Aside(a, b) /\ b \in Fit /\ b.top = a.top
      /\ DOMAIN b.hdr = (DOMAIN a.hdr \ (t + 1 .. t + n - 1)) \cup {t}
      /\ chunksize(b, t) = n
      /\ \A r : r # t /\ r \notin t + 1 .. t + n - 1 => chunksize(b, r) = chunksize(a, r)
      /\ IsFiniteSet(DOMAIN b.hdr)
  <2>1. t \in Int /\ n \in Int /\ IsFiniteSet(DOMAIN a.hdr)
    BY <1>2 DEF Stock, Tiled
  <2>2. CutsAt(a, b, t, n)
    BY <1>1, <2>1, HeadMakes
  <2> QED
    BY <2>1, <2>2 DEF CutsAt
<1> HIDE DEF b
<1>6. f \in Int /\ g \in Int /\ h \in Int
  BY <1>1, <1>2
<1>14. f = t + n /\ g = t + n + h
  BY <1>1, <1>2
<1> HIDE DEF f, g
<1>7. /\ Aside(b, c) /\ c \in Fit /\ c.top = b.top
      /\ DOMAIN c.hdr = (DOMAIN b.hdr \ (f + 1 .. f + h - 1)) \cup {f}
      /\ chunksize(c, f) = h
      /\ \A r : r # f /\ r \notin f + 1 .. f + h - 1 => chunksize(c, r) = chunksize(b, r)
      /\ IsFiniteSet(DOMAIN c.hdr)
  <2>1. CutsAt(b, c, f, h)
    BY <1>1, <1>5, <1>6, HeadMakes
  <2> QED
    BY <1>5, <2>1 DEF CutsAt
<1> HIDE DEF c
<1>8. /\ Aside(c, d) /\ d \in Fit /\ d.top = c.top
      /\ DOMAIN d.hdr = (DOMAIN c.hdr \ (g + 1 .. g + h - 1)) \cup {g}
      /\ chunksize(d, g) = h
      /\ \A r : r # g /\ r \notin g + 1 .. g + h - 1 => chunksize(d, r) = chunksize(c, r)
      /\ IsFiniteSet(DOMAIN d.hdr)
  <2>1. CutsAt(c, d, g, h)
    BY <1>1, <1>6, <1>7, HeadMakes
  <2> QED
    BY <1>7, <2>1 DEF CutsAt
<1> HIDE DEF d
<1>9. Aside(a, d)
  BY <1>5, <1>7, <1>8, AsideTrans
<1>10. ASSUME NEW r, r \notin t .. t + size - 1
       PROVE  chunksize(d, r) = chunksize(a, r) /\ (r \in DOMAIN d.hdr <=> r \in DOMAIN a.hdr)
  <2>1. /\ r # t /\ r \notin t + 1 .. t + n - 1 /\ r # f /\ r \notin f + 1 .. f + h - 1
        /\ r # g /\ r \notin g + 1 .. g + h - 1
    BY <1>1, <1>2, <1>3, <1>10, <1>14
  <2> QED
    BY <1>5, <1>7, <1>8, <2>1
<1>11. ASSUME NEW r \in DOMAIN d.hdr, r \in t .. t + size - 1
       PROVE  r \in {t, f, g}
  <2>1. r \in DOMAIN a.hdr => r = t
    <3>1. r \in DOMAIN a.hdr => (r \in t .. t + chunksize(a, t) - 1 => r = t)
      BY <1>2, Alone
    <3> QED
      BY <1>11, <3>1 DEF size
  <2> QED
    BY <1>5, <1>7, <1>8, <2>1
<1>12. /\ t \in DOMAIN d.hdr => chunksize(d, t) = IF n = 0 THEN h ELSE n
       /\ chunksize(d, f) = h /\ f \in DOMAIN d.hdr
       /\ chunksize(d, g) = h /\ g \in DOMAIN d.hdr
       /\ n > 0 => t \in DOMAIN d.hdr
  <2>1. /\ f # g /\ f \notin g + 1 .. g + h - 1 /\ t \notin g + 1 .. g + h - 1 /\ t # g
        /\ t \notin f + 1 .. f + h - 1 /\ (t = f <=> n = 0)
    BY <1>1, <1>2, <1>14
  <2> QED
    BY <1>5, <1>7, <1>8, <2>1
<1>13. \A r \in DOMAIN d.hdr : r \in t .. t + size - 1 =>
         /\ r \in Int /\ chunksize(d, r) > 0 /\ chunksize(d, r) \in Int
         /\ r + chunksize(d, r) <= t + size
         /\ r >= t
  BY <1>1, <1>2, <1>3, <1>11, <1>12, <1>14
<1>15. \A r, q \in DOMAIN d.hdr :
         r \in t .. t + size - 1 /\ q \in t .. t + size - 1 /\ r < q => r + chunksize(d, r) <= q
  BY <1>1, <1>2, <1>3, <1>11, <1>12, <1>14
<1>16. ASSUME NEW r \in DOMAIN d.hdr, r \in t .. t + size - 1
       PROVE  Within(a, r, chunksize(d, r), e)
  <2>1. a.brk \in Int /\ Within(a, t, size, e) /\ t \in Int /\ size \in Int
    BY <1>2 DEF Stock, Backed, Clear
  <2> DEFINE m == chunksize(d, r)
  <2>2. r \in Int /\ m \in Int /\ t <= r /\ r + m <= t + size /\ m > 0
    BY <1>13, <1>16
  <2> HIDE DEF m
  <2>3. Within(a, r, m, e)
    BY <2>1, <2>2, WithinParts
  <2> QED
    BY <2>3 DEF m
<1>17. ASSUME NEW r
       PROVE  r \in M <=> IF r \in t .. t + size - 1 THEN r \in Big(d) ELSE r \in K
  <2>0. t \in t .. t + size - 1
    BY <1>1, <1>2
  <2>1. CASE r \notin t .. t + size - 1
    BY <2>0, <2>1
  <2>2. CASE r \in t .. t + size - 1
    <3>1. r \in K <=> r = t
      BY <1>2, <2>2
    <3>2. r \in Big(d) <=> r = t /\ n >= MINSIZE
      <4>1. r \in Big(d) => r \in {t, f, g} /\ r \in DOMAIN d.hdr /\ chunksize(d, r) >= MINSIZE
        BY <1>11, <2>2 DEF Big
      <4>2. r \in Big(d) => r = t /\ n >= MINSIZE
        BY <1>1, <1>12, <1>14, <4>1
      <4>3. n >= MINSIZE => t \in Big(d)
        BY <1>1, <1>12 DEF Big
      <4> QED
        BY <4>2, <4>3
    <3> QED
      BY <2>2, <3>1, <3>2
  <2> QED
    BY <2>1, <2>2
<1>18. /\ \A r \in On(a) : r \notin t .. t + size - 1
       /\ \A r \in DOMAIN a.hdr : r < t => r + chunksize(a, r) <= t
  BY <1>2 DEF Clear
<1>19. \A r \in DOMAIN d.hdr : r \in t .. t + size - 1 => Within(a, r, chunksize(d, r), e)
  BY <1>16
<1>20. size \in Nat \ {0} /\ t \in Nat \ {0}
  BY <1>1, <1>2
<1>22. ASSUME NEW k \in e.full, NEW r \in DOMAIN a.hdr, r \in t .. t + size - 1,
              k \in PagesOf(r, chunksize(a, r))
       PROVE  Covered(d, k)
  <2>1. k \in PagesOf(t, size)
    BY <1>2, <1>22, PiecePages
  <2>2. \/ n > 0 /\ k \in PagesOf(t, n)
        \/ k \in PagesOf(f, h)
        \/ k \in PagesOf(g, h)
    <3>1. t \in Nat /\ size \in Nat /\ h \in Nat \ {0} /\ f = t + n /\ g = t + n + h
      BY <1>1, <1>2, <1>14
    <3> QED
      BY <1>3, <2>1, <3>1, FencePages
  <2>3. n > 0 => chunksize(d, t) = n /\ t \in DOMAIN d.hdr
    BY <1>12
  <2> QED
    BY <1>12, <2>2, <2>3 DEF Covered
<1>21. Stock(d, M, e)
  BY <1>8, <1>9, <1>10, <1>13, <1>15, <1>17, <1>18, <1>19, <1>20, <1>22, Recut
<1> QED
  BY <1>4, <1>5, <1>7, <1>8, <1>9, <1>21

\* There is no chunk in the n words from p.
Vacant(a, p, n, e) == Clear(a, p, n, e) /\ \A r \in DOMAIN a.hdr : r \notin p .. p + n - 1

Moved(a, at, size) == set_head([a EXCEPT !.top = at], at, size, TRUE)

LEMMA MovedIs ==
  ASSUME NEW a \in Fit, NEW t, NEW s
  PROVE  Moved(a, t, s) = [set_head(a, t, s, TRUE) EXCEPT !.top = t]
<1> DEFINE yes == TRUE
<1>1. Moved(a, t, s) = set_head([a EXCEPT !.top = t], t, s, yes)
  BY DEF Moved
<1> HIDE DEF yes
<1>2. set_head([a EXCEPT !.top = t], t, s, yes) = [set_head(a, t, s, yes) EXCEPT !.top = t]
  BY HeadThenTop
<1> QED
  BY <1>1, <1>2 DEF yes

\* m is a with a chunk at a new top.
TopsAt(a, m, at, size) ==
  /\ m.top = at /\ at \in DOMAIN m.hdr /\ chunksize(m, at) = size
  /\ \A r \in DOMAIN a.hdr : chunksize(m, r) = chunksize(a, r)

\* A new top on memory that has no chunk yet; the old one, t, is still held.
LEMMA MovedOwned ==
  ASSUME NEW a \in Fit, NEW H, NEW e, Owned(a, H, e),
         NEW at \in Nat \ {0}, NEW size \in Nat, size >= MINSIZE, Vacant(a, at, size, e)
  PROVE  /\ Owned(Moved(a, at, size), H \cup Tops(a), e)
         /\ Moved(a, at, size) \in Fit /\ TopsAt(a, Moved(a, at, size), at, size)
<1> DEFINE K == H \cup Tops(a)
           yes == TRUE
           b == set_head(a, at, size, yes)
           m == [b EXCEPT !.top = at]
<1>1. Stock(a, K, e) /\ \A r \in K : r \in DOMAIN a.hdr
  BY StockChunks DEF Owned
<1>2. yes \in BOOLEAN /\ at \in Int /\ size \in Int
  OBVIOUS
<1>3. Moved(a, at, size) = m
  BY MovedIs
<1> HIDE DEF K, yes
<1>4. /\ b \in Fit /\ b.top = a.top /\ at \in DOMAIN b.hdr /\ chunksize(b, at) = size
      /\ \A r : r # at /\ r \notin at + 1 .. at + size - 1 => chunksize(b, r) = chunksize(a, r)
  <2>1. CutsAt(a, b, at, size)
    BY <1>2, HeadMakes
  <2> HIDE DEF b
  <2> QED
    BY <2>1 DEF CutsAt
<1>5. Stock(b, (K \ (at .. at + size - 1)) \cup {at}, e)
  BY <1>1, <1>2, OnePiece DEF Vacant
<1>6. at \in at .. at + size - 1 /\ \A r : r = at \/ r \in at + 1 .. at + size - 1 => r \in at .. at + size - 1
  <2>1. MINSIZE > 0 /\ MINSIZE \in Nat
    BY Sizes DEF Least
  <2> QED
    BY <2>1
<1>7. K \ (at .. at + size - 1) = K /\ at \notin K
  BY <1>1, <1>6 DEF Vacant
<1> DEFINE M == K \cup {at}
<1>8. Stock(b, M, e) /\ at \in M /\ M \ {at} = K
  BY <1>5, <1>7
<1> HIDE DEF M, b
<1>9. Owned(m, M \ {at}, e) /\ m \in Fit
  BY <1>4, <1>8, TopMovesTo
<1>10. m.top = at /\ m.hdr = b.hdr
  BY <1>4 DEF Fit, Arenas
<1>11. \A r \in DOMAIN a.hdr : chunksize(m, r) = chunksize(a, r)
  <2>1. \A r : chunksize(m, r) = chunksize(b, r)
    BY <1>10 DEF chunksize
  <2> QED
    BY <1>4, <1>6, <2>1 DEF Vacant
<1>12. at \in DOMAIN m.hdr /\ chunksize(m, at) = size
  BY <1>4, <1>10 DEF chunksize
<1> QED
  BY <1>3, <1>8, <1>9, <1>10, <1>11, <1>12 DEF K, TopsAt

\* More pages must be filled, and are.
LEMMA Fills ==
  ASSUME NEW a, NEW K, NEW e, NEW f, Stock(a, K, e),
         f.pages = e.pages, f.tcache = e.tcache, f.full \subseteq f.pages,
         \A k \in f.full : k \in e.full \/ Covered(a, k)
  PROVE  Stock(a, K, f)
  BY DEF Stock, Backed, Within

LEMMA NewTopOwned ==
  ASSUME NEW a \in Fit, NEW H, NEW d0, NEW e, Owned(a, H, d0), mp \in Params,
         a.top = av.top, a.hdr = av.hdr, a.top = NULL \/ old_end % PageSize = 0,
         NEW at \in Nat \ {0}, NEW size \in Nat, size >= MINSIZE, Vacant(a, at, size, d0),
         e.pages = d0.pages, e.tcache = d0.tcache, e.full \subseteq e.pages,
         e.full \subseteq d0.full \cup PagesOf(at, size),
         ~NewTop(a, at, size).died
  PROVE  Owned(NewTop(a, at, size), H, e) /\ NewTop(a, at, size) \in Fit
<1> DEFINE t == a.top
           m == Moved(a, at, size)
           n == ALIGN_DOWN(old_size - 2 * CHUNK_HDR_SZ, MALLOC_ALIGNMENT)
           d == Fenced(m, t, n)
<1>1. old_size = chunksize(a, t) /\ t \in Int
  BY FieldType DEF old_size, chunksize
<1>2. NewTop(a, at, size) =
        IF old_size = 0 THEN m ELSE IF n >= MINSIZE THEN _int_free(d, t, TRUE) ELSE d
  BY DEF NewTop, Fenced, Moved
<1> HIDE DEF m
<1>3. /\ Owned(m, H \cup Tops(a), e) /\ m \in Fit /\ m.top = at
      /\ \A r \in DOMAIN a.hdr : chunksize(m, r) = chunksize(a, r)
  <2>1. /\ Owned(Moved(a, at, size), H \cup Tops(a), d0)
        /\ Moved(a, at, size) \in Fit /\ TopsAt(a, Moved(a, at, size), at, size)
    BY MovedOwned
  <2> DEFINE L == (H \cup Tops(a)) \cup Tops(m)
  <2>2. Stock(m, L, d0) /\ m.top \notin H \cup Tops(a)
    BY <2>1 DEF Owned, m
  <2>3. \A k \in e.full : k \in d0.full \/ Covered(m, k)
    BY <2>1 DEF Covered, TopsAt, m
  <2> HIDE DEF L
  <2>4. Stock(m, L, e)
    BY <2>2, <2>3, Fills
  <2>5. Owned(m, H \cup Tops(a), e)
    BY <2>2, <2>4 DEF Owned, L
  <2> QED
    BY <2>1, <2>5 DEF TopsAt, m
<1>4. Stock(a, H \cup Tops(a), d0) /\ t \notin H
  BY DEF Owned
<1>5. t # NULL => t \in H \cup Tops(a) /\ old_size >= MINSIZE /\ t \in DOMAIN a.hdr
  <2>1. t # NULL => t \in H \cup Tops(a)
    BY DEF Tops
  <2> DEFINE K == H \cup Tops(a)
  <2> HIDE DEF K
  <2>2. Stock(a, K, d0) /\ (t # NULL => t \in K)
    BY <1>4, <2>1 DEF K
  <2>3. t # NULL => t \in DOMAIN a.hdr /\ chunksize(a, t) >= MINSIZE
    BY <2>2, ChunkIsClear
  <2> QED
    BY <1>1, <2>1, <2>3
<1>6. MINSIZE \in Nat /\ MINSIZE > 0 /\ MINSIZE >= 2 * CHUNK_HDR_SZ /\ CHUNK_HDR_SZ \in Nat \ {0}
      /\ MALLOC_ALIGNMENT \in Nat \ {0}
  BY Sizes DEF Least
<1> HIDE DEF m
<1>7. CASE t = NULL
  <2>1. old_size = 0
    <3>1. NULL \notin DOMAIN a.hdr
      BY <1>4, StockChunks DEF NULL
    <3> QED
      BY <1>1, <1>7, <3>1 DEF chunksize
  <2>2. H \cup Tops(a) = H
    BY <1>7 DEF Tops
  <2> QED
    BY <1>2, <1>3, <2>1, <2>2
<1>8. CASE t # NULL
  <2>1. old_size \in Int /\ old_size >= MINSIZE /\ t \in H \cup Tops(a) /\ chunksize(m, t) = old_size
    BY <1>1, <1>3, <1>5, <1>8, FitType
  <2>2. /\ n \in Nat /\ n + 2 * CHUNK_HDR_SZ <= chunksize(m, t) /\ old_size # 0
        /\ chunksize(m, t) < n + 2 * CHUNK_HDR_SZ + PageSize
    <3> DEFINE x == old_size - 2 * CHUNK_HDR_SZ
    <3>1. x \in Nat
      BY <1>6, <2>1
    <3> HIDE DEF x
    <3>2. n \in Nat /\ n <= x /\ x < n + MALLOC_ALIGNMENT
      <4>1. ALIGN_DOWN(x, MALLOC_ALIGNMENT) \in Nat /\ ALIGN_DOWN(x, MALLOC_ALIGNMENT) <= x
        BY <1>6, <3>1, AlignDown
      <4>2. x < ALIGN_DOWN(x, MALLOC_ALIGNMENT) + MALLOC_ALIGNMENT
        BY <1>6, <3>1 DEF ALIGN_DOWN
      <4> QED
        BY <4>1, <4>2 DEF x
    <3> HIDE DEF n
    <3> QED
      BY <1>6, <2>1, <3>1, <3>2, KernelAssumption, Sizes DEF x
  <2>3. NewTop(a, at, size) = IF n >= MINSIZE THEN _int_free(d, t, TRUE) ELSE d
    BY <1>2, <2>2
  <2> DEFINE K == (H \cup Tops(a)) \cup Tops(m)
             L == H \cup {x \in {t} : n >= MINSIZE}
             M == L \cup Tops(m)
  <2>4. Stock(m, K, e) /\ t \in K /\ m.top \notin H \cup Tops(a)
    BY <1>3, <2>1 DEF Owned
  <2>5. \A r : r \in M <=> r \in K /\ (r = t => n >= MINSIZE)
    <3>1. t \notin Tops(m)
      BY <2>1, <2>4 DEF Tops
    <3> QED
      BY <1>4, <1>8, <3>1 DEF Tops
  <2>6. Stock(d, M, e) /\ d \in Fit /\ d.top = m.top
    <3>1. m \in Fit /\ Stock(m, K, e) /\ t \in K
      BY <1>3, <2>4
    <3>2. /\ n \in Nat /\ n + 2 * CHUNK_HDR_SZ <= chunksize(m, t)
          /\ chunksize(m, t) < n + 2 * CHUNK_HDR_SZ + PageSize
      BY <2>2
    <3>3. (t + chunksize(m, t)) % PageSize = 0
      BY <1>8, <2>1 DEF old_end
    <3> HIDE DEF K, M, n, t
    <3> QED
      BY <2>5, <3>1, <3>2, <3>3, FencedStock
  <2>7. Owned(d, L, e)
    <3>1. m.top \notin L
      BY <2>1, <2>4
    <3> QED
      BY <2>6, <3>1 DEF Owned, Tops
  <2> HIDE DEF d
  <2>8. CASE n >= MINSIZE
    <3>1. t \in L /\ L \ {t} = H
      BY <1>4, <2>8
    <3> HIDE DEF L
    <3>2. ~_int_free(d, t, TRUE).died
      BY <2>3, <2>8
    <3>3. Owned(_int_free(d, t, TRUE), L \ {t}, e) /\ _int_free(d, t, TRUE) \in Fit
      BY <2>6, <2>7, <3>1, <3>2, IntFreeOwned
    <3> QED
      BY <2>3, <2>8, <3>1, <3>3
  <2>9. CASE ~(n >= MINSIZE)
    <3>1. L = H
      BY <2>9
    <3> QED
      BY <2>3, <2>6, <2>7, <2>9, <3>1
  <2> QED
    BY <2>8, <2>9
<1> QED
  BY <1>7, <1>8

-----------------------------------------------------------------------------
(* Taking a run of chunks off a list while some of them go to the tcache *)

Relisted(a, fs, bs) == [a EXCEPT !.fast = fs, !.bins = bs]

LEMMA RelistedIs ==
  ASSUME NEW a \in Fit, NEW fs \in Fasts, NEW bs \in Bins
  PROVE  /\ Relisted(a, fs, bs) \in Fit
         /\ Relisted(a, fs, bs).fast = fs /\ Relisted(a, fs, bs).bins = bs
         /\ Relisted(a, fs, bs).cached = a.cached /\ Relisted(a, fs, bs).hdr = a.hdr
         /\ Relisted(a, fs, bs).brk = a.brk /\ Relisted(a, fs, bs).tcache = a.tcache
         /\ Relisted(a, fs, bs).top = a.top /\ Relisted(a, fs, bs).died = a.died
         /\ SameHeap(a, Relisted(a, fs, bs))
         /\ \A p : chunksize(Relisted(a, fs, bs), p) = chunksize(a, p)
<1>1. Relisted(a, fs, bs) \in Fit
  BY DEF Relisted, Fit, Arenas, FeetFine
<1>2. /\ Relisted(a, fs, bs).fast = fs /\ Relisted(a, fs, bs).bins = bs
      /\ Relisted(a, fs, bs).cached = a.cached /\ Relisted(a, fs, bs).hdr = a.hdr
      /\ Relisted(a, fs, bs).brk = a.brk /\ Relisted(a, fs, bs).tcache = a.tcache
      /\ Relisted(a, fs, bs).top = a.top /\ Relisted(a, fs, bs).died = a.died
  BY DEF Relisted, Fit, Arenas
<1>3. SameHeap(a, Relisted(a, fs, bs))
  BY <1>2, Same
<1> QED
  BY <1>1, <1>2, <1>3 DEF SameHeap

LEMMA RelistedPut ==
  ASSUME NEW a \in Fit, NEW fs, NEW bs, NEW p, NEW sz
  PROVE  tcache_put(Relisted(a, fs, bs), p, sz) = Relisted(tcache_put(a, p, sz), fs, bs)
<1> DEFINE x == [a.cached EXCEPT ![csize2tidx(sz)] = <<p>> \o a.cached[csize2tidx(sz)]]
<1>1. tcache_put(a, p, sz) = [a EXCEPT !.cached = x]
  BY DEF tcache_put, Fit, Arenas
<1>2. tcache_put(Relisted(a, fs, bs), p, sz) = [[a EXCEPT !.fast = fs, !.bins = bs] EXCEPT !.cached = x]
  BY DEF Relisted, tcache_put, Fit, Arenas
<1> HIDE DEF x
<1>3. [[a EXCEPT !.fast = fs, !.bins = bs] EXCEPT !.cached = x]
        = [[a EXCEPT !.cached = x] EXCEPT !.fast = fs, !.bins = bs]
  BY DEF Fit, Arenas
<1> QED
  BY <1>1, <1>2, <1>3 DEF Relisted

LEMMA RelistedUse ==
  ASSUME NEW a \in Fit, NEW fs, NEW bs, NEW p
  PROVE  set_inuse_bit(Relisted(a, fs, bs), p) = Relisted(set_inuse_bit(a, p), fs, bs)
<1> DEFINE x == [a.hdr EXCEPT ![p].pin = TRUE]
           y == Without(a.foot, {p})
<1>1. set_inuse_bit(a, p) = [a EXCEPT !.hdr = x, !.foot = y]
  BY DEF set_inuse_bit, Fit, Arenas
<1>2. set_inuse_bit(Relisted(a, fs, bs), p)
        = [[a EXCEPT !.fast = fs, !.bins = bs] EXCEPT !.hdr = x, !.foot = y]
  BY DEF Relisted, set_inuse_bit, Fit, Arenas
<1> HIDE DEF x, y
<1>3. [[a EXCEPT !.fast = fs, !.bins = bs] EXCEPT !.hdr = x, !.foot = y]
        = [[a EXCEPT !.hdr = x, !.foot = y] EXCEPT !.fast = fs, !.bins = bs]
  BY DEF Fit, Arenas
<1> QED
  BY <1>1, <1>2, <1>3 DEF Relisted

\* What the tcache is given changes nothing else.
OnlyCached(a, b) ==
  /\ b.hdr = a.hdr /\ b.fast = a.fast /\ b.bins = a.bins /\ b.top = a.top
  /\ b.brk = a.brk /\ b.tcache = a.tcache /\ b.died = a.died

LEMMA CachedStock ==
  ASSUME NEW base \in Fit, NEW fs \in Fasts, NEW bs \in Bins, NEW H, NEW e,
         NEW s \in Seq(Int), Distinct(s),
         Stock(Relisted(base, fs, bs), H \cup ToSet(s), e), \A x \in ToSet(s) : x \notin H,
         NEW sz \in Nat, sz >= MINSIZE, aligned_OK(sz),
         s # <<>> => csize2tidx(sz) < TCACHE_BINS,
         \A x \in ToSet(s) : chunksize(base, x) >= sz
  PROVE  /\ AllCached(base, s, sz) \in Fit /\ OnlyCached(base, AllCached(base, s, sz))
         /\ Stock(Relisted(AllCached(base, s, sz), fs, bs), H, e)
<1>0. PICK g : CachedRun(g, base, s, sz)
  BY AllCachedRuns
<1>1. /\ g[0] = base /\ AllCached(base, s, sz) = g[Len(s)]
      /\ \A k \in 0 .. Len(s) : g[k] \in Fit
      /\ \A k \in 1 .. Len(s) : g[k] = tcache_put(g[k - 1], s[k], sz)
  BY <1>0 DEF CachedRun
<1>2. Len(s) \in Nat /\ DOMAIN s = 1 .. Len(s) /\ \A i \in 1 .. Len(s) : s[i] \in Int
  OBVIOUS
<1> DEFINE Left(k) == H \cup {s[j] : j \in k + 1 .. Len(s)}
           R == {k \in Nat : k <= Len(s) => /\ Stock(Relisted(g[k], fs, bs), Left(k), e)
                                            /\ OnlyCached(base, g[k])}
<1>3. 0 \in R
  <2>1. Left(0) = H \cup ToSet(s)
    BY <1>2 DEF ToSet
  <2>2. OnlyCached(base, g[0])
    BY <1>1 DEF OnlyCached
  <2> HIDE DEF Left
  <2> QED
    BY <1>1, <2>1, <2>2
<1>4. ASSUME NEW k \in Nat, k \in R PROVE k + 1 \in R
  <2> SUFFICES ASSUME k + 1 <= Len(s)
               PROVE  Stock(Relisted(g[k + 1], fs, bs), Left(k + 1), e) /\ OnlyCached(base, g[k + 1])
    OBVIOUS
  <2>1. /\ k + 1 \in 1 .. Len(s) /\ (k + 1) - 1 = k /\ k \in 0 .. Len(s) /\ s # <<>>
        /\ Stock(Relisted(g[k], fs, bs), Left(k), e) /\ OnlyCached(base, g[k])
    BY <1>2, <1>4
  <2>2. /\ g[k + 1] = tcache_put(g[k], s[k + 1], sz) /\ s[k + 1] \in Int /\ g[k] \in Fit
        /\ s[k + 1] \in ToSet(s)
    BY <1>1, <1>2, <2>1 DEF ToSet
  <2>4. s[k + 1] \in Left(k)
    BY <2>1
  <2>5. Left(k) \ {s[k + 1]} = Left(k + 1)
    <3>1. s[k + 1] \notin H
      BY <2>2
    <3>2. ASSUME NEW j \in k + 2 .. Len(s) PROVE s[j] # s[k + 1]
      <4>1. j \in DOMAIN s /\ k + 1 \in DOMAIN s /\ j # k + 1
        BY <1>2, <2>1
      <4> QED
        BY <4>1 DEF Distinct
    <3>3. k + 1 .. Len(s) = {k + 1} \cup (k + 2 .. Len(s)) /\ (k + 1) + 1 = k + 2
      BY <1>2, <2>1
    <3> QED
      BY <3>1, <3>2, <3>3
  <2> DEFINE b == Relisted(g[k], fs, bs)
             x == s[k + 1]
  <2>6. b \in Fit /\ chunksize(b, x) >= sz
    <3>1. b \in Fit /\ chunksize(b, x) = chunksize(g[k], x)
      BY <2>2, RelistedIs
    <3>2. chunksize(g[k], x) = chunksize(base, x)
      BY <2>1 DEF OnlyCached, chunksize
    <3> QED
      BY <2>2, <3>1, <3>2
  <2>7. Relisted(g[k + 1], fs, bs) = tcache_put(b, x, sz)
    BY <2>2, RelistedPut
  <2>8. OnlyCached(base, g[k + 1])
    <3>1. OnlyCached(g[k], tcache_put(g[k], s[k + 1], sz))
      BY <2>2 DEF OnlyCached, tcache_put, Fit, Arenas
    <3> QED
      BY <2>1, <2>2, <3>1 DEF OnlyCached
  <2> DEFINE M == Left(k)
  <2>9. Stock(b, M, e) /\ x \in M /\ csize2tidx(sz) < TCACHE_BINS /\ M \ {x} = Left(k + 1)
    BY <2>1, <2>4, <2>5
  <2> HIDE DEF Left, M, b, x
  <2>10. Stock(tcache_put(b, x, sz), M \ {x}, e)
    BY <2>6, <2>9, TcachePutStock
  <2> QED
    BY <2>7, <2>8, <2>9, <2>10
<1>5. Stock(Relisted(g[Len(s)], fs, bs), Left(Len(s)), e) /\ OnlyCached(base, g[Len(s)])
  <2> HIDE DEF R
  <2>1. Nat \subseteq R
    BY <1>3, <1>4, SetInduction
  <2> USE DEF R
  <2> HIDE DEF Left
  <2> QED
    BY <1>2, <2>1
<1>6. Left(Len(s)) = H
  BY <1>2
<1> HIDE DEF Left, R
<1> QED
  BY <1>1, <1>2, <1>5, <1>6

\* What a run of marks changes.
OnlyMarked(a, b) == SameHeap(a, b) /\ Aside(a, b) /\ b.top = a.top

LEMMA UsedStock ==
  ASSUME NEW base \in Fit, NEW fs \in Fasts, NEW bs \in Bins, NEW H, NEW e,
         NEW s \in Seq(Int), Stock(Relisted(base, fs, bs), H, e), NEW nb \in Int
  PROVE  /\ AllUsed(base, s, nb) \in Fit /\ OnlyMarked(base, AllUsed(base, s, nb))
         /\ Stock(Relisted(AllUsed(base, s, nb), fs, bs), H, e)
<1>0. PICK g : UsedRun(g, base, s, nb)
  BY AllUsedRuns
<1>1. /\ g[0] = base /\ AllUsed(base, s, nb) = g[Len(s)]
      /\ \A k \in 0 .. Len(s) : g[k] \in Fit
      /\ \A k \in 1 .. Len(s) : g[k] = set_inuse_bit(g[k - 1], s[k] + nb)
  BY <1>0 DEF UsedRun
<1>2. Len(s) \in Nat
  OBVIOUS
<1> DEFINE R == {k \in Nat : k <= Len(s) => Stock(Relisted(g[k], fs, bs), H, e) /\ OnlyMarked(base, g[k])}
<1>3. 0 \in R
  <2>2. OnlyMarked(base, g[0])
    BY <1>1 DEF OnlyMarked, SameHeap, Aside
  <2> QED
    BY <1>1, <2>2
<1>4. ASSUME NEW k \in Nat, k \in R PROVE k + 1 \in R
  <2> SUFFICES ASSUME k + 1 <= Len(s)
               PROVE  Stock(Relisted(g[k + 1], fs, bs), H, e) /\ OnlyMarked(base, g[k + 1])
    OBVIOUS
  <2>1. /\ k + 1 \in 1 .. Len(s) /\ (k + 1) - 1 = k /\ k \in 0 .. Len(s)
        /\ Stock(Relisted(g[k], fs, bs), H, e) /\ OnlyMarked(base, g[k])
    BY <1>2, <1>4
  <2> DEFINE b == Relisted(g[k], fs, bs)
             x == s[k + 1] + nb
  <2>2. g[k + 1] = set_inuse_bit(g[k], x) /\ g[k] \in Fit
    BY <1>1, <2>1
  <2>6. b \in Fit
    BY <2>2, RelistedIs
  <2> HIDE DEF x
  <2>7. Relisted(g[k + 1], fs, bs) = set_inuse_bit(b, x)
    BY <2>2, RelistedUse
  <2>8. OnlyMarked(base, g[k + 1])
    <3>1. OnlyMarked(g[k], set_inuse_bit(g[k], x))
      BY <2>2, PinsStay DEF OnlyMarked
    <3> QED
      BY <2>1, <2>2, <3>1 DEF OnlyMarked, SameHeap, Aside
  <2> HIDE DEF b
  <2>9. SameHeap(b, set_inuse_bit(b, x)) /\ Aside(b, set_inuse_bit(b, x))
    BY <2>6, PinsStay
  <2>10. Stock(b, H, e)
    BY <2>1 DEF b
  <2> QED
    BY <2>7, <2>8, <2>9, <2>10, Stays
<1>5. Stock(Relisted(g[Len(s)], fs, bs), H, e) /\ OnlyMarked(base, g[Len(s)])
  <2> HIDE DEF R
  <2>1. Nat \subseteq R
    BY <1>3, <1>4, SetInduction
  <2> USE DEF R
  <2> QED
    BY <1>2, <2>1
<1> QED
  BY <1>1, <1>2, <1>5

\* Where a chunk of nb words, a multiple of the alignment, is looked for, the chunks
\* have at least nb words.
LEMMA FastHolds ==
  ASSUME NEW nb \in Nat, aligned_OK(nb), NEW s \in Int, fastbin_index(s) = fastbin_index(nb)
  PROVE  s >= nb
<1> DEFINE h == CHUNK_HDR_SZ
<1>1. h \in Nat \ {0} /\ MALLOC_ALIGNMENT = h
  BY Sizes, ArenaAssumption
<1>2. s \div h - 2 = nb \div h - 2
  BY DEF fastbin_index
<1> HIDE DEF h
<1>3. nb % h = 0
  BY <1>1 DEF aligned_OK
<1>4. nb = h * (nb \div h) /\ nb \div h \in Nat
  BY <1>1, <1>3, Division
<1>5. s \div h \in Int
  BY <1>1
<1>6. s \div h = nb \div h
  BY <1>2, <1>4, <1>5
<1>7. s >= h * (s \div h)
  BY <1>1
<1> QED
  BY <1>4, <1>6, <1>7

LEMMA SmallHolds ==
  ASSUME NEW nb \in Nat, aligned_OK(nb), in_smallbin_range(nb),
         NEW s \in Nat, bin_index(s) = bin_index(nb)
  PROVE  s >= nb
<1> DEFINE h == MALLOC_ALIGNMENT
<1>1. h \in Nat \ {0}
  BY Sizes
<1>2. CASE in_smallbin_range(s)
  <2>1. s \div h + SMALLBIN_CORRECTION = nb \div h + SMALLBIN_CORRECTION
    BY <1>2, SmallIndex
  <2> HIDE DEF h
  <2>2. nb % h = 0
    BY DEF aligned_OK, h
  <2>3. nb = h * (nb \div h) /\ nb \div h \in Nat
    <3>1. nb = h * (nb \div h) + (nb % h) /\ nb \div h \in Nat
      BY <1>1, Division
    <3> QED
      BY <1>1, <2>2, <3>1
  <2>4. s \div h \in Nat /\ s = h * (s \div h) + (s % h) /\ s % h \in 0 .. h - 1
    BY <1>1, Division
  <2>5. s \div h = nb \div h
    BY <2>1, <2>3, <2>4, Layout
  <2> QED
    BY <1>1, <2>3, <2>4, <2>5
<1>3. CASE ~in_smallbin_range(s)
  <2>1. MIN_LARGE_SIZE \in Nat
    BY SmallShape
  <2> QED
    BY <1>3, <2>1 DEF in_smallbin_range
<1> QED
  BY <1>2, <1>3

\* The first n of s: its head, and the others.
LEMMA RunParts ==
  ASSUME NEW s \in Seq(Int), Distinct(s), NEW n \in 1 .. Len(s)
  PROVE  /\ SubSeq(s, 2, n) \in Seq(Int) /\ Distinct(SubSeq(s, 2, n))
         /\ {s[j] : j \in 1 .. n} = {s[1]} \cup ToSet(SubSeq(s, 2, n))
         /\ s[1] \notin ToSet(SubSeq(s, 2, n)) /\ s[1] \in Int
         /\ SubSeq(s, 2, n) # <<>> => n > 1
<1> DEFINE t == SubSeq(s, 2, n)
<1>0. Len(s) \in Nat /\ DOMAIN s = 1 .. Len(s) /\ n \in Nat
  OBVIOUS
<1>1. t \in Seq(Int) /\ Len(t) = n - 1
  BY <1>0
<1>2. DOMAIN t = 1 .. n - 1 /\ \A i \in 1 .. n - 1 : t[i] = s[i + 1]
  BY <1>0
<1> HIDE DEF t
<1>3. ToSet(t) = {s[j] : j \in 2 .. n}
  <2>1. ToSet(t) = {t[i] : i \in 1 .. n - 1}
    BY <1>2 DEF ToSet
  <2>2. \A i \in 1 .. n - 1 : i + 1 \in 2 .. n
    BY <1>0
  <2>3. \A j \in 2 .. n : j - 1 \in 1 .. n - 1 /\ t[j - 1] = s[j]
    BY <1>0, <1>2
  <2>4. ASSUME NEW i \in 1 .. n - 1 PROVE t[i] \in {s[j] : j \in 2 .. n}
    BY <1>2, <2>2
  <2>5. ASSUME NEW j \in 2 .. n PROVE s[j] \in {t[i] : i \in 1 .. n - 1}
    BY <2>3
  <2> QED
    BY <2>1, <2>4, <2>5
<1>4. Distinct(t)
  <2> SUFFICES ASSUME NEW i \in 1 .. n - 1, NEW j \in 1 .. n - 1, t[i] = t[j]
               PROVE  i = j
    BY <1>2 DEF Distinct
  <2>1. i + 1 \in DOMAIN s /\ j + 1 \in DOMAIN s /\ s[i + 1] = s[j + 1]
    BY <1>0, <1>2
  <2>2. i + 1 = j + 1
    BY <2>1 DEF Distinct
  <2> QED
    BY <1>0, <2>2
<1>5. s[1] \notin ToSet(t)
  <2>1. ASSUME NEW j \in 2 .. n PROVE s[j] # s[1]
    <3>1. j \in DOMAIN s /\ 1 \in DOMAIN s /\ j # 1
      BY <1>0
    <3> QED
      BY <3>1 DEF Distinct
  <2> QED
    BY <1>3, <2>1
<1>6. 1 .. n = {1} \cup (2 .. n)
  BY <1>0
<1>7. t # <<>> => n > 1
  BY <1>0, <1>1
<1> QED
  BY <1>0, <1>1, <1>3, <1>4, <1>5, <1>6, <1>7 DEF t

\* The first of the list s, with the ones that go to the tcache, has been taken
\* off; it is held, and the others are in the tcache.
LEMMA StashStock ==
  ASSUME av \in Fit, NEW K, NEW e, NEW fs \in Fasts, NEW bs \in Bins,
         NEW s \in Seq(Int), s # <<>>, Distinct(s),
         call.nb \in Nat, call.nb >= MINSIZE, aligned_OK(call.nb),
         Stock(Relisted(av, fs, bs), K \cup {s[j] : j \in 1 .. Taken(s)}, e),
         \A j \in 1 .. Taken(s) : s[j] \notin K /\ chunksize(av, s[j]) >= call.nb
  PROVE  /\ Stash(av, s) \in Fit /\ OnlyCached(av, Stash(av, s))
         /\ Stock(Relisted(Stash(av, s), fs, bs), K \cup {s[1]}, e)
         /\ Taken(s) \in 1 .. Len(s)
<1> DEFINE k == Min({Room(call.nb), Len(s) - 1})
           n == Taken(s)
           t == SubSeq(s, 2, n)
           H == K \cup {s[1]}
<1>1. Len(s) - 1 \in Nat /\ Len(s) \in Nat
  OBVIOUS
<1>2. k \in Nat /\ k <= Len(s) - 1 /\ k <= Room(call.nb)
  BY <1>1, RoomType, PairMin
<1>3. n = 1 + k
  BY DEF Taken
<1>4. Stash(av, s) = AllCached(av, t, call.nb)
  BY <1>3 DEF Stash, AllCached
<1> HIDE DEF k, n
<1>5. n \in 1 .. Len(s)
  BY <1>1, <1>2, <1>3
<1>6. /\ t \in Seq(Int) /\ Distinct(t)
      /\ {s[j] : j \in 1 .. n} = {s[1]} \cup ToSet(t)
      /\ s[1] \notin ToSet(t)
      /\ t # <<>> => n > 1
  BY <1>5, RunParts
<1>7. t # <<>> => csize2tidx(call.nb) < TCACHE_BINS
  <2>1. t # <<>> => Room(call.nb) > 0
    BY <1>2, <1>3, <1>6, RoomType
  <2> QED
    BY <2>1 DEF Room, CacheRoom
<1>8. \A x \in ToSet(t) : x \notin H /\ chunksize(av, x) >= call.nb
  <2>1. \A x \in ToSet(t) : x \in {s[j] : j \in 1 .. n} /\ x # s[1]
    BY <1>6
  <2>2. \A x \in {s[j] : j \in 1 .. n} : x \notin K /\ chunksize(av, x) >= call.nb
    BY DEF n
  <2> QED
    BY <2>1, <2>2
<1>9. Stock(Relisted(av, fs, bs), H \cup ToSet(t), e)
  <2>1. K \cup {s[j] : j \in 1 .. n} = H \cup ToSet(t)
    BY <1>6
  <2>2. Stock(Relisted(av, fs, bs), K \cup {s[j] : j \in 1 .. n}, e)
    BY DEF n
  <2> QED
    BY <2>1, <2>2
<1> DEFINE nb == call.nb
<1>10. nb \in Nat /\ nb >= MINSIZE /\ aligned_OK(nb)
  OBVIOUS
<1> HIDE DEF t, H, nb
<1>11. /\ AllCached(av, t, nb) \in Fit /\ OnlyCached(av, AllCached(av, t, nb))
       /\ Stock(Relisted(AllCached(av, t, nb), fs, bs), H, e)
  <2>1. /\ \A x \in ToSet(t) : x \notin H
        /\ \A x \in ToSet(t) : chunksize(av, x) >= nb
        /\ t # <<>> => csize2tidx(nb) < TCACHE_BINS
    BY <1>7, <1>8 DEF nb
  <2> QED
    BY <1>6, <1>9, <1>10, <2>1, CachedStock
<1> QED
  BY <1>4, <1>5, <1>11 DEF nb, H, n

\* X: the chunks of list l of a that are not the ones from from to to.
CutOff(a, l, from, to, X) ==
  /\ to <= Len(Shelves(a)[l])
  /\ \A x : x \in X <=> \E i \in DOMAIN Shelves(a)[l] :
                           (i < from \/ i > to) /\ x = Shelves(a)[l][i]

\* What is cut off a list, but for the ones from from to to, is held.
LEMMA TakeRun ==
  ASSUME NEW a \in Fit, NEW K, NEW e, Stock(a, K, e), NEW l \in Places,
         NEW fs \in Fasts, NEW bs \in Bins, NEW from \in Nat \ {0}, NEW to \in Nat,
         NEW X, CutOff(a, l, from, to, X),
         Shelves(Relisted(a, fs, bs))
           = [Shelves(a) EXCEPT ![l] = SubSeq(Shelves(a)[l], from, to)]
  PROVE  /\ Stock(Relisted(a, fs, bs), K \cup X, e)
         /\ \A x \in X : x \notin K /\ Suits(l, chunksize(a, x))
<1> DEFINE b == Relisted(a, fs, bs)
           L == Shelves(a)
           s == SubSeq(L[l], from, to)
<1>1. L \in [Places -> Seq(Int)] /\ Once(L)
  BY ShelvesType DEF Stock
<1>2. b \in Fit /\ SameHeap(a, b)
  BY RelistedIs
<1>3. Shelves(b) = [L EXCEPT ![l] = s]
  OBVIOUS
<1>4. /\ Once([L EXCEPT ![l] = s])
      /\ \A x : x \in Members([L EXCEPT ![l] = s])
                  <=> x \in Members(L) /\ \A i \in DOMAIN L[l] :
                        i < from \/ i > to => x # L[l][i]
  <2> HIDE DEF L
  <2>1. to <= Len(L[l])
    BY DEF L, CutOff
  <2> HIDE DEF b
  <2> QED
    BY <1>1, <2>1, Trimmed
<1>5. \A x : x \in On(b) <=> x \in On(a) /\ x \notin X
  <2>1. \A x : x \in On(b) <=> x \in On(a) /\ \A i \in DOMAIN L[l] :
                        i < from \/ i > to => x # L[l][i]
    BY <1>3, <1>4 DEF On
  <2> QED
    BY <2>1 DEF CutOff
<1>6. \A x \in X : x \in On(a) /\ x \in ToSet(L[l])
  <2>1. DOMAIN L = Places
    BY <1>1
  <2> QED
    BY <2>1 DEF On, Members, ToSet, CutOff
<1> HIDE DEF b, L, s
<1>7. Once(Shelves(b)) /\ Shelves(b) = [Shelves(a) EXCEPT ![l] = s]
  BY <1>3, <1>4 DEF L
<1>8. Stock(b, K \cup X, e)
  <2>1. \A y \in X : y \in On(a)
    BY <1>6
  <2> QED
    BY <1>2, <1>5, <1>7, <2>1, TakenFrom
<1>9. \A x \in X : x \notin K /\ Suits(l, chunksize(a, x))
  BY <1>6 DEF Stock, AllSuit, L
<1> QED
  BY <1>8, <1>9 DEF b

\* A list has no chunk twice.
LEMMA ListDistinct ==
  ASSUME NEW a \in Fit, NEW K, NEW e, Stock(a, K, e), NEW l \in Places
  PROVE  Distinct(Shelves(a)[l])
<1>1. DOMAIN Shelves(a) = Places
  BY ShelvesType
<1> QED
  BY <1>1 DEF Stock, Once, Distinct

\* What the fast bin i, the list s, is left with.
FastTaken(i, s, ok) ==
  [Checked(Stash(av, s), ok) EXCEPT !.fast[i] = SubSeq(@, Taken(s) + 1, Len(@))]
TakesFast(i, s, a) == ~a.died /\ (a = FastTaken(i, s, TRUE) \/ a = FastTaken(i, s, FALSE))

\* What malloc does with the fast bin it takes a chunk from.
LEMMA FastServed ==
  ASSUME av \in Fit, NEW K, NEW e, Stock(av, K, e),
         call.nb \in Nat, call.nb >= MINSIZE, aligned_OK(call.nb),
         NEW i \in FastIdx, i = fastbin_index(call.nb),
         NEW s, s = av.fast[i], s # <<>>, NEW a, TakesFast(i, s, a)
  PROVE  /\ Stock(a, K \cup {s[1]}, e) /\ s[1] \notin K /\ a.top = av.top
         /\ chunksize(a, s[1]) >= call.nb
<1> DEFINE n == Taken(s)
           c == Stash(av, s)
           rest == SubSeq(s, n + 1, Len(s))
           fs == [av.fast EXCEPT ![i] = rest]
           bs == av.bins
           l == <<"fast", i>>
           X == {s[j] : j \in 1 .. n}
<1>1. s \in Seq(Int) /\ av.fast \in Fasts /\ bs \in Bins
  BY FieldType DEF Fasts
<1>2. n \in 1 .. Len(s) /\ Len(s) \in Nat /\ DOMAIN s = 1 .. Len(s)
  BY <1>1, StashSafe
<1> HIDE DEF n
<1>3. rest \in Seq(Int)
  <2>1. n + 1 \in Nat \ {0} /\ Len(s) \in Int /\ Len(s) <= Len(s)
    BY <1>2
  <2> QED
    BY <1>1, <2>1, SubSeqType
<1>4. fs \in Fasts
  BY <1>1, <1>3 DEF Fasts
<1>5. l \in Places /\ Shelves(av)[l] = s /\ Distinct(s)
  <2>1. l \in Places /\ Shelves(av)[l] = s
    BY PlaceKinds, ShelfOf
  <2> HIDE DEF l
  <2>2. Distinct(Shelves(av)[l])
    BY <2>1, ListDistinct
  <2> QED
    BY <2>1, <2>2
<1> DEFINE b == Relisted(av, fs, bs)
           from == n + 1
           to == Len(s)
<1> HIDE DEF bs, fs
<1>6. Shelves(b) = [Shelves(av) EXCEPT ![l] = rest]
  <2>1. b.fast = [av.fast EXCEPT ![i] = rest] /\ b.bins = av.bins /\ b.cached = av.cached
    BY <1>1, <1>4, RelistedIs DEF fs, bs
  <2> HIDE DEF rest, b
  <2> QED
    BY <2>1, FastShelf, SMTT(30)
<1>7. from \in Nat \ {0} /\ to \in Nat /\ to <= Len(Shelves(av)[l])
  BY <1>2, <1>5
<1>8. Shelves(b) = [Shelves(av) EXCEPT ![l] = SubSeq(Shelves(av)[l], from, to)]
  BY <1>5, <1>6
<1>9. CutOff(av, l, from, to, X)
 <2>0. \A x : x \in X <=> \E j \in DOMAIN Shelves(av)[l] :
                              (j < from \/ j > to) /\ x = Shelves(av)[l][j]
    <3>1. \A j \in 1 .. Len(s) : j \in 1 .. n <=> (j < from \/ j > to)
      BY <1>2
    <3>2. \A j \in 1 .. n : j \in 1 .. Len(s)
      BY <1>2
    <3> HIDE DEF from, to
    <3> QED
      BY <1>2, <1>5, <3>1, <3>2
  <2> QED
    BY <1>7, <2>0 DEF CutOff
<1> HIDE DEF l, from, to, X
<1>10. /\ Stock(b, K \cup X, e)
       /\ \A x \in X : x \notin K /\ Suits(l, chunksize(av, x))
  BY <1>1, <1>4, <1>5, <1>7, <1>8, <1>9, TakeRun
<1>11. \A j \in 1 .. n : s[j] \notin K /\ chunksize(av, s[j]) >= call.nb
  <2> SUFFICES ASSUME NEW j \in 1 .. n PROVE s[j] \notin K /\ chunksize(av, s[j]) >= call.nb
    OBVIOUS
  <2>1. s[j] \in X
    BY DEF X
  <2>2. Suits(l, chunksize(av, s[j])) /\ s[j] \notin K /\ chunksize(av, s[j]) \in Int
    BY <1>10, <2>1, SizeIs
  <2>3. fastbin_index(chunksize(av, s[j])) = fastbin_index(call.nb)
    BY <2>2 DEF Suits, l
  <2> QED
    BY <2>2, <2>3, FastHolds
<1>12. /\ c \in Fit /\ OnlyCached(av, c) /\ Stock(Relisted(c, fs, bs), K \cup {s[1]}, e)
  <2>1. Stock(Relisted(av, fs, bs), K \cup {s[j] : j \in 1 .. Taken(s)}, e)
    BY <1>10 DEF X, n, b
  <2>2. \A j \in 1 .. Taken(s) : s[j] \notin K /\ chunksize(av, s[j]) >= call.nb
    BY <1>11 DEF n
  <2> QED
    BY <1>1, <1>4, <1>5, <2>1, <2>2, StashStock
<1> HIDE DEF c
<1>13. a = FastTaken(i, s, TRUE)
  <2>1. ASSUME a = FastTaken(i, s, FALSE) PROVE FALSE
    <3>1. a.died = Checked(c, FALSE).died
      BY <1>12, <2>1 DEF c, FastTaken, Checked, Fit, Arenas
    <3> QED
      BY <1>12, <3>1 DEF Checked, Fit, Arenas, TakesFast
  <2> QED
    BY <2>1 DEF TakesFast
<1>14. a = Relisted(c, fs, bs)
  <2>1. a = [c EXCEPT !.fast[i] = SubSeq(@, n + 1, Len(@))]
    BY <1>13 DEF FastTaken, Checked, c, n
  <2>2. c.fast = av.fast /\ c.bins = av.bins
    BY <1>12 DEF OnlyCached
  <2>3. a = [c EXCEPT !.fast = fs]
    BY <1>12, <2>1, <2>2 DEF fs, Fit, Arenas
  <2>4. [c EXCEPT !.fast = fs] = [c EXCEPT !.fast = fs, !.bins = c.bins]
    BY <1>12 DEF Fit, Arenas
  <2> QED
    BY <2>2, <2>3, <2>4, SMTT(30) DEF Relisted, bs
<1>15. a.top = av.top /\ chunksize(a, s[1]) = chunksize(av, s[1])
  <2>1. a.top = c.top /\ a.hdr = c.hdr
    BY <1>1, <1>4, <1>12, <1>14, RelistedIs
  <2> QED
    BY <1>12, <2>1 DEF OnlyCached, chunksize
<1>16. 1 \in 1 .. n
  BY <1>2
<1> QED
  BY <1>11, <1>12, <1>14, <1>15, <1>16

LEMMA Reversed ==
  ASSUME NEW q \in Seq(Int), Distinct(q), NEW s, s = Reverse(q)
  PROVE  /\ s \in Seq(Int) /\ Len(s) = Len(q) /\ Distinct(s)
         /\ DOMAIN s = 1 .. Len(q) /\ \A j \in 1 .. Len(q) : s[j] = q[Len(q) - j + 1]
<1>1. s = [i \in 1 .. Len(q) |-> q[Len(q) - i + 1]]
  BY DEF Reverse
<1>2. Len(q) \in Nat /\ DOMAIN q = 1 .. Len(q)
  OBVIOUS
<1>3. \A i \in 1 .. Len(q) : Len(q) - i + 1 \in 1 .. Len(q)
  BY <1>2
<1>4. s \in Seq(Int) /\ Len(s) = Len(q) /\ DOMAIN s = 1 .. Len(q)
  BY <1>1, <1>2, <1>3
<1>5. \A j \in 1 .. Len(q) : s[j] = q[Len(q) - j + 1]
  BY <1>1
<1>6. Distinct(s)
  <2> SUFFICES ASSUME NEW i \in 1 .. Len(q), NEW j \in 1 .. Len(q), s[i] = s[j]
               PROVE  i = j
    BY <1>4 DEF Distinct
  <2>1. q[Len(q) - i + 1] = q[Len(q) - j + 1]
    BY <1>5
  <2>2. Len(q) - i + 1 = Len(q) - j + 1
    BY <1>2, <1>3, <2>1 DEF Distinct
  <2> QED
    BY <1>2, <2>2
<1> QED
  BY <1>4, <1>5, <1>6

\* What the small bin i, whose chunks are s from the last to the first, is left with.
SmallTaken(i, s) ==
  [AllUsed(Stash(av, s), SubSeq(s, 1, Taken(s)), call.nb)
     EXCEPT !.bins[i] = SubSeq(av.bins[i], 1, Len(s) - Taken(s))]

\* What malloc does with the small bin it takes a chunk from.
LEMMA SmallServed ==
  ASSUME av \in Fit, NEW K, NEW e, Stock(av, K, e),
         call.nb \in Nat, call.nb >= MINSIZE, aligned_OK(call.nb), in_smallbin_range(call.nb),
         NEW i \in BinIdx, i = bin_index(call.nb), i # 1,
         NEW s, s = Reverse(av.bins[i]), s # <<>>,
         NEW a, a = SmallTaken(i, s)
  PROVE  /\ Stock(a, K \cup {s[1]}, e) /\ s[1] \notin K /\ a.top = av.top
         /\ chunksize(a, s[1]) >= call.nb
<1> DEFINE n == Taken(s)
           c == Stash(av, s)
           q == av.bins[i]
           m == Len(s) - n
           rest == SubSeq(q, 1, m)
           fs == av.fast
           bs == [av.bins EXCEPT ![i] = rest]
           l == <<"bin", i>>
           X == {s[j] : j \in 1 .. n}
           first == SubSeq(s, 1, n)
           d == AllUsed(c, first, call.nb)
<1>1. q \in Seq(Int) /\ fs \in Fasts /\ av.bins \in Bins
  BY FieldType DEF Bins, BinIdx
<1>2. l \in Places /\ Shelves(av)[l] = q /\ Distinct(q)
  <2>1. l \in Places /\ Shelves(av)[l] = q
    BY PlaceKinds, ShelfOf DEF BinIdx
  <2> HIDE DEF l
  <2>2. Distinct(Shelves(av)[l])
    BY <2>1, ListDistinct
  <2> QED
    BY <2>1, <2>2
<1>3. /\ s \in Seq(Int) /\ Len(s) = Len(q) /\ Distinct(s)
      /\ DOMAIN s = 1 .. Len(q) /\ \A j \in 1 .. Len(q) : s[j] = q[Len(q) - j + 1]
  <2>1. s = Reverse(q)
    OBVIOUS
  <2> HIDE DEF q
  <2> QED
    BY <1>1, <1>2, <2>1, Reversed
<1>4. n \in 1 .. Len(s) /\ Len(s) \in Nat /\ Len(q) \in Nat /\ DOMAIN q = 1 .. Len(q)
  BY <1>1, <1>3, StashSafe
<1> HIDE DEF n, q
<1>5. m \in Nat /\ m <= Len(q) /\ rest \in Seq(Int)
  <2>1. m \in Nat /\ m <= Len(q) /\ 1 \in Nat \ {0} /\ m \in Int
    BY <1>3, <1>4
  <2> HIDE DEF m
  <2> QED
    BY <1>1, <2>1, SubSeqType
<1>6. bs \in Bins
  BY <1>1, <1>5 DEF Bins, BinIdx
<1> DEFINE b == Relisted(av, fs, bs)
           from == 1
<1> HIDE DEF bs, fs
<1>7. Shelves(b) = [Shelves(av) EXCEPT ![l] = rest]
  <2>1. b.bins = [av.bins EXCEPT ![i] = rest] /\ b.fast = av.fast /\ b.cached = av.cached
    BY <1>1, <1>6, RelistedIs DEF fs, bs
  <2> HIDE DEF rest, b
  <2>2. i \in BinIdx /\ av \in Fit
    OBVIOUS
  <2>3. Shelves(b) = [Shelves(av) EXCEPT ![<<"bin", i>>] = rest]
    BY ONLY <2>1, <2>2, BinShelf
  <2> QED
    BY ONLY <2>3 DEF l
<1>8. from \in Nat \ {0}
  OBVIOUS
<1>9. Shelves(b) = [Shelves(av) EXCEPT ![l] = SubSeq(Shelves(av)[l], from, m)]
  BY <1>2, <1>7
<1>10. CutOff(av, l, from, m, X)
  <2>1. ASSUME NEW x \in X
        PROVE  \E j \in DOMAIN q : (j < from \/ j > m) /\ x = q[j]
    <3>1. PICK k \in 1 .. n : x = s[k]
      OBVIOUS
    <3>2. k \in 1 .. Len(q) /\ Len(q) - k + 1 \in 1 .. Len(q) /\ Len(q) - k + 1 > m
      <4>1. Len(s) = Len(q) /\ Len(q) \in Nat /\ n \in 1 .. Len(s) /\ k \in 1 .. n
        BY <1>3, <1>4
      <4> QED
        BY ONLY <4>1 DEF m
    <3> QED
      BY <1>3, <1>4, <3>1, <3>2
  <2>2. ASSUME NEW j \in DOMAIN q, j < from \/ j > m PROVE q[j] \in X
    <3>3. /\ j \in Nat \ {0} /\ j <= Len(q) /\ j > Len(q) - n /\ n \in Nat /\ n <= Len(q)
          /\ Len(q) \in Nat
      BY <1>3, <1>4, <2>2
    <3>1. /\ j \in 1 .. Len(q) /\ Len(q) - j + 1 \in 1 .. n /\ Len(q) - j + 1 \in 1 .. Len(q)
          /\ Len(q) - (Len(q) - j + 1) + 1 = j
      BY ONLY <3>3
    <3>2. s[Len(q) - j + 1] = q[j]
      BY <1>3, <3>1
    <3> QED
      BY <3>1, <3>2
  <2> HIDE DEF from, m, X
  <2>3. \A x : x \in X <=> \E j \in DOMAIN q : (j < from \/ j > m) /\ x = q[j]
    BY <2>1, <2>2
  <2> QED
    BY <1>2, <1>5, <2>3 DEF CutOff
<1> HIDE DEF l, from, m, X
<1>11. /\ Stock(b, K \cup X, e)
       /\ \A x \in X : x \notin K /\ Suits(l, chunksize(av, x))
  BY <1>1, <1>2, <1>5, <1>6, <1>8, <1>9, <1>10, TakeRun
<1>12. ASSUME NEW j \in 1 .. n PROVE s[j] \notin K /\ chunksize(av, s[j]) >= call.nb
  <2>1. s[j] \in X
    BY DEF X
  <2>2. Suits(l, chunksize(av, s[j])) /\ s[j] \notin K
    BY <1>11, <2>1
  <2>3. bin_index(chunksize(av, s[j])) = bin_index(call.nb)
    BY <2>2 DEF Suits, l
  <2>4. chunksize(av, s[j]) \in Nat
    <3>1. s[j] \in On(av)
      <4>1. s[j] \in ToSet(q)
        <5>1. j \in 1 .. Len(q) /\ Len(q) - j + 1 \in DOMAIN q
          BY <1>3, <1>4
        <5> QED
          BY <1>3, <5>1 DEF ToSet
      <4>2. DOMAIN Shelves(av) = Places
        BY ShelvesType
      <4> QED
        BY <1>2, <4>1, <4>2 DEF On, Members
    <3> QED
      BY <3>1, StockChunks
  <2> QED
    BY <2>2, <2>3, <2>4, SmallHolds
<1>13. /\ c \in Fit /\ OnlyCached(av, c) /\ Stock(Relisted(c, fs, bs), K \cup {s[1]}, e)
  <2>1. Stock(Relisted(av, fs, bs), K \cup {s[j] : j \in 1 .. Taken(s)}, e)
    BY <1>11 DEF X, n, b
  <2>2. \A j \in 1 .. Taken(s) : s[j] \notin K /\ chunksize(av, s[j]) >= call.nb
    BY <1>12 DEF n
  <2> QED
    BY <1>1, <1>3, <1>6, <2>1, <2>2, StashStock, ZenonT(40)
<1>14. first \in Seq(Int)
  <2>1. 1 \in Nat \ {0} /\ n \in Int /\ n <= Len(s)
    BY <1>4
  <2> QED
    BY <1>3, <2>1, SubSeqType
<1> DEFINE M == K \cup {s[1]}
           nb == call.nb
<1>15. Stock(Relisted(c, fs, bs), M, e) /\ nb \in Int
  BY <1>13
<1> HIDE DEF c, first, M, nb
<1>16. /\ AllUsed(c, first, nb) \in Fit /\ OnlyMarked(c, AllUsed(c, first, nb))
       /\ Stock(Relisted(AllUsed(c, first, nb), fs, bs), M, e)
  BY <1>1, <1>6, <1>13, <1>14, <1>15, UsedStock
<1>17. d \in Fit /\ OnlyMarked(c, d) /\ Stock(Relisted(d, fs, bs), M, e)
  BY <1>16 DEF nb
<1>18. a = [d EXCEPT !.bins[i] = rest]
  BY DEF SmallTaken, c, first, q, n, m
<1> HIDE DEF d
<1>19. a = Relisted(d, fs, bs)
  <2>1. d.fast = av.fast /\ d.bins = av.bins
    BY <1>13, <1>17 DEF OnlyCached, OnlyMarked, Aside
  <2>2. a = [d EXCEPT !.bins = bs]
    BY <1>17, <1>18, <2>1 DEF bs, Fit, Arenas
  <2>3. [d EXCEPT !.bins = bs] = [d EXCEPT !.fast = d.fast, !.bins = bs]
    BY <1>17 DEF Fit, Arenas
  <2> QED
    BY <2>1, <2>2, <2>3 DEF Relisted, fs
<1>20. a.top = av.top /\ chunksize(a, s[1]) = chunksize(av, s[1])
  <2>1. a.top = d.top /\ chunksize(a, s[1]) = chunksize(d, s[1])
    BY <1>1, <1>6, <1>17, <1>19, RelistedIs
  <2>2. d.top = c.top /\ chunksize(d, s[1]) = chunksize(c, s[1])
    BY <1>17 DEF OnlyMarked, SameHeap
  <2> QED
    BY <1>13, <2>1, <2>2 DEF OnlyCached, chunksize
<1>21. 1 \in 1 .. n
  BY <1>4
<1> QED
  BY <1>12, <1>17, <1>19, <1>20, <1>21 DEF M

-----------------------------------------------------------------------------
(* Who owns the chunks that are on no list *)

\* Who has a chunk: the client, the call under way, and the tcache that is one.
Taking == IF call.pc = "got" THEN {call.p} ELSE {}
Owners == DOMAIN live \cup Taking \cup ({av.tcache} \ {NULL})
Held == {p \in Owners : ~IsMmapped(p)}

\* The pages of a mapped chunk, and those of the arena, which are all others.
BlockPages(p) == PagesOf(BlockStart(p), BlockSize(p))
ArenaPages == maps \ UNION {BlockPages(p) : p \in DOMAIN mmapped}
Env == [pages |-> ArenaPages, full |-> ArenaPages, tcache |-> av.tcache]

IsBlock(p) ==
  /\ mmapped[p].prev_size >= 0 /\ mmapped[p].sz > 0
  /\ BlockStart(p) % PageSize = 0 /\ BlockSize(p) % PageSize = 0
  /\ BlockPages(p) \subseteq maps
Blocks ==
  /\ maps \subseteq MapPages
  /\ \A p \in DOMAIN mmapped : IsBlock(p)
  /\ \A p, q \in DOMAIN mmapped : p # q => BlockPages(p) \cap BlockPages(q) = {}

\* How many words _int_malloc is asked for on behalf of a call.
Seek(op, init) ==
  IF init THEN request2size(TCACHE_STRUCT)
  ELSE CASE op.kind = "realloc" -> request2size(request2size(op.bytes) - MALLOC_ALIGN_MASK)
         [] op.kind = "memalign" -> request2size(request2size(op.bytes) + op.align + MINSIZE)
         [] OTHER -> request2size(op.bytes)
Yields(p) == IF IsMmapped(p) THEN mmapped[p].sz ELSE chunksize(av, p)

\* What a call works on: the chunk that is freed or reallocated is the client's,
\* and the mapped one that has been copied is nobody's.
OpOwns ==
  /\ call.op.kind \in {"free", "realloc"} => call.op.mem \in DOMAIN live
  /\ call.op.kind = "copy" /\ call.pc # "unmap" => call.op.mem \in DOMAIN live
  /\ call.pc = "unmap" => call.op.mem \in DOMAIN mmapped /\ call.op.mem \notin Owners
  /\ call.op.kind = "realloc" /\ call.pc # "resume" => ~IsMmapped(call.op.mem)
  /\ call.op.kind = "memalign" => call.op.align >= MINSIZE
SearchOwns ==
  /\ call.pc \in {"bins", "unsorted"} => call.nb = Seek(call.op, call.init)
  /\ call.pc \in {"bins", "unsorted", "got"} => (call.init => av.tcache = NULL)
FoundOwns ==
  call.pc = "got" => call.p \notin DOMAIN live /\ Yields(call.p) >= Seek(call.op, call.init)
CallOwns ==
  /\ call.pc # "idle" => OpOwns
  /\ SearchOwns /\ FoundOwns
  /\ av.tcache \notin DOMAIN live /\ av.tcache \notin Taking

Holding == Owned(av, Held, Env) /\ Blocks /\ CallOwns
OInv == av.died \/ Holding

\* The arena's part of the mapped pages and the tcache are what they were.
LEMMA EnvIs == Env.pages = ArenaPages /\ Env.full = ArenaPages /\ Env.tcache = av.tcache
  BY DEF Env

LEMMA BlockHolds ==
  ASSUME mmapped \in Mappings, NEW p \in DOMAIN mmapped, IsBlock(p)
  PROVE  /\ p \div PageSize \in BlockPages(p) /\ p \in Int
         /\ BlockStart(p) <= p /\ p < BlockStart(p) + BlockSize(p)
         /\ BlockStart(p) \in Int /\ BlockSize(p) \in Int
<1>1. p \in Int /\ mmapped[p].sz \in Int /\ mmapped[p].prev_size \in Int
      /\ BlockStart(p) \in Int /\ BlockSize(p) \in Int
  BY MappedType
<1>2. BlockStart(p) <= p /\ p <= BlockStart(p) + BlockSize(p) - 1
  BY <1>1 DEF BlockStart, BlockSize, IsBlock
<1> DEFINE s == BlockStart(p)
           t == BlockStart(p) + BlockSize(p) - 1
<1>3. s \in Int /\ t \in Int /\ s <= p /\ p <= t
  BY <1>1, <1>2
<1>4. BlockPages(p) = s \div PageSize .. t \div PageSize
  BY DEF BlockPages, PagesOf
<1> HIDE DEF s, t
<1>5. /\ s \div PageSize <= p \div PageSize /\ p \div PageSize <= t \div PageSize
      /\ s \div PageSize \in Int /\ p \div PageSize \in Int /\ t \div PageSize \in Int
  <2>1. t \div PageSize \in Int
    BY <1>3, PagesMeet
  <2> QED
    BY <1>1, <1>3, <2>1, PagesMeet
<1>6. p \div PageSize \in BlockPages(p)
  BY <1>4, <1>5
<1> QED
  BY <1>1, <1>2, <1>6

\* Mapped memory is above all that the break can reach.
LEMMA BlocksAbove ==
  ASSUME mmapped \in Mappings, Blocks, NEW p \in DOMAIN mmapped
  PROVE  p > BrkLimit /\ p \in Int /\ p \div PageSize \in BlockPages(p)
         /\ p \div PageSize \notin ArenaPages
<1>1. p \div PageSize \in BlockPages(p) /\ p \in Int
  BY BlockHolds DEF Blocks
<1>2. p \div PageSize \in MapPages
  BY <1>1 DEF Blocks, IsBlock
<1> DEFINE k == p \div PageSize
<1>3. k \in Int /\ k * PageSize <= p
  BY <1>1, PagesMeet
<1>4. k * PageSize > BrkLimit
  BY <1>2, KernelAssumption
<1> HIDE DEF k
<1>5. p > BrkLimit
  <2>1. k * PageSize \in Int /\ BrkLimit \in Int
    BY <1>3, Sizes, ArenaAssumption
  <2> QED
    BY <1>1, <1>3, <1>4, <2>1
<1> QED
  BY <1>1, <1>5 DEF ArenaPages

\* The first page of a chunk that is not below the break is one of the arena.
LEMMA FirstPage ==
  ASSUME NEW a \in Fit, NEW K, NEW e, Stock(a, K, e), NEW r \in DOMAIN a.hdr
  PROVE  r <= BrkLimit \/ r \div PageSize \in e.pages
<1>1. r \in Nat \ {0} /\ chunksize(a, r) \in Nat \ {0}
  BY StockChunks
<1>2. Within(a, r, chunksize(a, r), e) /\ a.brk \in 1 .. BrkLimit
  BY DEF Stock, Backed
<1>3. CASE PagesOf(r, chunksize(a, r)) \subseteq e.pages
  <2> DEFINE n == chunksize(a, r)
             t == r + n - 1
  <2>1. r \in Int /\ t \in Int /\ r <= t
    BY <1>1
  <2>2. PagesOf(r, n) = r \div PageSize .. t \div PageSize
    BY DEF PagesOf
  <2> HIDE DEF t
  <2>3. r \div PageSize \in Int /\ t \div PageSize \in Int /\ r \div PageSize <= t \div PageSize
    BY <2>1, PagesMeet
  <2>4. r \div PageSize \in PagesOf(r, n)
    BY <2>2, <2>3
  <2> QED
    BY <1>3, <2>4
<1>4. CASE r + chunksize(a, r) <= a.brk
  BY <1>1, <1>2, <1>4, ArenaAssumption
<1> QED
  BY <1>2, <1>3, <1>4 DEF Within

\* A chunk of the arena is no mapped one.
LEMMA NotMapped ==
  ASSUME mmapped \in Mappings, Blocks, NEW a \in Fit, NEW K, Stock(a, K, Env),
         NEW p \in DOMAIN a.hdr
  PROVE  ~IsMmapped(p)
<1> SUFFICES ASSUME p \in DOMAIN mmapped PROVE FALSE
  BY DEF IsMmapped
<1>1. p > BrkLimit /\ p \in Int /\ p \div PageSize \notin ArenaPages
  BY BlocksAbove
<1>2. p <= BrkLimit \/ p \div PageSize \in Env.pages
  BY FirstPage
<1> QED
  BY <1>1, <1>2, EnvIs, ArenaAssumption

\* What is held is a chunk of the arena.
LEMMA HeldIs ==
  ASSUME Alive, Holding
  PROVE  /\ \A p \in Held : p \in DOMAIN av.hdr /\ p \in Nat \ {0} /\ p # av.top
         /\ \A p \in Held : chunksize(av, p) >= MINSIZE
         /\ \A p \in Owners : p \in Held \/ p \in DOMAIN mmapped
         /\ \A p \in Owners : p \in Int /\ p # NULL
<1>1. Stock(av, Held \cup Tops(av), Env) /\ av.top \notin Held /\ av \in Fit /\ mmapped \in Mappings
  BY DEF Holding, Owned, Alive
<1>2. \A p \in Held : p \in DOMAIN av.hdr /\ p \in Nat \ {0} /\ p # av.top /\ chunksize(av, p) >= MINSIZE
  BY <1>1, StockChunks
<1>3. \A p \in Owners : p \in Held \/ p \in DOMAIN mmapped
  BY DEF Held, IsMmapped
<1>4. \A p \in Owners : p \in Int /\ p # NULL
  <2>1. \A p \in DOMAIN mmapped : p \in Int /\ p # NULL
    <3> TAKE p \in DOMAIN mmapped
    <3>1. p > BrkLimit /\ p \in Int
      BY <1>1, BlocksAbove DEF Holding
    <3> QED
      BY <3>1, ArenaAssumption DEF NULL
  <2>2. \A p \in Held : p \in Int /\ p # NULL
    BY <1>2 DEF NULL
  <2> QED
    BY <1>3, <2>1, <2>2
<1> QED
  BY <1>2, <1>3, <1>4

\* The arena has changed, what is held has not, and neither has a mapping.
LEMMA SameEnv ==
  ASSUME UNCHANGED <<maps, mmapped>>, NEW H, Owned(av', H, Env)
  PROVE  Env' = Env /\ av'.tcache = av.tcache
<1>1. av'.tcache = av.tcache
  BY EnvIs DEF Owned, Stock
<1>2. ArenaPages' = ArenaPages
  BY DEF ArenaPages, BlockPages, BlockStart, BlockSize
<1> QED
  BY <1>1, <1>2 DEF Env

LEMMA SameBlocks ==
  ASSUME Blocks, UNCHANGED <<maps, mmapped>>
  PROVE  Blocks'
  BY DEF Blocks, IsBlock, BlockPages, BlockStart, BlockSize

\* While a chunk is looked for none is taken.
LEMMA NoneTaken ==
  ASSUME call.pc # "got"
  PROVE  Taking = {} /\ Owners = DOMAIN live \cup ({av.tcache} \ {NULL})
  BY DEF Taking, Owners

LEMMA StillSearches ==
  ASSUME Holding, call \in Searches, call' \in Searches,
         call'.op = call.op, call'.init = call.init, call'.nb = call.nb,
         UNCHANGED <<maps, mmapped, live>>, Owned(av', Held, Env)
  PROVE  Holding'
<1>1. call.pc \in {"bins", "unsorted"} /\ call'.pc \in {"bins", "unsorted"}
  BY SearchType
<1>2. Env' = Env /\ av'.tcache = av.tcache
  BY SameEnv
<1>3. Owners' = Owners /\ Held' = Held /\ Taking' = {} /\ Taking = {}
  BY <1>1, <1>2 DEF Owners, Held, Taking, IsMmapped
<1>5. Owned(av, Held, Env)'
  BY <1>2, <1>3
<1>6. OpOwns' /\ SearchOwns' /\ FoundOwns'
  <2>1. OpOwns /\ SearchOwns
    BY <1>1 DEF Holding, CallOwns
  <2>2. OpOwns'
    BY <1>1, <1>3, <2>1 DEF OpOwns, IsMmapped
  <2>3. SearchOwns'
    BY <1>1, <1>2, <2>1 DEF SearchOwns, Seek
  <2>4. FoundOwns'
    BY <1>1 DEF FoundOwns
  <2> QED
    BY <2>2, <2>3, <2>4
<1>7. CallOwns'
  BY <1>2, <1>3, <1>6 DEF CallOwns, Holding
<1> QED
  BY <1>5, <1>7, SameBlocks DEF Holding

\* A chunk of the arena is found that nobody held.
LEMMA FoundHolds ==
  ASSUME Alive, Holding, call \in Searches, NEW a \in Fit, NEW p, Found(a, p),
         UNCHANGED <<maps, mmapped>>,
         Owned(a, Held \cup {p}, Env), p \notin Held, chunksize(a, p) >= call.nb
  PROVE  Holding'
<1>1. /\ av' = a /\ call' = Got(call.op, call.init, p) /\ UNCHANGED live
      /\ call'.pc = "got" /\ call'.op = call.op /\ call'.init = call.init /\ call'.p = p
  BY DEF Found, Got
<1>2. call.pc \in {"bins", "unsorted"} /\ call.pc # "got"
  BY SearchType
<1>3. Env' = Env /\ av'.tcache = av.tcache
  BY <1>1, SameEnv
<1>4. ~IsMmapped(p) /\ p # NULL
  <2>1. Stock(a, Held \cup {p} \cup Tops(a), Env) /\ p \in Held \cup {p} \cup Tops(a)
    BY DEF Owned
  <2>2. p \in DOMAIN a.hdr /\ p \in Nat \ {0}
    BY <2>1, StockChunks
  <2> QED
    BY <2>1, <2>2, NotMapped DEF Alive, Holding, NULL
<1>5. Taking' = {p} /\ Owners' = Owners \cup {p} /\ Held' = Held \cup {p}
  <2>1. Taking' = {p} /\ Owners' = Owners \cup {p}
    BY <1>1, <1>2, <1>3 DEF Taking, Owners
  <2> QED
    BY <1>4, <2>1 DEF Held, IsMmapped
<1>6. Owned(av, Held, Env)'
  BY <1>1, <1>3, <1>5
<1>7. p \notin Owners
  BY <1>4 DEF Held
<1>8. OpOwns' /\ SearchOwns' /\ FoundOwns'
  <2>1. OpOwns /\ SearchOwns
    BY <1>2 DEF Holding, CallOwns
  <2>2. OpOwns'
    BY <1>1, <1>2, <2>1 DEF OpOwns, IsMmapped
  <2>3. SearchOwns'
    BY <1>1, <1>2, <1>3, <2>1 DEF SearchOwns
  <2>4. FoundOwns'
    <3>1. call.nb = Seek(call.op, call.init)
      BY <1>2, <2>1 DEF SearchOwns
    <3>2. Yields(p)' = chunksize(a, p)
      BY <1>1, <1>4 DEF Yields, IsMmapped
    <3>3. p \notin DOMAIN live'
      BY <1>1, <1>7 DEF Owners
    <3>4. Yields(call.p)' = Yields(p)'
      BY <1>1 DEF Yields, IsMmapped
    <3>5. Seek(call.op, call.init)' = Seek(call.op, call.init)
      BY <1>1 DEF Seek
    <3> QED
      BY <1>1, <3>1, <3>2, <3>3, <3>4, <3>5 DEF FoundOwns
  <2> QED
    BY <2>2, <2>3, <2>4
<1>9. av'.tcache \notin DOMAIN live' /\ av'.tcache \notin Taking'
  <2>1. av.tcache \notin DOMAIN live
    BY DEF Holding, CallOwns
  <2>2. av.tcache # p
    BY <1>4, <1>7 DEF Owners
  <2> QED
    BY <1>1, <1>3, <1>5, <2>1, <2>2
<1>10. CallOwns'
  BY <1>8, <1>9 DEF CallOwns
<1> QED
  BY <1>6, <1>10, SameBlocks DEF Holding

\* Nothing is found.
LEMMA NotFoundHolds ==
  ASSUME Alive, Holding, call \in Searches, NEW a \in Fit, NotFound(a),
         Owned(a, Held, Env), UNCHANGED mmapped, Env' = Env, Blocks'
  PROVE  Holding'
<1>1. /\ av' = a /\ UNCHANGED live
      /\ call' = IF call.init THEN [pc |-> "resume", op |-> call.op] ELSE Idle
  BY DEF NotFound
<1>2. call.pc \in {"bins", "unsorted"} /\ call.pc # "got"
  BY SearchType
<1>3. av'.tcache = av.tcache
  BY <1>1, EnvIs DEF Owned, Stock
<1>4. call'.pc \in {"resume", "idle"} /\ call'.pc \notin {"bins", "unsorted", "got", "unmap"}
      /\ (call'.pc = "resume" => call'.op = call.op)
  BY <1>1 DEF Idle
<1>5. Owners' = Owners /\ Held' = Held /\ Taking' = {}
  BY <1>1, <1>2, <1>3, <1>4 DEF Owners, Held, Taking, IsMmapped
<1>6. Owned(av, Held, Env)'
  BY <1>1, <1>5
<1>7. call'.pc # "idle" => OpOwns'
  <2>1. OpOwns
    BY <1>2 DEF Holding, CallOwns
  <2> QED
    BY <1>1, <1>2, <1>4, <2>1 DEF OpOwns, IsMmapped
<1>8. SearchOwns' /\ FoundOwns'
  BY <1>4 DEF SearchOwns, FoundOwns
<1>9. CallOwns'
  BY <1>1, <1>3, <1>5, <1>7, <1>8 DEF CallOwns, Holding
<1> QED
  BY <1>6, <1>9 DEF Holding

\* A state of a process that goes on, as two successive steps find it.
Going == MInv /\ Alive /\ ~av.died /\ Holding
GoesOn == Going /\ Alive' /\ ~av'.died

LEMMA SeekFits ==
  ASSUME NEW op \in Ops, NEW init
  PROVE  Seek(op, init) \in Nat /\ Seek(op, init) >= MINSIZE /\ aligned_OK(Seek(op, init))
<1>1. /\ request2size(op.bytes) \in Nat /\ request2size(op.bytes) >= MINSIZE
      /\ aligned_OK(request2size(op.bytes))
  BY RequestFits DEF Ops
<1>2. /\ request2size(op.bytes) - MALLOC_ALIGN_MASK \in Nat
      /\ request2size(op.bytes) + op.align + MINSIZE \in Nat
  <2>1. MINSIZE >= MALLOC_ALIGN_MASK /\ MALLOC_ALIGN_MASK \in Nat
    BY Sizes, ArenaAssumption DEF MALLOC_ALIGN_MASK, Least
  <2>2. op.align \in Nat
    BY DEF Ops
  <2> QED
    BY <1>1, <2>1, <2>2, Sizes
<1> DEFINE n == request2size(op.bytes) - MALLOC_ALIGN_MASK
           m == request2size(op.bytes) + op.align + MINSIZE
<1>3. n \in Nat /\ m \in Nat /\ TCACHE_STRUCT \in Nat
  BY <1>2, MallocAssumption
<1>4. \/ Seek(op, init) = request2size(TCACHE_STRUCT) \/ Seek(op, init) = request2size(n)
      \/ Seek(op, init) = request2size(m) \/ Seek(op, init) = request2size(op.bytes)
  BY DEF Seek
<1> HIDE DEF n, m
<1> QED
  BY <1>1, <1>3, <1>4, RequestFits

LEMMA SearchFor ==
  ASSUME Going, call \in Searches
  PROVE  /\ call.nb \in Nat /\ call.nb >= MINSIZE /\ aligned_OK(call.nb)
         /\ call.op \in Ops /\ call.nb = Seek(call.op, call.init)
         /\ av \in Fit /\ mp \in Params /\ Owned(av, Held, Env)
         /\ Stock(av, Held \cup Tops(av), Env)
<1>1. call.op \in Ops /\ call.pc \in {"bins", "unsorted"}
  BY SearchType
<1>2. call.nb = Seek(call.op, call.init)
  BY <1>1 DEF Going, Holding, CallOwns, SearchOwns
<1> QED
  BY <1>1, <1>2, SeekFits DEF Going, Alive, Holding, Owned

LEMMA TakenOwned ==
  ASSUME NEW a \in Fit, NEW b \in Fit, NEW H, NEW e, Owned(a, H, e), b.top = a.top, NEW p,
         Stock(b, (H \cup Tops(a)) \cup {p}, e), p \notin H \cup Tops(a)
  PROVE  Owned(b, H \cup {p}, e) /\ p \notin H
<1>1. p \in Nat \ {0}
  BY StockChunks
<1>2. p # a.top
  BY <1>1 DEF Tops, NULL
<1>3. (H \cup Tops(a)) \cup {p} = (H \cup {p}) \cup Tops(b)
  BY DEF Tops
<1> QED
  BY <1>2, <1>3 DEF Owned

LEMMA FastbinServesOwns == ASSUME GoesOn, FastbinServes PROVE Holding'
<1> DEFINE i == fastbin_index(call.nb)
           s == FastList
           ok == chunksize(av, FastList[1]) = call.nb
           a == FastTaken(i, s, ok)
           K == Held \cup Tops(av)
<1>1. Going /\ call \in Searches /\ s # <<>>
  BY InSearch DEF FastbinServes, GoesOn, Going
<1>2. /\ call.nb \in Nat /\ call.nb >= MINSIZE /\ aligned_OK(call.nb)
      /\ av \in Fit /\ mp \in Params /\ Owned(av, Held, Env) /\ Stock(av, K, Env)
  BY <1>1, SearchFor
<1>3. call.nb <= mp.max_fast /\ s = av.fast[i]
  BY <1>1 DEF FastList
<1>4. i \in FastIdx
  BY <1>2, <1>3 DEF Params
<1>5. Found(a, s[1]) /\ UNCHANGED <<maps, mmapped>>
  BY DEF FastbinServes, FastTaken
<1>6. a \in Fit /\ ~a.died
  BY <1>5 DEF Found, GoesOn, Alive
<1>7. TakesFast(i, s, a)
  BY <1>6 DEF TakesFast, FastTaken, Checked
<1> HIDE DEF i, s, ok, a, K
<1>8. i = fastbin_index(call.nb)
  BY DEF i
<1>9. /\ Stock(a, K \cup {s[1]}, Env) /\ s[1] \notin K /\ a.top = av.top
      /\ chunksize(a, s[1]) >= call.nb
  <2>1. /\ s = av.fast[i] /\ s # <<>> /\ i \in FastIdx /\ i = fastbin_index(call.nb)
        /\ call.nb \in Nat /\ call.nb >= MINSIZE /\ aligned_OK(call.nb)
    BY <1>1, <1>2, <1>3, <1>4, <1>8
  <2>2. av \in Fit /\ Stock(av, K, Env)
    BY <1>2
  <2> QED
    BY <1>7, <2>1, <2>2, FastServed
<1>10. Owned(a, Held \cup {s[1]}, Env) /\ s[1] \notin Held
  BY <1>2, <1>6, <1>9, TakenOwned DEF K
<1> QED
  BY <1>1, <1>5, <1>6, <1>9, <1>10, FoundHolds DEF Going

LEMMA SmallbinServesOwns == ASSUME GoesOn, SmallbinServes PROVE Holding'
<1> DEFINE i == call.idx
           s == SmallList
           a == SmallTaken(i, s)
           K == Held \cup Tops(av)
<1>1. Going /\ call \in Searches /\ s # <<>>
  BY InSearch DEF SmallbinServes, GoesOn, Going
<1>2. /\ call.nb \in Nat /\ call.nb >= MINSIZE /\ aligned_OK(call.nb)
      /\ av \in Fit /\ mp \in Params /\ Owned(av, Held, Env) /\ Stock(av, K, Env)
  BY <1>1, SearchFor
<1>3. in_smallbin_range(call.nb) /\ s = Reverse(av.bins[i]) /\ i = bin_index(call.nb)
  BY <1>1, SearchType DEF SmallList
<1>4. i \in BinIdx /\ i # 1
  <2>1. bin_index(call.nb) \in 2 .. NBINS - 1 /\ bin_index(call.nb) \in 1 .. NBINS - 1
    BY <1>2, OwnBin
  <2> QED
    BY <1>3, <2>1 DEF BinIdx
<1>5. Found(a, s[1]) /\ UNCHANGED <<maps, mmapped>>
  BY DEF SmallbinServes, SmallTaken, AllUsed
<1>6. a \in Fit /\ ~a.died
  BY <1>5 DEF Found, GoesOn, Alive
<1> HIDE DEF i, s, a, K
<1>8. a = SmallTaken(i, s)
  BY DEF a
<1>9. /\ Stock(a, K \cup {s[1]}, Env) /\ s[1] \notin K /\ a.top = av.top
      /\ chunksize(a, s[1]) >= call.nb
  BY <1>1, <1>2, <1>3, <1>4, <1>8, SmallServed
<1>10. Owned(a, Held \cup {s[1]}, Env) /\ s[1] \notin Held
  BY <1>2, <1>6, <1>9, TakenOwned DEF K
<1> QED
  BY <1>1, <1>5, <1>6, <1>9, <1>10, FoundHolds DEF Going

LEMMA EntersLoopOwns == ASSUME GoesOn, EntersLoop PROVE Holding'
<1>1. Going /\ call \in Searches
  BY InSearch DEF EntersLoop, GoesOn, Going
<1>2. av \in Fit /\ Owned(av, Held, Env)
  BY <1>1, SearchFor
<1>3. (av' = av \/ av' = malloc_consolidate(av)) /\ ~av'.died
      /\ call' = [call EXCEPT !.pc = "unsorted"] /\ UNCHANGED <<maps, mmapped, live>>
  BY DEF EntersLoop, GoesOn
<1>4. Owned(av', Held, Env)
  BY <1>2, <1>3, ConsolidateOwned DEF Sound
<1>5. call' \in Searches
  BY <1>1, <1>3, SearchWith
<1>6. call'.op = call.op /\ call'.init = call.init /\ call'.nb = call.nb
  BY <1>1, <1>3 DEF Searches
<1> QED
  BY <1>1, <1>3, <1>4, <1>5, <1>6, StillSearches DEF Going

Pops(a, i, s, b) == b = [a EXCEPT !.cached[i] = Tail(s)]

\* The first chunk of a tcache bin is taken; it is at least of the bin's size.
LEMMA CacheServed ==
  ASSUME NEW a \in Fit, NEW K, NEW e, Stock(a, K, e), NEW i \in CacheIdx,
         NEW s, s = a.cached[i], s # <<>>,
         NEW b \in Fit, Pops(a, i, s, b)
  PROVE  /\ Stock(b, K \cup {Head(s)}, e) /\ Head(s) \notin K /\ b.top = a.top
         /\ chunksize(b, Head(s)) >= MINSIZE + i * MALLOC_ALIGNMENT
<1> DEFINE l == <<"cache", i>>
           L == Shelves(a)
<1>1. s \in Seq(Int)
  BY FieldType DEF Caches
<1>2. b.cached = [a.cached EXCEPT ![i] = Tail(s)] /\ b.bins = a.bins /\ b.fast = a.fast
      /\ b.hdr = a.hdr /\ b.brk = a.brk /\ b.tcache = a.tcache /\ b.top = a.top
  BY DEF Fit, Arenas, Pops
<1>3. Shelves(b) = [Shelves(a) EXCEPT ![l] = Tail(s)] /\ l \in Places /\ Shelves(a)[l] = s
  <2> DEFINE t == Tail(s)
  <2> HIDE DEF t
  <2>1. b.cached = [a.cached EXCEPT ![i] = t]
    BY <1>2 DEF t
  <2>2. Shelves(b) = [Shelves(a) EXCEPT ![<<"cache", i>>] = t]
        /\ <<"cache", i>> \in Places /\ Shelves(a)[<<"cache", i>>] = a.cached[i]
    <3>1. a \in Fit /\ i \in CacheIdx /\ b.bins = a.bins /\ b.fast = a.fast
      BY <1>2
    <3> QED
      BY ONLY <2>1, <3>1, CacheShelf
  <2> QED
    BY <2>2 DEF t
<1> HIDE DEF l
<1>4. Len(s) \in Nat /\ 1 \in DOMAIN s /\ Head(s) = s[1] /\ Tail(s) = SubSeq(s, 2, Len(s))
      /\ DOMAIN s = 1 .. Len(s)
  BY <1>1
<1>5. L \in [Places -> Seq(Int)] /\ Once(L)
  BY ShelvesType DEF Stock
<1>6. /\ Once([L EXCEPT ![l] = SubSeq(L[l], 2, Len(s))])
      /\ \A x : x \in Members([L EXCEPT ![l] = SubSeq(L[l], 2, Len(s))])
                  <=> x \in Members(L) /\ \A j \in DOMAIN L[l] : j < 2 \/ j > Len(s) => x # L[l][j]
  <2> DEFINE from == 2
             to == Len(s)
  <2>1. from \in Nat \ {0} /\ to \in Nat /\ to <= Len(L[l])
    BY <1>3, <1>4
  <2> HIDE DEF L, from, to
  <2>2. L \in [Places -> Seq(Int)] /\ Once(L) /\ l \in Places
    BY <1>3, <1>5
  <2>3. /\ Once([L EXCEPT ![l] = SubSeq(L[l], from, to)])
        /\ \A x : x \in Members([L EXCEPT ![l] = SubSeq(L[l], from, to)])
                    <=> x \in Members(L) /\ \A j \in DOMAIN L[l] : j < from \/ j > to => x # L[l][j]
    BY ONLY <2>1, <2>2, Trimmed
  <2> QED
    BY <2>3 DEF from, to
<1>7. Once(Shelves(b))
  BY <1>3, <1>4, <1>6
<1>8. \A y : y \in On(b) <=> y \in On(a) /\ y \notin {s[1]}
  <2>1. \A y : y \in On(b) <=> y \in On(a) /\ \A j \in 1 .. Len(s) : j < 2 \/ j > Len(s) => y # s[j]
    BY <1>3, <1>4, <1>6, ZenonT(40) DEF On
  <2>2. \A j \in 1 .. Len(s) : j < 2 \/ j > Len(s) => j = 1
    BY <1>4
  <2>3. 1 \in 1 .. Len(s) /\ 1 < 2
    BY <1>4
  <2> QED
    BY <2>1, <2>2, <2>3
<1>9. s[1] \in On(a) /\ s[1] \in ToSet(Shelves(a)[l])
  <2>1. s[1] \in ToSet(s)
    BY <1>4 DEF ToSet
  <2>2. DOMAIN Shelves(a) = Places
    BY <1>5
  <2> QED
    BY <1>3, <2>1, <2>2 DEF On, Members
<1>10. SameHeap(a, b)
  BY <1>2, Same
<1> DEFINE X == {s[1]}
           t == Tail(s)
<1>11. Stock(b, K \cup X, e)
  <2>1. \A y \in X : y \in On(a)
    BY <1>9
  <2>2. \A y : y \in On(b) <=> y \in On(a) /\ y \notin X
    BY <1>8
  <2>3. Shelves(b) = [Shelves(a) EXCEPT ![l] = t]
    BY <1>3
  <2> HIDE DEF X, t
  <2>4. a \in Fit /\ b \in Fit /\ Stock(a, K, e) /\ l \in Places
    BY <1>3
  <2> QED
    BY ONLY <1>7, <1>10, <2>1, <2>2, <2>3, <2>4, TakenFrom
<1>12. s[1] \notin K
  BY <1>9 DEF Stock
<1>13. chunksize(b, s[1]) >= MINSIZE + i * MALLOC_ALIGNMENT
  <2>1. Suits(l, chunksize(a, s[1]))
    BY <1>3, <1>9 DEF Stock, AllSuit
  <2>2. chunksize(b, s[1]) = chunksize(a, s[1])
    BY <1>2 DEF chunksize
  <2> QED
    BY <2>1, <2>2 DEF Suits, l
<1> QED
  BY <1>2, <1>4, <1>11, <1>12, <1>13

\* The last of the unsorted chunks is off its list.
LEMMA VictimOff ==
  ASSUME Going, HasUnsorted, ~TakenOff.died, NEW K, Stock(av, K, Env)
  PROVE  /\ Stock(TakenOff, K \cup {Victim}, Env) /\ Victim \notin K
         /\ TakenOff.top = av.top /\ TakenOff \in Fit
         /\ \A p : chunksize(TakenOff, p) = chunksize(av, p)
<1> DEFINE s == av.bins[1]
           n == Len(s)
           l == <<"bin", 1>>
           X == {Victim}
           fs == av.fast
           bs == [av.bins EXCEPT ![1] = SubSeq(s, 1, n - 1)]
<1>1. /\ av \in Fit /\ TakenOff \in Fit /\ call.nb \in Nat /\ call.nb >= MINSIZE
      /\ \A p : chunksize(TakenOff, p) = chunksize(av, p)
      /\ TakenOff.died \/ UnsortedOK(av, Victim)
  BY VictimTaken DEF Going
<1>2. s \in Seq(Int) /\ s # <<>> /\ 1 \in BinIdx
  BY <1>1, OwnBin DEF HasUnsorted, BinIdx
<1>3. Checked(av, UnsortedOK(av, Victim)) = av
  BY <1>1 DEF Checked
<1>4. TakenOff = [av EXCEPT !.bins[1] = SubSeq(s, 1, n - 1)]
  BY <1>1, <1>3 DEF TakenOff, Front, Fit, Arenas
<1>5. TakenOff = Relisted(av, fs, bs)
  <2>1. TakenOff = [av EXCEPT !.bins = bs]
    BY <1>1, <1>4 DEF Fit, Arenas
  <2>2. [av EXCEPT !.bins = bs] = [av EXCEPT !.fast = av.fast, !.bins = bs]
    BY <1>1 DEF Fit, Arenas
  <2> QED
    BY <2>1, <2>2 DEF Relisted
<1>6. n \in Nat /\ n - 1 \in Nat /\ n - 1 < n /\ DOMAIN s = 1 .. n /\ n \in 1 .. n
      /\ Victim = s[n] /\ \A j \in 1 .. n : j > n - 1 => j = n
  <2>1. n \in Nat \ {0} /\ DOMAIN s = 1 .. n
    BY <1>2
  <2>2. Victim = s[n]
    BY DEF Victim, Last
  <2> HIDE DEF n
  <2> QED
    BY <2>1, <2>2
<1> HIDE DEF n
<1>7. SubSeq(s, 1, n - 1) \in Seq(Int)
  <2>1. 1 \in Nat \ {0} /\ n - 1 \in Int /\ n - 1 <= Len(s)
    BY <1>6 DEF n
  <2> DEFINE m == n - 1
  <2> HIDE DEF m
  <2>2. SubSeq(s, 1, m) \in Seq(Int)
    BY <1>2, <2>1, SubSeqType DEF m
  <2> QED
    BY <2>2 DEF m
<1>8. fs \in Fasts /\ bs \in Bins /\ av.bins \in Bins
  <2> DEFINE r == SubSeq(s, 1, n - 1)
  <2>1. r \in Seq(Int)
    BY <1>7
  <2>2. av.fast \in Fasts /\ av.bins \in Bins
    BY <1>1, FieldType
  <2> HIDE DEF r
  <2> QED
    BY <1>2, <2>1, <2>2 DEF Bins, BinIdx, r
<1>9. l \in Places /\ Shelves(av)[l] = s
      /\ Shelves(Relisted(av, fs, bs)) = [Shelves(av) EXCEPT ![l] = SubSeq(s, 1, n - 1)]
  <2> DEFINE r == SubSeq(s, 1, n - 1)
             b == Relisted(av, fs, bs)
  <2>1. b.bins = [av.bins EXCEPT ![1] = r] /\ b.fast = av.fast /\ b.cached = av.cached
    BY <1>1, <1>8, RelistedIs
  <2> HIDE DEF r, b
  <2>2. 1 \in BinIdx
    BY <1>2
  <2>3. /\ Shelves(b) = [Shelves(av) EXCEPT ![<<"bin", 1>>] = r]
        /\ <<"bin", 1>> \in Places /\ Shelves(av)[<<"bin", 1>>] = av.bins[1]
    BY <1>1, <2>1, <2>2, BinShelf
  <2> QED
    BY <2>3 DEF r, b
<1> DEFINE to == n - 1
<1>10. CutOff(av, l, 1, to, X)
  <2> HIDE DEF l
  <2>1. ASSUME NEW x PROVE x \in X <=> \E j \in DOMAIN Shelves(av)[l] : (j < 1 \/ j > to) /\ x = Shelves(av)[l][j]
    BY <1>6, <1>9
  <2>2. to \in Nat /\ 1 \in Nat
    BY <1>6
  <2>3. to <= Len(Shelves(av)[l])
    BY <1>6, <1>9 DEF n
  <2> HIDE DEF to, X
  <2> QED
    BY <2>1, <2>2, <2>3 DEF CutOff
<1> HIDE DEF l, X, fs, bs
<1>11. Stock(Relisted(av, fs, bs), K \cup X, Env) /\ \A x \in X : x \notin K
  <2>1. Shelves(Relisted(av, fs, bs)) = [Shelves(av) EXCEPT ![l] = SubSeq(Shelves(av)[l], 1, to)]
    BY <1>9
  <2>2. to \in Nat /\ 1 \in Nat \ {0}
    BY <1>6
  <2> HIDE DEF to
  <2> QED
    BY <1>1, <1>8, <1>9, <1>10, <2>1, <2>2, TakeRun
<1>12. TakenOff.top = av.top
  BY <1>1, <1>5, <1>8, RelistedIs
<1> QED
  BY <1>1, <1>5, <1>11, <1>12 DEF X

\* The unsorted chunk is nobody's, and a search that uses it goes on from here.
LEMMA VictimSearch ==
  ASSUME GoesOn, HasUnsorted
  PROVE  /\ Going /\ call \in Searches /\ call.nb \in Nat /\ call.nb >= MINSIZE /\ aligned_OK(call.nb)
         /\ av \in Fit /\ Owned(av, Held, Env) /\ Stock(av, Held \cup Tops(av), Env)
         /\ TakenOff \in Fit /\ Victim \in Int
         /\ ~TakenOff.died =>
              /\ Stock(TakenOff, (Held \cup Tops(av)) \cup {Victim}, Env)
              /\ Victim \notin Held \cup Tops(av)
              /\ TakenOff.top = av.top
              /\ chunksize(TakenOff, Victim) = chunksize(av, Victim)
<1>1. Going /\ call \in Searches /\ TakenOff \in Fit /\ Victim \in Int
  BY VictimTaken DEF GoesOn, Going
<1>2. /\ call.nb \in Nat /\ call.nb >= MINSIZE /\ aligned_OK(call.nb)
      /\ av \in Fit /\ Owned(av, Held, Env) /\ Stock(av, Held \cup Tops(av), Env)
  BY <1>1, SearchFor
<1> QED
  BY <1>1, <1>2, VictimOff

\* A chunk that was on a list is found, and cut or not.
LEMMA ServedHolds ==
  ASSUME Going, call \in Searches, NEW a \in Fit, NEW p, Found(a, p),
         UNCHANGED <<maps, mmapped>>, a.top = av.top,
         Stock(a, (Held \cup Tops(av)) \cup {p}, Env), p \notin Held \cup Tops(av),
         chunksize(a, p) >= call.nb
  PROVE  Holding'
<1>1. av \in Fit /\ Owned(av, Held, Env) /\ Alive /\ Holding
  BY SearchFor DEF Going
<1>2. Owned(a, Held \cup {p}, Env) /\ p \notin Held
  BY <1>1, TakenOwned
<1> QED
  BY <1>1, <1>2, FoundHolds

LEMMA LastRemainderServesOwns == ASSUME GoesOn, LastRemainderServes PROVE Holding'
<1> DEFINE b == SplitOff(TakenOff, Victim, call.nb)
           a == [b EXCEPT !.last_remainder = Victim + call.nb]
           K == Held \cup Tops(av)
<1>1. /\ Going /\ call \in Searches /\ call.nb \in Nat /\ call.nb >= MINSIZE
      /\ av \in Fit /\ TakenOff \in Fit /\ Victim \in Int
      /\ ~TakenOff.died =>
           /\ Stock(TakenOff, K \cup {Victim}, Env) /\ Victim \notin K
           /\ TakenOff.top = av.top
           /\ chunksize(TakenOff, Victim) = chunksize(av, Victim)
  BY VictimSearch DEF LastRemainderServes
<1>2. Found(a, Victim) /\ UNCHANGED <<maps, mmapped>>
  BY DEF LastRemainderServes
<1>3. Keeps(TakenOff, b) /\ b \in Fit
  BY <1>1, SplitOffKeeps DEF Keeps, Safe
<1> HIDE DEF b
<1>4. /\ a.died = b.died /\ a.hdr = b.hdr /\ a.top = b.top /\ a.brk = b.brk
      /\ a.tcache = b.tcache /\ a.bins = b.bins /\ a.fast = b.fast /\ a.cached = b.cached
  BY <1>3 DEF Fit, Arenas
<1>5. a \in Fit /\ ~a.died
  BY <1>2 DEF Found, GoesOn, Alive
<1> HIDE DEF a
<1>6. ~TakenOff.died
  BY <1>3, <1>4, <1>5 DEF Keeps, Safe
<1>7. chunksize(TakenOff, Victim) >= call.nb
  <2>1. chunksize(av, Victim) > call.nb + MINSIZE /\ chunksize(av, Victim) \in Int
    BY <1>1, FitType DEF LastRemainderServes, IsLastRemainder
  <2> QED
    BY <1>1, <1>6, <2>1, Sizes
<1> DEFINE M == K \cup {Victim}
<1>8. Victim \in M /\ Stock(TakenOff, M, Env)
  BY <1>1, <1>6
<1> HIDE DEF M
<1>9. Stock(b, M, Env) /\ b.top = TakenOff.top /\ chunksize(b, Victim) >= call.nb
  BY <1>1, <1>7, <1>8, SplitOffStock DEF b
<1>10. Stock(a, M, Env) /\ chunksize(a, Victim) = chunksize(b, Victim)
  <2>1. SameHeap(b, a)
    BY <1>4, Same
  <2>2. Aside(b, a)
    BY <1>4 DEF Aside
  <2> QED
    BY <1>9, <2>1, <2>2, Stays DEF SameHeap
<1> QED
  BY <1>1, <1>2, <1>4, <1>5, <1>6, <1>9, <1>10, ServedHolds DEF M, K

LEMMA ExactFitServesOwns == ASSUME GoesOn, ExactFitServes PROVE Holding'
<1> DEFINE q == next_chunk(av, Victim)
           a == set_inuse_bit(TakenOff, q)
           K == Held \cup Tops(av)
<1>1. /\ Going /\ call \in Searches /\ TakenOff \in Fit
      /\ ~TakenOff.died =>
           /\ Stock(TakenOff, K \cup {Victim}, Env) /\ Victim \notin K
           /\ TakenOff.top = av.top
           /\ chunksize(TakenOff, Victim) = chunksize(av, Victim)
  BY VictimSearch DEF ExactFitServes
<1>2. Found(a, Victim) /\ UNCHANGED <<maps, mmapped>> /\ chunksize(av, Victim) = call.nb
  BY DEF ExactFitServes, ExactFit
<1>3. a \in Fit /\ ~a.died
  BY <1>2 DEF Found, GoesOn, Alive
<1>4. SameHeap(TakenOff, a) /\ Aside(TakenOff, a) /\ a.top = TakenOff.top
  BY <1>1, PinsStay
<1> HIDE DEF a
<1>5. ~TakenOff.died
  BY <1>3, <1>4 DEF Aside
<1>6. Stock(a, K \cup {Victim}, Env) /\ chunksize(a, Victim) = call.nb
  BY <1>1, <1>2, <1>4, <1>5, Stays DEF SameHeap
<1>7. chunksize(a, Victim) >= call.nb
  BY <1>3, <1>6, FitType
<1> QED
  BY <1>1, <1>2, <1>3, <1>4, <1>5, <1>6, <1>7, ServedHolds DEF K

LEMMA ExactFitCachedOwns == ASSUME GoesOn, ExactFitCached PROVE Holding'
<1> DEFINE q == next_chunk(av, Victim)
           b == set_inuse_bit(TakenOff, q)
           a == tcache_put(b, Victim, call.nb)
           K == Held \cup Tops(av)
           M == K \cup {Victim}
<1>1. /\ Going /\ call \in Searches /\ TakenOff \in Fit /\ av \in Fit
      /\ call.nb \in Nat /\ call.nb >= MINSIZE /\ aligned_OK(call.nb)
      /\ Owned(av, Held, Env)
      /\ ~TakenOff.died =>
           /\ Stock(TakenOff, M, Env) /\ Victim \notin K
           /\ TakenOff.top = av.top
           /\ chunksize(TakenOff, Victim) = chunksize(av, Victim)
  BY VictimSearch DEF ExactFitCached
<1>2. /\ av' = a /\ call' = [call EXCEPT !.return_cached = TRUE] /\ UNCHANGED <<maps, mmapped, live>>
      /\ chunksize(av, Victim) = call.nb /\ csize2tidx(call.nb) < TCACHE_BINS
  BY DEF ExactFitCached, ExactFit, CacheRoom
<1>3. a \in Fit /\ ~a.died
  BY <1>2 DEF GoesOn, Alive
<1>4. SameHeap(TakenOff, b) /\ Aside(TakenOff, b) /\ b.top = TakenOff.top /\ b \in Fit
  BY <1>1, PinsStay
<1> HIDE DEF b
<1>5. a.died = b.died
  BY <1>4 DEF tcache_put, Fit, Arenas
<1>6. ~TakenOff.died
  BY <1>3, <1>4, <1>5 DEF Aside
<1>7. Stock(b, M, Env) /\ chunksize(b, Victim) >= call.nb /\ Victim \in M
  <2>1. chunksize(b, Victim) = call.nb
    BY <1>1, <1>2, <1>4, <1>6 DEF SameHeap
  <2> QED
    BY <1>1, <1>4, <1>6, <2>1, Stays
<1> HIDE DEF M
<1>8. Stock(a, M \ {Victim}, Env) /\ a.top = b.top
  BY <1>1, <1>2, <1>4, <1>7, TcachePutStock
<1>9. Owned(av', Held, Env)
  <2>1. M \ {Victim} = K
    BY <1>1, <1>6 DEF M
  <2>2. Tops(a) = Tops(av) /\ a.top = av.top
    BY <1>1, <1>4, <1>6, <1>8 DEF Tops
  <2> QED
    BY <1>1, <1>2, <1>8, <2>1, <2>2 DEF Owned, K
<1>10. call' \in Searches
  BY <1>1, <1>2, SearchWith
<1>11. call'.op = call.op /\ call'.init = call.init /\ call'.nb = call.nb
  BY <1>1, <1>2 DEF Searches
<1> QED
  BY <1>1, <1>2, <1>9, <1>10, <1>11, StillSearches DEF Going

LEMMA UnfitGoesToBinOwns == ASSUME GoesOn, UnfitGoesToBin PROVE Holding'
<1> DEFINE a == PlaceInBin(TakenOff, Victim)
           K == Held \cup Tops(av)
           M == K \cup {Victim}
<1>1. /\ Going /\ call \in Searches /\ TakenOff \in Fit /\ av \in Fit
      /\ Owned(av, Held, Env)
      /\ ~TakenOff.died => Stock(TakenOff, M, Env) /\ Victim \notin K /\ TakenOff.top = av.top
  BY VictimSearch DEF UnfitGoesToBin
<1>2. av' = a /\ call' = [call EXCEPT !.iters = @ + 1] /\ UNCHANGED <<maps, mmapped, live>>
  BY DEF UnfitGoesToBin
<1>3. ~TakenOff.died
  BY <1>1, <1>2, PlaceDies DEF GoesOn
<1>4. Victim \in M /\ Stock(TakenOff, M, Env)
  BY <1>1, <1>3
<1> HIDE DEF M
<1>5. Stock(a, M \ {Victim}, Env) /\ a.top = TakenOff.top
  BY <1>1, <1>4, PlaceInBinStock
<1> HIDE DEF a
<1>6. Owned(av', Held, Env)
  <2>1. M \ {Victim} = K
    BY <1>1, <1>3 DEF M
  <2>2. Tops(a) = Tops(av) /\ a.top = av.top
    BY <1>1, <1>3, <1>5 DEF Tops
  <2> QED
    BY <1>1, <1>2, <1>5, <2>1, <2>2 DEF Owned, K
<1>7. call' \in Searches
  <2>1. call.iters + 1 \in Int
    BY <1>1, SearchType
  <2> QED
    BY <1>1, <1>2, <2>1, SearchWith
<1>8. call'.op = call.op /\ call'.init = call.init /\ call'.nb = call.nb
  BY <1>1, <1>2 DEF Searches
<1> QED
  BY <1>1, <1>2, <1>6, <1>7, <1>8, StillSearches DEF Going

LEMMA CachedServesOwns == ASSUME GoesOn, CachedServes PROVE Holding'
<1> DEFINE i == csize2tidx(call.nb)
           s == av.cached[i]
           a == [av EXCEPT !.cached[i] = Tail(s)]
           K == Held \cup Tops(av)
<1>1. Alive /\ call \in Searches /\ av \in Fit /\ call.return_cached /\ Going
  BY LoopEnds DEF CachedServes, GoesOn, Going
<1>2. i \in CacheIdx /\ s # <<>>
  BY <1>1 DEF Alive, CachedStays
<1>3. Found(a, Head(s)) /\ UNCHANGED <<maps, mmapped>>
  BY <1>1 DEF CachedServes, Fit, Arenas
<1>4. /\ call.nb \in Nat /\ call.nb >= MINSIZE /\ aligned_OK(call.nb)
      /\ Owned(av, Held, Env) /\ Stock(av, K, Env)
  BY <1>1, SearchFor
<1>5. i * MALLOC_ALIGNMENT = call.nb - MINSIZE
  BY <1>4, CacheIdxExact
<1>6. a \in Fit /\ ~a.died
  BY <1>3 DEF Found, GoesOn, Alive
<1> HIDE DEF i, K
<1>7. Pops(av, i, s, a) /\ s = av.cached[i]
  BY DEF Pops
<1> HIDE DEF a, s
<1>8. /\ Stock(a, K \cup {Head(s)}, Env) /\ Head(s) \notin K /\ a.top = av.top
      /\ chunksize(a, Head(s)) >= MINSIZE + i * MALLOC_ALIGNMENT
  <2>1. av \in Fit /\ Stock(av, K, Env) /\ i \in CacheIdx /\ s = av.cached[i] /\ s # <<>>
    BY <1>1, <1>2, <1>4, <1>7
  <2>2. a \in Fit /\ Pops(av, i, s, a)
    BY <1>6, <1>7
  <2> QED
    BY ONLY <2>1, <2>2, CacheServed
<1>9. chunksize(a, Head(s)) >= call.nb
  BY <1>4, <1>5, <1>8, Sizes
<1> QED
  BY <1>1, <1>3, <1>6, <1>8, <1>9, ServedHolds DEF K

\* A chunk is taken off its bin and cut.
LEMMA UnlinkServes ==
  ASSUME NEW a \in Fit, NEW K, NEW e, Stock(a, K, e), NEW v \in Int,
         NEW nb \in Nat, nb >= MINSIZE, chunksize(a, v) >= nb,
         NEW b, b = SplitOff(unlink_chunk(a, v), v, nb), ~b.died
  PROVE  /\ Stock(b, K \cup {v}, e) /\ v \notin K /\ b.top = a.top
         /\ chunksize(b, v) >= nb /\ b \in Fit
<1> DEFINE u == unlink_chunk(a, v)
           M == K \cup {v}
<1>1. u \in Fit
  BY UnlinkKeeps DEF Keeps, Safe
<1>2. b = SplitOff(u, v, nb)
  OBVIOUS
<1> HIDE DEF u
<1>3. Keeps(u, b)
  BY <1>1, <1>2, SplitOffKeeps
<1>4. ~u.died /\ b \in Fit
  BY <1>3 DEF Keeps, Safe
<1>5. v \in On(a) /\ Stock(u, M, e) /\ SameHeap(a, u) /\ u.top = a.top
  BY <1>4, UnlinkStock DEF u
<1>6. v \notin K
  BY <1>5 DEF Stock
<1>7. v \in M
  OBVIOUS
<1> HIDE DEF M
<1>8. chunksize(u, v) >= nb
  BY <1>5 DEF SameHeap
<1>9. Stock(b, M, e) /\ b.top = u.top /\ chunksize(b, v) >= nb
  BY <1>1, <1>2, <1>5, <1>7, <1>8, SplitOffStock
<1> QED
  BY <1>4, <1>5, <1>6, <1>9 DEF M

LEMMA LargeBinServesOwns == ASSUME GoesOn, LargeBinServes PROVE Holding'
<1> DEFINE bin == av.bins[call.idx]
           k == Max(OwnFits)
           tie == k < Len(bin) /\ chunksize(av, bin[k + 1]) = chunksize(av, bin[k])
           victim == IF k < Len(bin) /\ chunksize(av, bin[k + 1]) = chunksize(av, bin[k])
                     THEN bin[k + 1] ELSE bin[k]
           a == SplitOff(unlink_chunk(av, victim), victim, call.nb)
           K == Held \cup Tops(av)
<1>1. /\ Alive /\ call \in Searches /\ av \in Fit /\ call.nb \in Nat /\ call.nb >= MINSIZE
      /\ call.idx = bin_index(call.nb) /\ Going
  BY LoopEnds, SearchType DEF LargeBinServes, GoesOn, Going
<1>2. bin \in Seq(Int)
  BY <1>1, OwnBin, SMTT(30)
<1>3. OwnFits # {} /\ OwnFits \subseteq DOMAIN bin /\ \A j \in OwnFits : chunksize(av, bin[j]) >= call.nb
  BY DEF LargeBinServes, OwnFits
<1>4. Found(a, victim) /\ UNCHANGED <<maps, mmapped>>
  BY DEF LargeBinServes
<1> HIDE DEF bin
<1>5. k \in 1 .. Len(bin) /\ k \in OwnFits
  <2>1. OwnFits \in SUBSET (1 .. Len(bin)) /\ Len(bin) \in Nat
    BY <1>2, <1>3
  <2> QED
    BY <1>3, <2>1, MaxOf
<1> HIDE DEF k
<1>6. victim \in Int /\ chunksize(av, victim) >= call.nb
  <2>1. bin[k] \in Int /\ chunksize(av, bin[k]) >= call.nb
    BY <1>2, <1>3, <1>5
  <2>2. k < Len(bin) => bin[k + 1] \in Int
    <3>1. k < Len(bin) => k + 1 \in 1 .. Len(bin)
      BY <1>2, <1>5
    <3> QED
      BY <1>2, <3>1
  <2> QED
    BY <2>1, <2>2
<1> HIDE DEF victim
<1>7. a \in Fit /\ ~a.died
  BY <1>4 DEF Found, GoesOn, Alive
<1>8. a = SplitOff(unlink_chunk(av, victim), victim, call.nb)
  OBVIOUS
<1> HIDE DEF a, K
<1>9. Stock(av, K, Env)
  BY <1>1, SearchFor DEF K
<1>10. /\ Stock(a, K \cup {victim}, Env) /\ victim \notin K /\ a.top = av.top
       /\ chunksize(a, victim) >= call.nb
  BY <1>1, <1>6, <1>7, <1>8, <1>9, UnlinkServes
<1> QED
  BY <1>1, <1>4, <1>7, <1>10, ServedHolds DEF K

LEMMA UnmarkedStays ==
  ASSUME av \in Fit, NEW n
  PROVE  /\ SameHeap(av, Unmarked(n)) /\ Aside(av, Unmarked(n)) /\ Unmarked(n).top = av.top
         /\ Unmarked(n).died = av.died /\ Unmarked(n) \in Fit /\ Unmarked(n).hdr = av.hdr
         /\ Unmarked(n).system_mem = av.system_mem /\ Unmarked(n).contiguous = av.contiguous
         /\ Unmarked(n).have_fastchunks = av.have_fastchunks
<1> DEFINE B == {i \in av.binmap : i \in Marked /\ i < n => i \in Larger}
<1>1. Unmarked(n) = [av EXCEPT !.binmap = B]
  BY DEF Unmarked, Fit, Arenas
<1> HIDE DEF B
<1>2. /\ Unmarked(n).hdr = av.hdr /\ Unmarked(n).brk = av.brk /\ Unmarked(n).tcache = av.tcache
      /\ Unmarked(n).bins = av.bins /\ Unmarked(n).fast = av.fast
      /\ Unmarked(n).cached = av.cached /\ Unmarked(n).died = av.died
      /\ Unmarked(n).top = av.top /\ Unmarked(n).system_mem = av.system_mem
      /\ Unmarked(n).contiguous = av.contiguous
      /\ Unmarked(n).have_fastchunks = av.have_fastchunks
  BY <1>1 DEF Fit, Arenas
<1>3. Unmarked(n) \in Fit
  BY UnmarkedKeeps DEF Keeps, Safe
<1> QED
  BY <1>2, <1>3, Same DEF Aside

LEMMA BinServesOwns == ASSUME GoesOn, BinServes PROVE Holding'
<1> DEFINE i == Min(Larger)
           victim == Last(av.bins[i])
           ok == chunksize(av, victim) >= call.nb
           b == Checked(Unmarked(i), ok)
           remains == chunksize(av, victim) - call.nb >= MINSIZE
           c == SplitOff(unlink_chunk(b, victim), victim, call.nb)
           r == IF remains /\ in_smallbin_range(call.nb) THEN victim + call.nb
                ELSE c.last_remainder
           a == [c EXCEPT !.last_remainder = r]
           K == Held \cup Tops(av)
<1>1. Alive /\ call \in Searches /\ av \in Fit /\ call.nb \in Nat /\ call.nb >= MINSIZE
      /\ Larger # {} /\ Going
  BY LoopEnds DEF BinServes, GoesOn, Going
<1>2. i \in Larger
  <2>1. Larger \subseteq Nat
    BY <1>1, FieldType DEF Larger, Marked
  <2> QED
    BY <1>1, <2>1, MinOf
<1>3. i \in 1 .. NBINS - 1 /\ av.bins[i] # <<>>
  BY <1>1, <1>2, FieldType DEF Larger, Marked
<1> HIDE DEF i
<1>4. victim \in Int
  <2>1. av.bins[i] \in Seq(Int)
    BY <1>1, <1>3, FieldType DEF Bins
  <2>2. victim = av.bins[i][Len(av.bins[i])]
    BY DEF Last
  <2> QED
    BY <1>3, <2>1, <2>2
<1>5. b \in Fit
  BY <1>1, UnmarkedStays, CheckedFit
<1>6. c \in Fit
  <2> HIDE DEF b, victim
  <2> QED
    BY <1>1, <1>4, <1>5, UnlinkAndSplit
<1>7. Found(a, victim) /\ UNCHANGED <<maps, mmapped>>
  BY <1>6 DEF BinServes, i, Fit, Arenas
<1> HIDE DEF ok
<1>8. c = SplitOff(unlink_chunk(b, victim), victim, call.nb) /\ b = Checked(Unmarked(i), ok)
  OBVIOUS
<1> HIDE DEF c, victim, b, r
<1>9. /\ a.died = c.died /\ a.hdr = c.hdr /\ a.top = c.top /\ a.brk = c.brk
      /\ a.tcache = c.tcache /\ a.bins = c.bins /\ a.fast = c.fast /\ a.cached = c.cached
  BY <1>6 DEF Fit, Arenas
<1>10. a \in Fit /\ ~a.died
  BY <1>7 DEF Found, GoesOn, Alive
<1> HIDE DEF a, K
<1>11. ~b.died
  <2>1. Keeps(unlink_chunk(b, victim), c) /\ Keeps(b, unlink_chunk(b, victim))
    BY <1>1, <1>4, <1>5, <1>8, UnlinkKeeps, SplitOffKeeps DEF Keeps, Safe
  <2> QED
    BY <1>9, <1>10, <2>1 DEF Keeps, Safe
<1>12. ok /\ b = Unmarked(i)
  <2> DEFINE u == Unmarked(i)
  <2>1. u \in Fit /\ ~Checked(u, ok).died /\ b = Checked(u, ok)
    BY <1>1, <1>8, <1>11, UnmarkedStays
  <2> HIDE DEF u
  <2> QED
    BY <2>1, CheckedAlive DEF u
<1>13. Stock(b, K, Env) /\ b.top = av.top /\ chunksize(b, victim) = chunksize(av, victim)
  <2>1. Stock(av, K, Env)
    BY <1>1, SearchFor DEF K
  <2>2. SameHeap(av, b) /\ Aside(av, b) /\ b.top = av.top
    BY <1>1, <1>12, UnmarkedStays
  <2> QED
    BY <2>1, <2>2, Stays DEF SameHeap
<1>14. chunksize(b, victim) >= call.nb
  BY <1>12, <1>13 DEF ok
<1>15. /\ Stock(c, K \cup {victim}, Env) /\ victim \notin K /\ c.top = b.top
       /\ chunksize(c, victim) >= call.nb
  BY <1>1, <1>4, <1>5, <1>8, <1>9, <1>10, <1>13, <1>14, UnlinkServes
<1>16. Stock(a, K \cup {victim}, Env) /\ chunksize(a, victim) = chunksize(c, victim)
  <2>1. SameHeap(c, a)
    BY <1>9, Same
  <2>2. Aside(c, a)
    BY <1>9 DEF Aside
  <2> QED
    BY <1>15, <2>1, <2>2, Stays DEF SameHeap
<1> QED
  BY <1>1, <1>7, <1>9, <1>10, <1>13, <1>15, <1>16, ServedHolds DEF K

\* The bit map has been swept, and top may be used or not.
LEMMA SweptIs ==
  ASSUME av \in Fit, ~Swept.died
  PROVE  /\ Swept \in Fit /\ SameHeap(av, Swept) /\ Aside(av, Swept) /\ Swept.top = av.top
         /\ Swept.hdr = av.hdr /\ Swept.brk = av.brk /\ Swept.system_mem = av.system_mem
         /\ Swept.have_fastchunks = av.have_fastchunks
         /\ \A H, e : Owned(av, H, e) => Owned(Swept, H, e)
<1> DEFINE u == Unmarked(NBINS)
           ok == chunksize(av, av.top) <= av.system_mem
<1>1. u \in Fit
  BY UnmarkedStays
<1>2. Swept = Checked(u, ok)
  BY DEF Swept
<1>3. Swept = u
  <2> HIDE DEF u, ok
  <2> QED
    BY <1>1, <1>2, CheckedAlive
<1>4. /\ Swept \in Fit /\ SameHeap(av, Swept) /\ Aside(av, Swept) /\ Swept.top = av.top
      /\ Swept.hdr = av.hdr /\ Swept.system_mem = av.system_mem
      /\ Swept.have_fastchunks = av.have_fastchunks
  BY <1>3, UnmarkedStays
<1>5. Swept.brk = av.brk
  BY <1>4 DEF SameHeap
<1>6. \A H, e : Owned(av, H, e) => Owned(Swept, H, e)
  <2> TAKE H, e
  <2>1. Tops(Swept) = Tops(av)
    BY <1>4 DEF Tops
  <2> QED
    BY <1>4, <2>1, Stays DEF Owned
<1> QED
  BY <1>4, <1>5, <1>6

LEMMA MinSizePositive == MINSIZE \in Nat /\ MINSIZE > 0 /\ MINSIZE >= 2 * CHUNK_HDR_SZ /\ CHUNK_HDR_SZ > 0
<1>1. Least > 0
  BY Sizes DEF Least
<1> QED
  BY <1>1, Sizes DEF Least

\* The facts a call has at the end of the loop.
LEMMA EndsIn ==
  ASSUME GoesOn, LoopDone
  PROVE  /\ Going /\ Alive /\ Holding /\ call \in Searches /\ call.pc = "unsorted"
         /\ av \in Fit /\ mp \in Params /\ mmapped \in Mappings
         /\ call.nb \in Nat /\ call.nb >= MINSIZE
         /\ Owned(av, Held, Env) /\ Stock(av, Held \cup Tops(av), Env)
  BY LoopEnds, SearchFor DEF GoesOn, Going, Alive

\* Where there is room there is a chunk.
LEMMA RoomIsChunk ==
  ASSUME NEW a \in Fit, NEW H, NEW e, Owned(a, H, e), chunksize(a, a.top) > 0
  PROVE  a.top # NULL /\ a.top \in DOMAIN a.hdr /\ a.top \in Nat \ {0}
<1>1. a.top \in DOMAIN a.hdr
  BY DEF chunksize
<1>2. a.top \in Nat \ {0}
  BY <1>1, StockChunks DEF Owned
<1> QED
  BY <1>1, <1>2 DEF NULL

LEMMA TopServesOwns == ASSUME GoesOn, TopServes PROVE Holding'
<1> DEFINE a == SplitTop(Swept, call.nb)
<1>1. /\ Alive /\ Holding /\ call \in Searches /\ av \in Fit
      /\ call.nb \in Nat /\ call.nb >= MINSIZE /\ Owned(av, Held, Env)
  BY EndsIn DEF TopServes, UsesTop
<1>2. Found(a, av.top) /\ UNCHANGED <<maps, mmapped>> /\ chunksize(av, av.top) >= call.nb + MINSIZE
  BY DEF TopServes, TopFits
<1>3. a \in Fit /\ ~a.died
  BY <1>2 DEF Found, GoesOn, Alive
<1>4. ~Swept.died
  <2>1. Swept \in Fit
    BY <1>1, SweptKeeps DEF Keeps, Safe
  <2>2. Keeps(Swept, a)
    BY <1>1, <2>1, SplitTopKeeps
  <2> HIDE DEF a
  <2> QED
    BY <1>3, <2>2 DEF Keeps, Safe
<1>5. /\ Swept \in Fit /\ Owned(Swept, Held, Env) /\ Swept.top = av.top
      /\ chunksize(Swept, av.top) = chunksize(av, av.top)
  BY <1>1, <1>4, SweptIs DEF SameHeap
<1>6. av.top # NULL
  <2>1. chunksize(av, av.top) \in Int
    BY <1>1, FitType
  <2>2. chunksize(av, av.top) > 0
    BY <1>1, <1>2, <2>1, Sizes, MinSizePositive
  <2> QED
    BY <1>1, <2>2, RoomIsChunk
<1> HIDE DEF a
<1>7. Owned(a, Held \cup {av.top}, Env) /\ chunksize(a, av.top) = call.nb
  BY <1>1, <1>2, <1>5, <1>6, SplitTopOwned DEF a
<1>8. av.top \notin Held
  BY <1>1 DEF Owned
<1>9. chunksize(a, av.top) >= call.nb
  BY <1>1, <1>7
<1> QED
  BY <1>1, <1>2, <1>3, <1>7, <1>8, <1>9, FoundHolds

LEMMA ConsolidatesAgainOwns == ASSUME GoesOn, ConsolidatesAgain PROVE Holding'
<1>1. /\ Alive /\ Holding /\ call \in Searches /\ av \in Fit /\ Owned(av, Held, Env)
  BY EndsIn DEF ConsolidatesAgain, UsesTop
<1>2. /\ av' = malloc_consolidate(Swept) /\ UNCHANGED <<maps, mmapped, live>> /\ ~av'.died
      /\ call' = [call EXCEPT !.idx = bin_index(call.nb), !.iters = 0]
  BY DEF ConsolidatesAgain, GoesOn
<1>3. ~Swept.died
  <2>1. Swept \in Fit
    BY <1>1, SweptKeeps DEF Keeps, Safe
  <2> QED
    BY <1>2, <2>1, Consolidates DEF Safe
<1>4. Swept \in Fit /\ Owned(Swept, Held, Env)
  BY <1>1, <1>3, SweptIs
<1>5. Owned(av', Held, Env)
  BY <1>2, <1>4, ConsolidateOwned DEF Sound
<1>6. call' \in Searches
  <2>1. \A n \in Int : [call EXCEPT !.idx = bin_index(call.nb), !.iters = n] \in Searches
    BY <1>1, SearchWith
  <2>2. 0 \in Int
    OBVIOUS
  <2> QED
    BY <1>2, <2>1, <2>2, Zenon
<1>7. call'.op = call.op /\ call'.init = call.init /\ call'.nb = call.nb
  BY <1>1, <1>2 DEF Searches
<1> QED
  BY <1>1, <1>2, <1>5, <1>6, <1>7, StillSearches

LEMMA MapIsRefusedOwns == ASSUME GoesOn, MapIsRefused PROVE Holding'
<1>1. /\ Alive /\ Holding /\ call \in Searches /\ av \in Fit /\ Owned(av, Held, Env)
  BY EndsIn DEF MapIsRefused, NeedsSystem, UsesTop
<1>2. UNCHANGED <<av, maps, mmapped, live>> /\ call' = [call EXCEPT !.tried_mmap = TRUE]
  BY DEF MapIsRefused
<1>3. call' \in Searches
  BY <1>1, <1>2, SearchWith
<1>4. call'.op = call.op /\ call'.init = call.init /\ call'.nb = call.nb
  BY <1>1, <1>2 DEF Searches
<1>5. Owned(av', Held, Env)
  BY <1>1, <1>2
<1> QED
  BY <1>1, <1>2, <1>3, <1>4, <1>5, StillSearches

LEMMA SysmallocAbortsOwns == ASSUME GoesOn, SysmallocAborts PROVE Holding'
<1>1. av \in Fit /\ av' = [av EXCEPT !.died = TRUE] /\ ~av'.died
  BY DEF SysmallocAborts, GoesOn, Going, Alive
<1>2. av'.died
  BY <1>1 DEF Fit, Arenas
<1> QED
  BY <1>1, <1>2

-----------------------------------------------------------------------------
(* What the kernel maps *)

\* Rounding up to whole pages.
LEMMA AlignUp ==
  ASSUME NEW x \in Nat, NEW n \in Nat \ {0}
  PROVE  /\ ALIGN_UP(x, n) \in Nat /\ ALIGN_UP(x, n) >= x /\ ALIGN_UP(x, n) < x + n
         /\ ALIGN_UP(x, n) % n = 0
<1> DEFINE y == x + n - 1
<1>1. y \in Nat
  OBVIOUS
<1>2. ALIGN_UP(x, n) = ALIGN_DOWN(y, n)
  BY DEF ALIGN_UP, ALIGN_DOWN
<1>3. /\ ALIGN_DOWN(y, n) \in Nat /\ ALIGN_DOWN(y, n) <= y
      /\ ALIGN_DOWN(y, n) > y - n /\ ALIGN_DOWN(y, n) % n = 0
  <2> HIDE DEF y
  <2> QED
    BY <1>1, AlignDown
<1> DEFINE z == ALIGN_DOWN(y, n)
<1>4. z \in Nat /\ z <= y /\ z > y - n /\ z % n = 0
  BY <1>3
<1> HIDE DEF z
<1>5. z >= x /\ z < x + n
  BY <1>4
<1> QED
  BY <1>2, <1>4, <1>5 DEF z

\* The place mmap finds: free pages, above all that the break can reach.
LEMMA PlaceIs ==
  ASSUME NEW size \in Nat, size > 0, FreeMaps(size) # {}
  PROVE  /\ Place(size) \in Nat \ {0} /\ Place(size) > BrkLimit /\ Place(size) % PageSize = 0
         /\ Place(size) \div PageSize \in PagesOf(Place(size), size)
         /\ PagesOf(Place(size), size) \subseteq MapPages
         /\ \A x \in PagesOf(Place(size), size) : x \notin maps
<1> DEFINE n == Min(FreeMaps(size))
           p == n * PageSize
<1>1. n \in FreeMaps(size)
  <2>1. FreeMaps(size) \subseteq Nat
    BY MallocAssumption DEF FreeMaps
  <2> QED
    BY <2>1, MinOf
<1>2. n \in MapPages /\ PagesOf(p, size) \subseteq MapPages \ maps /\ n \in Nat
  BY <1>1, MallocAssumption DEF FreeMaps
<1>3. Place(size) = p
  BY DEF Place
<1>4. p > BrkLimit
  BY <1>2, KernelAssumption
<1>5. p \in Nat /\ p % PageSize = 0
  <2> HIDE DEF n
  <2>1. PageSize \in Nat \ {0} /\ p = n * PageSize
    BY Sizes
  <2> QED
    BY <1>2, <2>1
<1> HIDE DEF p
<1>6. p \in Nat \ {0}
  BY <1>4, <1>5, ArenaAssumption
<1>7. p \div PageSize \in PagesOf(p, size)
  <2> DEFINE t == p + size - 1
  <2>1. t \in Int /\ p \in Int /\ p <= t
    BY <1>5
  <2>2. PagesOf(p, size) = p \div PageSize .. t \div PageSize
    BY DEF PagesOf
  <2> HIDE DEF t
  <2>3. p \div PageSize \in Int /\ t \div PageSize \in Int /\ p \div PageSize <= t \div PageSize
    BY <2>1, PagesMeet
  <2> QED
    BY <2>2, <2>3
<1> QED
  BY <1>2, <1>3, <1>4, <1>5, <1>6, <1>7

\* A place in pages that are free is nobody's.
LEMMA FreshPlace ==
  ASSUME Alive, Holding, NEW p \in Int, p > BrkLimit, p \div PageSize \notin maps
  PROVE  p \notin Owners /\ p \notin DOMAIN mmapped /\ p \notin DOMAIN av.hdr /\ p # NULL
<1>1. Stock(av, Held \cup Tops(av), Env) /\ av \in Fit /\ mmapped \in Mappings /\ Blocks
  BY DEF Holding, Owned, Alive
<1>2. p \notin DOMAIN mmapped
  <2> SUFFICES ASSUME p \in DOMAIN mmapped PROVE FALSE
    OBVIOUS
  <2>1. p \div PageSize \in BlockPages(p)
    BY <1>1, BlocksAbove
  <2> QED
    BY <1>1, <2>1 DEF Blocks, IsBlock
<1>3. p \notin DOMAIN av.hdr
  <2> SUFFICES ASSUME p \in DOMAIN av.hdr PROVE FALSE
    OBVIOUS
  <2>1. p <= BrkLimit \/ p \div PageSize \in Env.pages
    BY <1>1, FirstPage
  <2>2. Env.pages \subseteq maps
    BY EnvIs DEF ArenaPages
  <2> QED
    BY <2>1, <2>2, ArenaAssumption
<1>4. p \notin Owners
  BY <1>2, <1>3, HeldIs
<1> QED
  BY <1>2, <1>3, <1>4, ArenaAssumption DEF NULL

\* The mapped chunks D go with the pages R, those of Q, one at most, come with
\* the pages N.
Remapped(D, Q, R, N) ==
  /\ DOMAIN mmapped' = (DOMAIN mmapped \ D) \cup Q
  /\ \A r \in DOMAIN mmapped \ D : r \notin Q /\ mmapped'[r] = mmapped[r]
  /\ maps' = (maps \ R) \cup N

LEMMA BlocksChange ==
  ASSUME Blocks, NEW D, D \subseteq DOMAIN mmapped, NEW Q, NEW R, NEW N, Remapped(D, Q, R, N),
         \A x : x \in R <=> \E d \in D : x \in BlockPages(d),
         \A q, r \in Q : q = r, \A q \in Q : IsBlock(q)' /\ BlockPages(q)' = N,
         Q = {} => N = {}, N \subseteq MapPages, \A x \in N : x \in maps => x \in R
  PROVE  Blocks' /\ ArenaPages' = ArenaPages
<1> DEFINE Old == DOMAIN mmapped \ D
<1>1. /\ DOMAIN mmapped' = Old \cup Q /\ maps' = (maps \ R) \cup N
      /\ \A r \in Old : r \notin Q /\ mmapped'[r] = mmapped[r]
  BY DEF Remapped
<1>2. \A r \in Old : r \in DOMAIN mmapped /\ r \notin D
  OBVIOUS
<1>3. \A r \in DOMAIN mmapped : r \in Old \/ r \in D
  OBVIOUS
<1> HIDE DEF Old
<1>4. \A r \in Old : BlockStart(r)' = BlockStart(r) /\ BlockSize(r)' = BlockSize(r)
  BY <1>1 DEF BlockStart, BlockSize
<1>5. \A r \in Old : BlockPages(r)' = BlockPages(r)
  BY <1>4 DEF BlockPages
<1>6. \A r \in Old : \A x \in BlockPages(r) : x \in maps /\ x \notin R /\ x \notin N
  <2> TAKE r \in Old
  <2>1. \A x \in BlockPages(r) : x \in maps
    BY <1>2 DEF Blocks, IsBlock
  <2>2. \A d \in D : \A x \in BlockPages(r) : x \notin BlockPages(d)
    BY <1>2 DEF Blocks
  <2> QED
    BY <2>1, <2>2
<1>7. Blocks'
  <2>1. maps' \subseteq MapPages
    BY <1>1 DEF Blocks
  <2>2. \A r \in Old : IsBlock(r)'
    <3> TAKE r \in Old
    <3>1. IsBlock(r)
      BY <1>2 DEF Blocks
    <3>2. BlockPages(r)' \subseteq maps'
      BY <1>1, <1>5, <1>6
    <3> QED
      BY <1>1, <1>4, <3>1, <3>2 DEF IsBlock
  <2>3. ASSUME NEW r \in Old, NEW s \in Old, r # s PROVE BlockPages(r)' \cap BlockPages(s)' = {}
    BY <1>2, <1>5, <2>3 DEF Blocks
  <2>4. ASSUME NEW r \in Old, NEW q \in Q
        PROVE  BlockPages(r)' \cap BlockPages(q)' = {} /\ BlockPages(q)' \cap BlockPages(r)' = {}
    BY <1>5, <1>6
  <2>5. \A r, s \in DOMAIN mmapped' : r # s => BlockPages(r)' \cap BlockPages(s)' = {}
    BY <1>1, <2>3, <2>4
  <2>6. \A r \in DOMAIN mmapped' : IsBlock(r)'
    BY <1>1, <2>2
  <2> QED
    BY <2>1, <2>5, <2>6 DEF Blocks
<1>8. ArenaPages' = ArenaPages
  <2>1. \A x : x \in ArenaPages <=> x \in maps /\ \A r \in DOMAIN mmapped : x \notin BlockPages(r)
    BY DEF ArenaPages
  <2>2. \A x : x \in ArenaPages' <=> x \in maps' /\ \A r \in DOMAIN mmapped' : x \notin BlockPages(r)'
    BY DEF ArenaPages
  <2>3. ASSUME NEW x \in ArenaPages PROVE x \in ArenaPages'
    <3>1. x \in maps /\ \A r \in DOMAIN mmapped : x \notin BlockPages(r)
      BY <2>1
    <3>2. x \notin R
      BY <3>1
    <3>3. x \notin N
      BY <3>1, <3>2
    <3> QED
      BY <1>1, <1>2, <1>5, <2>2, <3>1, <3>2, <3>3
  <2>4. ASSUME NEW x \in ArenaPages' PROVE x \in ArenaPages
    <3>1. x \in maps' /\ \A r \in DOMAIN mmapped' : x \notin BlockPages(r)'
      BY <2>2
    <3>2. x \notin N
      BY <1>1, <3>1
    <3>3. x \in maps /\ x \notin R
      BY <1>1, <3>1, <3>2
    <3>4. \A r \in DOMAIN mmapped : x \notin BlockPages(r)
      BY <1>1, <1>3, <1>5, <3>1, <3>3
    <3> QED
      BY <2>1, <3>3, <3>4
  <2> QED
    BY <2>3, <2>4
<1> QED
  BY <1>7, <1>8

LEMMA MapSizeIs ==
  ASSUME call.nb \in Nat
  PROVE  MapSize \in Nat /\ MapSize > 0 /\ MapSize % PageSize = 0 /\ MapSize >= call.nb
<1> DEFINE x == call.nb + SIZE_SZ
<1>1. x \in Nat /\ x > 0 /\ x >= call.nb /\ PageSize \in Nat \ {0}
  BY Sizes
<1>2. MapSize = ALIGN_UP(x, PageSize)
  BY DEF MapSize
<1> HIDE DEF x
<1>3. ALIGN_UP(x, PageSize) \in Nat /\ ALIGN_UP(x, PageSize) >= x /\ ALIGN_UP(x, PageSize) % PageSize = 0
  BY <1>1, AlignUp
<1> QED
  BY <1>1, <1>2, <1>3

LEMMA MapsRequestOwns == ASSUME GoesOn, MapsRequest PROVE Holding'
<1>0. PICK p, n : p = Place(MapSize) /\ n = MapSize
  OBVIOUS
<1> DEFINE N == PagesOf(p, n)
           m == [sz |-> n, prev_size |-> 0]
<1>1. /\ Alive /\ Holding /\ call \in Searches /\ av \in Fit /\ call.nb \in Nat
      /\ Owned(av, Held, Env) /\ Going
  BY EndsIn DEF MapsRequest, NeedsSystem, UsesTop
<1>2. n \in Nat /\ n > 0 /\ n % PageSize = 0 /\ n >= call.nb
  BY <1>0, <1>1, MapSizeIs
<1>3. /\ mmapped' = With(mmapped, p, m) /\ maps' = maps \cup N /\ Found(Swept, p)
      /\ FreeMaps(n) # {}
  BY <1>0 DEF MapsRequest
<1>4. /\ p \in Nat \ {0} /\ p > BrkLimit /\ p % PageSize = 0 /\ p \div PageSize \in N
      /\ N \subseteq MapPages /\ \A x \in N : x \notin maps
  BY <1>0, <1>2, <1>3, PlaceIs
<1>5. p \notin Owners /\ p \notin DOMAIN mmapped /\ p # NULL
  BY <1>1, <1>4, FreshPlace
<1>6. /\ av' = Swept /\ call' = Got(call.op, call.init, p) /\ UNCHANGED live /\ ~Swept.died
      /\ call'.pc = "got" /\ call'.op = call.op /\ call'.init = call.init /\ call'.p = p
  BY <1>3 DEF Found, Got, GoesOn
<1>7. Owned(av', Held, Env) /\ av'.tcache = av.tcache
  BY <1>1, <1>6, SweptIs DEF SameHeap
<1>8. mmapped'[p] = m /\ m.sz = n /\ m.prev_size = 0 /\ IsMmapped(p)'
  BY <1>3 DEF With, IsMmapped
<1> HIDE DEF m, N
<1>9. BlockStart(p)' = p /\ BlockSize(p)' = n
  <2>1. BlockStart(p)' = p - mmapped'[p].prev_size
    BY DEF BlockStart
  <2>2. BlockSize(p)' = mmapped'[p].prev_size + mmapped'[p].sz
    BY DEF BlockSize
  <2> QED
    BY <1>2, <1>4, <1>8, <2>1, <2>2
<1>10. BlockPages(p)' = N
  BY <1>9 DEF BlockPages, N
<1>11. IsBlock(p)'
  BY <1>2, <1>3, <1>4, <1>8, <1>9, <1>10 DEF IsBlock
<1> DEFINE D == {}
           Q == {p}
           R == {}
<1>12. Remapped(D, Q, R, N)
  <2>1. DOMAIN mmapped' = DOMAIN mmapped \cup {p}
    BY <1>3 DEF With
  <2>2. \A r \in DOMAIN mmapped : mmapped'[r] = mmapped[r] /\ r # p
    BY <1>3, <1>5 DEF With
  <2> QED
    BY <1>3, <2>1, <2>2 DEF Remapped
<1>13. Blocks' /\ ArenaPages' = ArenaPages
  <2>1. Blocks /\ D \subseteq DOMAIN mmapped /\ (Q = {} => N = {})
    BY <1>1 DEF Holding
  <2>2. \A x : x \in R <=> \E d \in D : x \in BlockPages(d)
    OBVIOUS
  <2>3. \A q, r \in Q : q = r
    OBVIOUS
  <2>4. \A q \in Q : IsBlock(q)' /\ BlockPages(q)' = N
    BY <1>10, <1>11
  <2>5. N \subseteq MapPages /\ \A x \in N : x \in maps => x \in R
    BY <1>4
  <2> HIDE DEF D, Q, R
  <2> QED
    BY ONLY <1>12, <2>1, <2>2, <2>3, <2>4, <2>5, BlocksChange
<1>14. Env' = Env
  BY <1>7, <1>13 DEF Env
<1>15. Taking' = {p} /\ Owners' = Owners \cup {p} /\ Held' = Held
  <2>1. call.pc # "got"
    BY <1>1, SearchType
  <2>2. Taking' = {p} /\ Owners' = Owners \cup {p}
    BY <1>6, <1>7, <2>1 DEF Taking, Owners
  <2>3. \A x : IsMmapped(x)' <=> IsMmapped(x) \/ x = p
    BY <1>3 DEF With, IsMmapped
  <2> QED
    BY <1>5, <2>2, <2>3 DEF Held
<1>16. Owned(av, Held, Env)'
  BY <1>7, <1>14, <1>15
<1>17. OpOwns' /\ SearchOwns' /\ FoundOwns'
  <2>1. call.pc \in {"bins", "unsorted"}
    BY <1>1, SearchType
  <2>2. OpOwns /\ SearchOwns
    BY <1>1, <2>1 DEF Holding, CallOwns
  <2>3. OpOwns'
    <3>1. call.op.mem \in DOMAIN live => call.op.mem # p
      BY <1>5 DEF Owners
    <3>2. \A x : IsMmapped(x)' <=> IsMmapped(x) \/ x = p
      BY <1>3 DEF With, IsMmapped
    <3> QED
      BY <1>6, <2>1, <2>2, <3>1, <3>2 DEF OpOwns
  <2>4. SearchOwns'
    BY <1>6, <1>7, <2>1, <2>2 DEF SearchOwns
  <2>5. FoundOwns'
    <3>1. call.nb = Seek(call.op, call.init)
      BY <2>1, <2>2 DEF SearchOwns
    <3>2. Yields(p)' = n
      BY <1>8 DEF Yields
    <3>3. p \notin DOMAIN live'
      BY <1>5, <1>6 DEF Owners
    <3>4. Yields(call.p)' = Yields(p)'
      BY <1>6 DEF Yields, IsMmapped
    <3>5. Seek(call.op, call.init)' = Seek(call.op, call.init)
      BY <1>6 DEF Seek
    <3> QED
      BY <1>2, <1>6, <3>1, <3>2, <3>3, <3>4, <3>5 DEF FoundOwns
  <2> QED
    BY <2>3, <2>4, <2>5
<1>18. CallOwns'
  <2>1. av.tcache \notin DOMAIN live
    BY <1>1 DEF Holding, CallOwns
  <2>2. av.tcache # p
    BY <1>5 DEF Owners
  <2> QED
    BY <1>6, <1>7, <1>15, <1>17, <2>1, <2>2 DEF CallOwns
<1> QED
  BY <1>13, <1>16, <1>18 DEF Holding

\* The arena's pages are G, the tcache is what it was.
EnvOf(G) == [pages |-> G, full |-> G, tcache |-> av.tcache]

\* The same before the new ones are filled.
Opened(G) == [pages |-> G, full |-> ArenaPages, tcache |-> av.tcache]

LEMMA EnvNow ==
  ASSUME NEW G, ArenaPages' = G, NEW H, Owned(av', H, EnvOf(G))
  PROVE  Env' = EnvOf(G) /\ av'.tcache = av.tcache
<1>1. av'.tcache = EnvOf(G).tcache
  BY DEF Owned, Stock
<1>2. EnvOf(G).tcache = av.tcache
  BY DEF EnvOf
<1>3. Env' = [pages |-> ArenaPages', full |-> ArenaPages', tcache |-> av'.tcache]
  BY DEF Env
<1> QED
  BY <1>1, <1>2, <1>3 DEF EnvOf

\* A chunk of the arena is no mapped one, also when the arena has got new pages.
LEMMA NotMappedLater ==
  ASSUME mmapped \in Mappings, Blocks, UNCHANGED mmapped,
         NEW a \in Fit, NEW K, NEW e, Stock(a, K, e), e.pages = ArenaPages',
         NEW p \in DOMAIN a.hdr
  PROVE  ~IsMmapped(p)
<1> SUFFICES ASSUME p \in DOMAIN mmapped PROVE FALSE
  BY DEF IsMmapped
<1>1. p > BrkLimit /\ p \in Int /\ p \div PageSize \in BlockPages(p)
  BY BlocksAbove
<1>2. p <= BrkLimit \/ p \div PageSize \in e.pages
  BY FirstPage
<1>3. p \div PageSize \notin ArenaPages'
  <2>1. BlockPages(p)' = BlockPages(p) /\ DOMAIN mmapped' = DOMAIN mmapped
    BY DEF BlockPages, BlockStart, BlockSize
  <2> QED
    BY <1>1, <2>1 DEF ArenaPages
<1> QED
  BY <1>1, <1>2, <1>3, ArenaAssumption

\* A chunk is found in an arena that may have got new pages.
LEMMA FoundInHolds ==
  ASSUME Alive, Holding, call \in Searches, NEW a \in Fit, NEW p, Found(a, p),
         UNCHANGED mmapped, Blocks', NEW G, ArenaPages' = G,
         Owned(a, Held \cup {p}, EnvOf(G)), p \notin Held, chunksize(a, p) >= call.nb
  PROVE  Holding'
<1>1. /\ av' = a /\ call' = Got(call.op, call.init, p) /\ UNCHANGED live
      /\ call'.pc = "got" /\ call'.op = call.op /\ call'.init = call.init /\ call'.p = p
  BY DEF Found, Got
<1>2. call.pc \in {"bins", "unsorted"} /\ call.pc # "got"
  BY SearchType
<1>3. Env' = EnvOf(G) /\ av'.tcache = av.tcache
  BY <1>1, EnvNow
<1>4. ~IsMmapped(p) /\ p # NULL
  <2>1. Stock(a, Held \cup {p} \cup Tops(a), EnvOf(G)) /\ p \in Held \cup {p} \cup Tops(a)
    BY DEF Owned
  <2>2. p \in DOMAIN a.hdr /\ p \in Nat \ {0}
    BY <2>1, StockChunks
  <2>3. EnvOf(G).pages = ArenaPages'
    BY DEF EnvOf
  <2>4. mmapped \in Mappings /\ Blocks
    BY DEF Alive, Holding
  <2>5. ~IsMmapped(p)
    BY <2>1, <2>2, <2>3, <2>4, NotMappedLater
  <2> QED
    BY <2>2, <2>5 DEF NULL
<1>5. Taking' = {p} /\ Owners' = Owners \cup {p} /\ Held' = Held \cup {p}
  <2>1. Taking' = {p} /\ Owners' = Owners \cup {p}
    BY <1>1, <1>2, <1>3 DEF Taking, Owners
  <2> QED
    BY <1>4, <2>1 DEF Held, IsMmapped
<1>6. Owned(av, Held, Env)'
  BY <1>1, <1>3, <1>5
<1>7. p \notin Owners
  BY <1>4 DEF Held
<1>8. OpOwns' /\ SearchOwns' /\ FoundOwns'
  <2>1. OpOwns /\ SearchOwns
    BY <1>2 DEF Holding, CallOwns
  <2>2. OpOwns'
    BY <1>1, <1>2, <2>1 DEF OpOwns, IsMmapped
  <2>3. SearchOwns'
    BY <1>1, <1>2, <1>3, <2>1 DEF SearchOwns
  <2>4. FoundOwns'
    <3>1. call.nb = Seek(call.op, call.init)
      BY <1>2, <2>1 DEF SearchOwns
    <3>2. Yields(p)' = chunksize(a, p)
      BY <1>1, <1>4 DEF Yields, IsMmapped
    <3>3. p \notin DOMAIN live'
      BY <1>1, <1>7 DEF Owners
    <3>4. Yields(call.p)' = Yields(p)'
      BY <1>1 DEF Yields, IsMmapped
    <3>5. Seek(call.op, call.init)' = Seek(call.op, call.init)
      BY <1>1 DEF Seek
    <3> QED
      BY <1>1, <3>1, <3>2, <3>3, <3>4, <3>5 DEF FoundOwns
  <2> QED
    BY <2>2, <2>3, <2>4
<1>9. av'.tcache \notin DOMAIN live' /\ av'.tcache \notin Taking'
  <2>1. av.tcache \notin DOMAIN live
    BY DEF Holding, CallOwns
  <2>2. av.tcache # p
    BY <1>4, <1>7 DEF Owners
  <2> QED
    BY <1>1, <1>3, <1>5, <2>1, <2>2
<1>10. CallOwns'
  BY <1>8, <1>9 DEF CallOwns
<1> QED
  BY <1>6, <1>10 DEF Holding

LEMMA NotFoundInHolds ==
  ASSUME Alive, Holding, call \in Searches, NEW a \in Fit, NotFound(a),
         UNCHANGED mmapped, Blocks', NEW G, ArenaPages' = G, Owned(a, Held, EnvOf(G))
  PROVE  Holding'
<1>1. /\ av' = a /\ UNCHANGED live
      /\ call' = IF call.init THEN [pc |-> "resume", op |-> call.op] ELSE Idle
  BY DEF NotFound
<1>2. call.pc \in {"bins", "unsorted"} /\ call.pc # "got"
  BY SearchType
<1>3. Env' = EnvOf(G) /\ av'.tcache = av.tcache
  BY <1>1, EnvNow
<1>4. call'.pc \in {"resume", "idle"} /\ call'.pc \notin {"bins", "unsorted", "got", "unmap"}
      /\ (call'.pc = "resume" => call'.op = call.op)
  BY <1>1 DEF Idle
<1>5. Owners' = Owners /\ Held' = Held /\ Taking' = {}
  BY <1>1, <1>2, <1>3, <1>4 DEF Owners, Held, Taking, IsMmapped
<1>6. Owned(av, Held, Env)'
  BY <1>1, <1>3, <1>5
<1>7. call'.pc # "idle" => OpOwns'
  <2>1. OpOwns
    BY <1>2 DEF Holding, CallOwns
  <2> QED
    BY <1>1, <1>2, <1>4, <2>1 DEF OpOwns, IsMmapped
<1>8. SearchOwns' /\ FoundOwns'
  BY <1>4 DEF SearchOwns, FoundOwns
<1>9. CallOwns'
  BY <1>1, <1>3, <1>5, <1>7, <1>8 DEF CallOwns, Holding
<1> QED
  BY <1>6, <1>9 DEF Holding

\* The request is cut from the top of an arena that has got memory, or fails.
LEMMA FromNewTopHolds ==
  ASSUME Alive, Holding, call \in Searches, call.nb \in Nat, call.nb >= MINSIZE,
         NEW a \in Fit, FromNewTop(a), ~av'.died,
         UNCHANGED mmapped, Blocks', NEW G, ArenaPages' = G,
         a.died \/ Owned(a, Held, EnvOf(G))
  PROVE  Holding'
<1> DEFINE b == SplitTop(a, call.nb)
<1>1. CASE chunksize(a, a.top) >= call.nb + MINSIZE
  <2>1. Found(b, a.top)
    BY <1>1 DEF FromNewTop
  <2>2. Keeps(a, b)
    BY SplitTopKeeps
  <2>3. b \in Fit /\ ~b.died /\ ~a.died
    <3>1. av' = b
      BY <2>1 DEF Found
    <3> HIDE DEF b
    <3> QED
      BY <2>2, <3>1 DEF Keeps, Safe
  <2> HIDE DEF b
  <2>4. a.top # NULL
    <3>1. chunksize(a, a.top) \in Int
      BY FitType
    <3>2. chunksize(a, a.top) > 0
      BY <1>1, <3>1, MinSizePositive
    <3> QED
      BY <2>3, <3>2, RoomIsChunk
  <2>5. Owned(b, Held \cup {a.top}, EnvOf(G)) /\ chunksize(b, a.top) = call.nb
    BY <1>1, <2>3, <2>4, SplitTopOwned DEF b
  <2>6. a.top \notin Held
    BY <2>3 DEF Owned
  <2>7. chunksize(b, a.top) >= call.nb
    BY <2>5
  <2> DEFINE t == a.top
  <2>8. Found(b, t) /\ Owned(b, Held \cup {t}, EnvOf(G)) /\ t \notin Held /\ chunksize(b, t) >= call.nb
    BY <2>1, <2>5, <2>6, <2>7
  <2> HIDE DEF t
  <2> QED
    BY <2>3, <2>8, FoundInHolds
<1>2. CASE ~(chunksize(a, a.top) >= call.nb + MINSIZE)
  <2>1. NotFound(a)
    BY <1>2 DEF FromNewTop
  <2>2. ~a.died
    BY <2>1 DEF NotFound
  <2> QED
    BY <2>1, <2>2, NotFoundInHolds
<1> QED
  BY <1>1, <1>2

\* What sysmalloc asks the kernel for.
LEMMA MoreIs ==
  ASSUME GoesOn, NeedsMore
  PROVE  /\ Going /\ Alive /\ Holding /\ call \in Searches /\ av \in Fit /\ mp \in Params
         /\ call.nb \in Nat /\ call.nb >= MINSIZE
         /\ old_size \in Nat /\ old_size < call.nb + MINSIZE
         /\ MoreSize \in Nat /\ MoreSize >= PageSize
         /\ MoreSize >= call.nb + mp.top_pad + MINSIZE - (IF av.contiguous THEN old_size ELSE 0)
         /\ av.top \in Nat /\ av.brk \in 1 .. BrkLimit
         /\ Owned(av, Held, Env) /\ Stock(av, Held \cup Tops(av), Env)
<1>1. /\ Going /\ Alive /\ Holding /\ call \in Searches /\ av \in Fit /\ mp \in Params
      /\ call.nb \in Nat /\ call.nb >= MINSIZE
      /\ Owned(av, Held, Env) /\ Stock(av, Held \cup Tops(av), Env)
  BY EndsIn DEF NeedsMore, NeedsSystem, UsesTop
<1>2. old_size \in Nat /\ av.top \in Nat
  <2>1. av.top \in DOMAIN av.hdr => chunksize(av, av.top) \in Nat /\ av.top \in Nat
    BY <1>1, StockChunks
  <2>2. av.top \notin DOMAIN av.hdr => chunksize(av, av.top) = 0
    BY DEF chunksize
  <2>3. av.top # NULL => av.top \in DOMAIN av.hdr
    <3>1. av.top # NULL => av.top \in Held \cup Tops(av)
      BY DEF Tops
    <3> QED
      BY <1>1, <3>1, StockChunks
  <2> QED
    BY <2>1, <2>2, <2>3 DEF old_size, NULL
<1>3. old_size < call.nb + MINSIZE
  BY <1>1, <1>2, Sizes DEF NeedsMore, NeedsSystem, TopFits, old_size
<1>4. av.brk \in 1 .. BrkLimit
  BY <1>1 DEF Stock, Backed
<1> DEFINE x == call.nb + mp.top_pad + MINSIZE - (IF av.contiguous THEN old_size ELSE 0)
<1>5. x \in Nat /\ x > 0
  <2>1. mp.top_pad \in Nat /\ MINSIZE \in Nat /\ MINSIZE > 0
    BY <1>1, ParamsType, MinSizePositive
  <2> QED
    BY <1>1, <1>2, <1>3, <2>1
<1>6. MoreSize = ALIGN_UP(x, PageSize)
  BY DEF MoreSize
<1> HIDE DEF x
<1>7. MoreSize \in Nat /\ MoreSize >= x /\ MoreSize % PageSize = 0 /\ PageSize \in Nat \ {0}
  BY <1>5, <1>6, AlignUp, Sizes
<1>8. MoreSize >= PageSize
  <2> DEFINE m == MoreSize
             k == PageSize
  <2>1. m \in Nat /\ m > 0 /\ m % k = 0 /\ k \in Nat \ {0}
    BY <1>5, <1>7
  <2> HIDE DEF m, k
  <2>2. m >= k
    <3> SUFFICES ASSUME m < k PROVE FALSE
      BY <2>1
    <3>1. m % k = m
      BY <2>1
    <3> QED
      BY <2>1, <3>1
  <2> QED
    BY <2>2 DEF m, k
<1> QED
  BY <1>1, <1>2, <1>3, <1>4, <1>7, <1>8 DEF x

\* The break has gone up; nothing else has changed that the chunks depend on.
Grown(a, b) ==
  /\ b.hdr = a.hdr /\ b.bins = a.bins /\ b.fast = a.fast /\ b.cached = a.cached
  /\ b.tcache = a.tcache /\ b.top = a.top /\ b.died = a.died
  /\ b.brk \in Int /\ a.brk <= b.brk /\ b.brk <= BrkLimit

LEMMA GrownOwned ==
  ASSUME NEW a \in Fit, NEW b, NEW H, NEW e, Owned(a, H, e), Grown(a, b)
  PROVE  Owned(b, H, e)
<1> DEFINE K == H \cup Tops(a)
<1>1. Stock(a, K, e)
  BY DEF Owned
<1>2. a.brk \in 1 .. BrkLimit /\ BrkLimit \in Int
  BY <1>1, ArenaAssumption DEF Stock, Backed
<1>3. b.brk \in 1 .. BrkLimit
  BY <1>2 DEF Grown
<1>4. \A r \in DOMAIN a.hdr : r + chunksize(a, r) <= a.brk => r + chunksize(a, r) <= b.brk
  <2> TAKE r \in DOMAIN a.hdr
  <2>1. r + chunksize(a, r) \in Int
    BY <1>1, StockChunks
  <2> QED
    BY <1>2, <2>1 DEF Grown
<1>5. Stock(b, K, e)
  BY <1>1, <1>3, <1>4, BreakMoves DEF Grown
<1>6. Tops(b) = Tops(a)
  BY DEF Tops, Grown
<1> QED
  BY <1>5, <1>6 DEF Owned, Grown

\* The memory it has passed is nobody's.
LEMMA GrownVacant ==
  ASSUME NEW a \in Fit, NEW b, NEW K, NEW e, Stock(a, K, e), Grown(a, b),
         NEW at \in Int, NEW size \in Nat, a.brk <= at, at + size <= b.brk
  PROVE  Vacant(b, at, size, e)
<1>1. a.brk \in 1 .. BrkLimit /\ BrkLimit \in Int
  BY ArenaAssumption DEF Stock, Backed
<1>2. ASSUME NEW r \in DOMAIN a.hdr
      PROVE  r \notin at .. at + size - 1 /\ (r < at => r + chunksize(a, r) <= at)
  <2> DEFINE s == chunksize(a, r)
             x == a.brk
             y == b.brk
  <2>1. r \in Nat \ {0} /\ s \in Nat \ {0}
    BY StockChunks
  <2>2. r + s <= x \/ r > BrkLimit
    BY AboveBreak
  <2>3. x \in Int /\ y \in Int /\ x <= y /\ y <= BrkLimit /\ BrkLimit \in Int /\ x <= at /\ at + size <= y
    BY <1>1 DEF Grown
  <2> HIDE DEF s, x, y
  <2>4. r \notin at .. at + size - 1 /\ (r < at => r + s <= at)
    BY <2>1, <2>2, <2>3
  <2> QED
    BY <2>4 DEF s
<1>3. On(b) = On(a) /\ \A r : chunksize(b, r) = chunksize(a, r)
  BY DEF On, Shelves, Grown, chunksize
<1>4. \A r \in On(b) : r \notin at .. at + size - 1
  BY <1>2, <1>3, StockChunks
<1>5. Within(b, at, size, e)
  BY DEF Within
<1>6. DOMAIN b.hdr = DOMAIN a.hdr
  BY DEF Grown
<1> QED
  BY <1>2, <1>3, <1>4, <1>5, <1>6 DEF Vacant, Clear

LEMMA EnvIsOf == Env = EnvOf(ArenaPages)
  BY DEF Env, EnvOf

LEMMA SamePages ==
  ASSUME UNCHANGED <<maps, mmapped>>
  PROVE  ArenaPages' = ArenaPages
  BY DEF ArenaPages, BlockPages, BlockStart, BlockSize

LEMMA NoMemoryOwns == ASSUME GoesOn, NoMemory PROVE Holding'
<1>1. Alive /\ Holding /\ call \in Searches /\ av \in Fit /\ Owned(av, Held, Env)
  BY MoreIs DEF NoMemory
<1>2. NotFound(Swept) /\ UNCHANGED <<maps, mmapped>>
  BY DEF NoMemory
<1>3. ~Swept.died
  BY <1>2 DEF NotFound, GoesOn
<1>4. Swept \in Fit /\ Owned(Swept, Held, Env)
  BY <1>1, <1>3, SweptIs
<1>5. Blocks'
  BY <1>1, <1>2, SameBlocks DEF Holding
<1>6. ArenaPages' = ArenaPages /\ Owned(Swept, Held, EnvOf(ArenaPages))
  BY <1>2, <1>4, EnvIsOf, SamePages
<1>7. PICK G : G = ArenaPages
  OBVIOUS
<1> QED
  BY <1>1, <1>2, <1>4, <1>5, <1>6, <1>7, NotFoundInHolds

LEMMA TopGrowsOwns == ASSUME GoesOn, TopGrows PROVE Holding'
<1> DEFINE m == Swept.system_mem + MoreSize
           k == Swept.brk + MoreSize
           b == [Swept EXCEPT !.brk = k, !.system_mem = m]
           n == old_size + MoreSize
           a == set_head(b, av.top, n, TRUE)
<1>1. /\ Alive /\ Holding /\ call \in Searches /\ av \in Fit /\ call.nb \in Nat /\ call.nb >= MINSIZE
      /\ old_size \in Nat /\ MoreSize \in Nat /\ MoreSize >= PageSize
      /\ av.top \in Nat /\ av.brk \in 1 .. BrkLimit /\ Owned(av, Held, Env)
  BY MoreIs DEF TopGrows
<1>2. FromNewTop(a) /\ UNCHANGED <<maps, mmapped>> /\ av.brk + MoreSize <= BrkLimit /\ av.brk = av.top + old_size
  BY <1>1 DEF TopGrows, Granted, old_end
<1>3. Swept \in Fit /\ Keeps(av, Swept)
  BY <1>1, SweptKeeps DEF Keeps, Safe
<1>4. k \in Int /\ m \in Int /\ n \in Int
  BY <1>1, <1>3, FieldType
<1>5. b \in Fit /\ Keeps(Swept, b) /\ b.died = Swept.died /\ b.hdr = Swept.hdr /\ b.bins = Swept.bins
      /\ b.fast = Swept.fast /\ b.cached = Swept.cached /\ b.tcache = Swept.tcache
      /\ b.top = Swept.top /\ b.brk = k
  <2> HIDE DEF k, m
  <2>1. b \in Fit /\ Keeps(Swept, b)
    BY <1>3, <1>4, BreakKeeps DEF Keeps, Safe
  <2> QED
    BY <1>3, <2>1 DEF Fit, Arenas
<1> HIDE DEF k, m, b, n
<1> DEFINE yes == TRUE
<1>6. yes \in BOOLEAN /\ av.top \in Int
  BY <1>1
<1> HIDE DEF yes
<1>7. CutsAt(b, set_head(b, av.top, n, yes), av.top, n)
  BY <1>4, <1>5, <1>6, HeadMakes
<1>8. a = set_head(b, av.top, n, yes)
  BY DEF yes
<1> HIDE DEF a
<1>9. a \in Fit /\ (b.died => a.died) /\ a.top = b.top /\ Aside(b, a)
  BY <1>7, <1>8 DEF CutsAt, Aside
<1>10. a.died \/ Owned(a, Held, Env)
  <2> SUFFICES ASSUME ~a.died PROVE Owned(a, Held, Env)
    OBVIOUS
  <2>1. ~Swept.died
    BY <1>5, <1>9
  <2>2. /\ Owned(Swept, Held, Env) /\ Swept.top = av.top /\ Swept.brk = av.brk
        /\ chunksize(Swept, av.top) = old_size
    BY <1>1, <2>1, SweptIs DEF SameHeap, old_size
  <2>3. TopSpans(Swept, a, n)
    <3>1. a.hdr = set_head(Swept, Swept.top, n, TRUE).hdr
      <4>1. a.hdr = set_head(b, av.top, n, TRUE).hdr
        BY <1>8 DEF yes
      <4> QED
        BY <1>3, <1>5, <2>2, <4>1 DEF set_head, Fit, Arenas
    <3>2. a.brk = Swept.top + n
      BY <1>1, <1>2, <1>5, <1>9, <2>2 DEF Aside, k, n
    <3>3. a.died = Swept.died
      <4>1. a.died = b.died
        BY <1>5, <1>8, HeadDies
      <4> QED
        BY <1>5, <4>1
    <3> QED
      BY <1>5, <1>9, <3>1, <3>2, <3>3 DEF TopSpans, Aside
  <2>4. Swept.top # NULL
    <3> SUFFICES ASSUME Swept.top = NULL PROVE FALSE
      OBVIOUS
    <3>1. av.top \notin DOMAIN av.hdr
      <4>1. \A p \in DOMAIN av.hdr : p \in Nat \ {0}
        BY <1>1, StockChunks DEF Owned
      <4> QED
        BY <2>2, <4>1 DEF NULL
    <3>2. old_size = 0
      BY <3>1 DEF old_size, chunksize
    <3> QED
      BY <1>1, <1>2, <2>2, <3>2 DEF NULL
  <2>5. n >= MINSIZE /\ Swept.top + n <= BrkLimit
    <3>1. PageSize >= MINSIZE
      BY KernelAssumption, Sizes
    <3> QED
      BY <1>1, <1>2, <2>2, <3>1, Sizes, ArenaAssumption DEF n
  <2> QED
    BY <1>1, <1>2, <1>3, <1>4, <2>2, <2>3, <2>4, <2>5, TopSpansOwned
<1>11. Blocks'
  BY <1>1, <1>2, SameBlocks DEF Holding
<1>12. ArenaPages' = ArenaPages /\ (a.died \/ Owned(a, Held, EnvOf(ArenaPages)))
  BY <1>2, <1>10, EnvIsOf, SamePages
<1>13. ~av'.died
  BY DEF GoesOn
<1>14. PICK G : G = ArenaPages
  OBVIOUS
<1> QED
  BY <1>1, <1>2, <1>9, <1>11, <1>12, <1>13, <1>14, FromNewTopHolds

Extended(a, x, m, b) == b = [a EXCEPT !.brk = x, !.system_mem = m]

LEMMA GrownIs ==
  ASSUME NEW a \in Fit, NEW x \in Int, NEW m \in Int, a.brk <= x, x <= BrkLimit,
         NEW b, Extended(a, x, m, b)
  PROVE  b \in Fit /\ Grown(a, b) /\ b.brk = x /\ b.died = a.died /\ b.top = a.top /\ b.hdr = a.hdr
<1>1. b \in Fit
  BY BreakKeeps DEF Keeps, Safe, Extended
<1>2. /\ b.hdr = a.hdr /\ b.bins = a.bins /\ b.fast = a.fast /\ b.cached = a.cached
      /\ b.tcache = a.tcache /\ b.top = a.top /\ b.died = a.died /\ b.brk = x
  BY DEF Fit, Arenas, Extended
<1> QED
  BY <1>1, <1>2 DEF Grown

\* Top moves to memory that is vacant.
LEMMA NewTopHolds ==
  ASSUME Alive, Holding, call \in Searches, call.nb \in Nat, call.nb >= MINSIZE,
         NEW b \in Fit, NEW at \in Nat \ {0}, NEW size \in Nat, size >= MINSIZE,
         FromNewTop(NewTop(b, at, size)), ~av'.died,
         UNCHANGED mmapped, Blocks', TopOK, NEW G, ArenaPages' = G,
         ArenaPages \subseteq G, G \subseteq ArenaPages \cup PagesOf(at, size),
         ~b.died => /\ Owned(b, Held, Opened(G)) /\ b.top = av.top /\ b.hdr = av.hdr
                    /\ Vacant(b, at, size, Opened(G))
  PROVE  Holding'
<1>1. av \in Fit /\ mp \in Params /\ (av.top = NULL \/ old_end % PageSize = 0)
  BY DEF Alive, TopOK
<1>5. PICK d0, e : d0 = Opened(G) /\ e = EnvOf(G)
  OBVIOUS
<1>6. /\ e.pages = d0.pages /\ e.tcache = d0.tcache /\ e.full \subseteq e.pages
      /\ e.full \subseteq d0.full \cup PagesOf(at, size)
  BY <1>5 DEF EnvOf, Opened
<1> DEFINE a == NewTop(b, at, size)
<1>2. a \in Fit /\ (b.died => a.died)
  BY <1>1, NewTopSafe DEF Safe
<1>3. a.died \/ Owned(a, Held, EnvOf(G))
  <2> SUFFICES ASSUME ~a.died PROVE Owned(a, Held, EnvOf(G))
    OBVIOUS
  <2>1. ~b.died
    BY <1>2
  <2>2. Owned(b, Held, d0) /\ Vacant(b, at, size, d0) /\ b.top = av.top /\ b.hdr = av.hdr
    BY <1>5, <2>1
  <2>3. b.top = NULL \/ old_end % PageSize = 0
    BY <1>1, <2>2
  <2>4. Owned(a, Held, e)
    BY <1>1, <1>6, <2>2, <2>3, NewTopOwned
  <2> QED
    BY <1>5, <2>4
<1>4. FromNewTop(a)
  OBVIOUS
<1> HIDE DEF a
<1> QED
  BY <1>2, <1>3, <1>4, FromNewTopHolds

\* Top moves to what the break has passed.
LEMMA PassedHolds ==
  ASSUME Alive, Holding, call \in Searches, call.nb \in Nat, call.nb >= MINSIZE,
         NEW a \in Fit, ~a.died => a = Swept,
         NEW b \in Fit, Grown(a, b), NEW at \in Nat \ {0}, NEW size \in Nat, size >= MINSIZE,
         av.brk <= at, at + size <= b.brk,
         FromNewTop(NewTop(b, at, size)), ~av'.died, TopOK, UNCHANGED <<maps, mmapped>>
  PROVE  Holding'
<1>1. Blocks'
  BY SameBlocks DEF Holding
<1>2. ArenaPages' = ArenaPages /\ Env = Opened(ArenaPages)
  BY SamePages DEF Env, Opened
<1>3. PICK G : G = ArenaPages
  OBVIOUS
<1>4. ASSUME ~b.died
      PROVE  /\ Owned(b, Held, Env) /\ b.top = av.top /\ b.hdr = av.hdr
             /\ Vacant(b, at, size, Env)
  <2>1. ~a.died /\ a = Swept /\ av \in Fit /\ Owned(av, Held, Env)
    BY <1>4 DEF Grown, Alive, Holding
  <2>2. Owned(a, Held, Env) /\ a.top = av.top /\ a.hdr = av.hdr /\ a.brk = av.brk
    BY <2>1, SweptIs
  <2>3. Owned(b, Held, Env) /\ b.top = av.top /\ b.hdr = av.hdr
    BY <2>2, GrownOwned DEF Grown
  <2>4. Vacant(b, at, size, Env)
    BY <2>2, GrownVacant DEF Owned
  <2> QED
    BY <2>3, <2>4
<1>5. UNCHANGED mmapped /\ ArenaPages' = G
  BY <1>2, <1>3
<1>6. ~b.died => /\ Owned(b, Held, Opened(G)) /\ b.top = av.top /\ b.hdr = av.hdr
                 /\ Vacant(b, at, size, Opened(G))
  BY <1>2, <1>3, <1>4
<1>7. ArenaPages \subseteq G /\ G \subseteq ArenaPages \cup PagesOf(at, size)
  BY <1>3
<1> QED
  BY <1>1, <1>5, <1>6, <1>7, NewTopHolds

LEMMA TopMovesOwns == ASSUME GoesOn, TopMoves PROVE Holding'
<1> DEFINE brk == av.brk
           aligned == ALIGN_UP(mem_of(brk), MALLOC_ALIGNMENT) - CHUNK_HDR_SZ
           wanted == (aligned - brk) + old_size
           end == brk + MoreSize
           correction == ALIGN_UP(end + wanted, PageSize) - end
           gap == IF old_size > 0 THEN brk - old_end ELSE 0
           b(c) == [Swept EXCEPT !.brk = end + c, !.system_mem = @ + MoreSize + gap + c]
           a(c) == NewTop(b(c), aligned, end - aligned + c)
<1>1. /\ Alive /\ Holding /\ call \in Searches /\ av \in Fit /\ mp \in Params
      /\ call.nb \in Nat /\ call.nb >= MINSIZE
      /\ old_size \in Nat /\ MoreSize \in Nat /\ MoreSize >= PageSize
      /\ av.top \in Nat /\ brk \in 1 .. BrkLimit /\ old_end \in Int
  BY MoreIs DEF TopMoves, old_end
<1>2. PICK c \in {0, correction} : /\ FromNewTop(a(c))
                                   /\ c = 0 \/ Granted(MoreSize + c)
  BY DEF TopMoves
<1>3. Swept \in Fit /\ Swept.brk = brk /\ Swept.system_mem \in Int
  <2>1. Swept \in Fit
    BY <1>1, SweptKeeps DEF Keeps, Safe
  <2>2. Swept.brk = brk
    BY <1>1, UnmarkedStays, CheckedKeeps DEF Swept, Checked, Aside, Fit, Arenas
  <2> QED
    BY <2>1, <2>2, FieldType
<1>4. /\ BrkLimit \in Nat /\ PageSize \in Nat \ {0} /\ MALLOC_ALIGNMENT \in Nat \ {0}
      /\ CHUNK_HDR_SZ \in Nat \ {0} /\ MINSIZE \in Nat /\ PageSize >= MINSIZE + MALLOC_ALIGNMENT
  BY Sizes, ArenaAssumption, KernelAssumption
<1>5. aligned \in Nat \ {0} /\ brk <= aligned /\ aligned < brk + MALLOC_ALIGNMENT
  <2> DEFINE x == mem_of(brk)
             y == ALIGN_UP(x, MALLOC_ALIGNMENT)
  <2>1. x \in Nat /\ x = brk + CHUNK_HDR_SZ
    BY <1>1, <1>4 DEF mem_of
  <2> HIDE DEF x
  <2>2. y \in Nat /\ y >= x /\ y < x + MALLOC_ALIGNMENT
    BY <1>4, <2>1, AlignUp
  <2>3. aligned = y - CHUNK_HDR_SZ
    BY DEF x
  <2> HIDE DEF y, brk, aligned
  <2> QED
    BY <1>1, <1>4, <2>1, <2>2, <2>3
<1> HIDE DEF aligned
<1>6. wanted \in Nat /\ end \in Nat /\ end <= BrkLimit /\ gap \in Int
  BY <1>1, <1>4, <1>5 DEF TopMoves, Granted
<1> HIDE DEF wanted, end, gap
<1>7. correction \in Nat
  <2>1. end + wanted \in Nat
    BY <1>6
  <2> DEFINE x == end + wanted
  <2>2. ALIGN_UP(x, PageSize) \in Nat /\ ALIGN_UP(x, PageSize) >= x
    <3> HIDE DEF x
    <3> QED
      BY <1>4, <2>1, AlignUp DEF x
  <2> DEFINE y == ALIGN_UP(x, PageSize)
  <2>3. y \in Nat /\ y >= end + wanted
    BY <2>2
  <2>4. correction = y - end
    OBVIOUS
  <2> HIDE DEF x, y, correction
  <2> QED
    BY <1>6, <2>3, <2>4
<1> HIDE DEF correction
<1>8. c \in Nat /\ end + c \in Int /\ end + c <= BrkLimit /\ brk <= end + c
  <2>1. c \in Nat
    BY <1>2, <1>7
  <2>2. c = 0 \/ av.brk + (MoreSize + c) <= BrkLimit
    BY <1>2 DEF Granted
  <2>3. end = av.brk + MoreSize
    BY DEF end
  <2> QED
    BY <1>1, <1>4, <1>6, <2>1, <2>2, <2>3
<1>9. end - aligned + c \in Nat /\ end - aligned + c >= MINSIZE /\ aligned + (end - aligned + c) <= end + c
  <2>1. end = av.brk + MoreSize
    BY DEF end
  <2> QED
    BY <1>1, <1>4, <1>5, <1>6, <1>8, <2>1
<1> DEFINE s == end - aligned + c
           x == end + c
           m == Swept.system_mem + MoreSize + gap + c
           d == b(c)
<1>10. m \in Int
  BY <1>1, <1>3, <1>6, <1>8
<1>11. Extended(Swept, x, m, d)
  BY DEF Extended
<1>12. FromNewTop(NewTop(d, aligned, s))
  BY <1>2
<1>13. x \in Int /\ Swept.brk <= x /\ x <= BrkLimit /\ s \in Nat /\ s >= MINSIZE /\ aligned + s <= x
  BY <1>3, <1>8, <1>9
<1> HIDE DEF d, m, s, x
<1>14. d \in Fit /\ Grown(Swept, d) /\ d.brk = x
  BY <1>3, <1>10, <1>11, <1>13, GrownIs
<1>15. ~av'.died /\ UNCHANGED <<maps, mmapped>> /\ TopOK
  BY DEF GoesOn, TopMoves
<1> HIDE DEF brk
<1>16. av.brk <= aligned /\ aligned + s <= d.brk
  BY <1>5, <1>13, <1>14 DEF brk
<1> QED
  BY <1>1, <1>3, <1>5, <1>12, <1>13, <1>14, <1>15, <1>16, PassedHolds

LEMMA TopMovesApartOwns == ASSUME GoesOn, TopMovesApart PROVE Holding'
<1> DEFINE ok == aligned_OK(mem_of(av.brk))
           b == Checked(Swept, ok)
           c == [b EXCEPT !.brk = @ + MoreSize, !.system_mem = @ + MoreSize]
<1>1. /\ Alive /\ Holding /\ call \in Searches /\ av \in Fit /\ mp \in Params
      /\ call.nb \in Nat /\ call.nb >= MINSIZE
      /\ MoreSize \in Nat /\ MoreSize >= PageSize /\ av.brk \in 1 .. BrkLimit
  BY MoreIs DEF TopMovesApart
<1>2. Swept \in Fit /\ Swept.brk = av.brk
  <2>1. Swept \in Fit
    BY <1>1, SweptKeeps DEF Keeps, Safe
  <2>2. Swept.brk = av.brk
    BY <1>1, UnmarkedStays DEF Swept, Checked, Aside, Fit, Arenas
  <2> QED
    BY <2>1, <2>2
<1>3. ok \in BOOLEAN
  BY DEF aligned_OK
<1>4. FromNewTop(NewTop(c, av.brk, MoreSize)) /\ UNCHANGED <<maps, mmapped>> /\ av.brk + MoreSize <= BrkLimit
      /\ ~av'.died /\ TopOK
  BY DEF TopMovesApart, Granted, GoesOn
<1> HIDE DEF ok
<1>5. b \in Fit /\ b.brk = av.brk /\ (~b.died => b = Swept)
  BY <1>2, <1>3, CheckedKeeps, CheckedAlive DEF Keeps, Safe, Checked, Fit, Arenas
<1> HIDE DEF b
<1> DEFINE x == b.brk + MoreSize
           m == b.system_mem + MoreSize
<1>6. x \in Int /\ m \in Int /\ b.brk <= x /\ x <= BrkLimit /\ av.brk + MoreSize = x
  BY <1>1, <1>4, <1>5, FieldType
<1>7. Extended(b, x, m, c)
  BY DEF Extended
<1> HIDE DEF c, x, m
<1>8. c \in Fit /\ Grown(b, c) /\ c.brk = x
  BY <1>5, <1>6, <1>7, GrownIs
<1>9. MoreSize >= MINSIZE /\ av.brk \in Nat \ {0} /\ av.brk <= av.brk /\ av.brk + MoreSize <= c.brk
  BY <1>1, <1>6, <1>8, Sizes, KernelAssumption
<1> QED
  BY <1>1, <1>4, <1>5, <1>8, <1>9, PassedHolds

LEMMA MaxIsMost ==
  ASSUME NEW x \in Int, NEW y \in Int
  PROVE  Max({x, y}) \in Int /\ Max({x, y}) >= x /\ Max({x, y}) >= y
<1>1. \E z \in {x, y} : \A w \in {x, y} : z >= w
  OBVIOUS
<1>2. Max({x, y}) \in {x, y} /\ \A w \in {x, y} : Max({x, y}) >= w
  BY <1>1 DEF Max
<1> QED
  BY <1>2

\* More pages take nothing from what the chunks stand on.
LEMMA MorePages ==
  ASSUME NEW a, NEW K, NEW e, NEW f, Stock(a, K, e),
         e.pages \subseteq f.pages, f.pages \subseteq MapPages, f.tcache = e.tcache,
         f.full = e.full
  PROVE  Stock(a, K, f)
  BY DEF Stock, Backed, Within

\* A fresh mapping is vacant: the break does not reach it, and no chunk has a
\* word on its pages.
LEMMA MappingIsVacant ==
  ASSUME NEW a \in Fit, NEW K, NEW e, Stock(a, K, e), NEW b, b.hdr = a.hdr,
         b.bins = a.bins, b.fast = a.fast, b.cached = a.cached,
         NEW at \in Nat \ {0}, NEW size \in Nat, at > BrkLimit, size > 0,
         \A x \in PagesOf(at, size) : x \notin e.pages,
         NEW f, PagesOf(at, size) \subseteq f.pages
  PROVE  Vacant(b, at, size, f)
<1>1. a.brk \in 1 .. BrkLimit /\ BrkLimit \in Int /\ PageSize \in Nat \ {0}
  BY ArenaAssumption, Sizes DEF Stock, Backed
<1>2. ASSUME NEW r \in DOMAIN a.hdr
      PROVE  r \notin at .. at + size - 1 /\ (r < at => r + chunksize(a, r) <= at)
  <2> DEFINE s == chunksize(a, r)
  <2>1. r \in Nat \ {0} /\ s \in Nat \ {0}
    BY StockChunks
  <2>2. r <= BrkLimit \/ r \div PageSize \in e.pages
    BY FirstPage
  <2>3. r + s <= a.brk \/ PagesOf(r, s) \subseteq e.pages
    BY DEF Stock, Backed, Within
  <2> HIDE DEF s
  <2>4. r \notin at .. at + size - 1
    <3> SUFFICES ASSUME r \in at .. at + size - 1 PROVE FALSE
      OBVIOUS
    <3> DEFINE last == at + size - 1
    <3>1. last \in Int /\ at <= r /\ r <= last
      BY <2>1
    <3> HIDE DEF last
    <3>2. at \div PageSize <= r \div PageSize /\ r \div PageSize <= last \div PageSize
          /\ at \div PageSize \in Int /\ r \div PageSize \in Int /\ last \div PageSize \in Int
      BY <2>1, <3>1, PagesMeet
    <3>3. r \div PageSize \in PagesOf(at, size)
      BY <3>2 DEF PagesOf, last
    <3> QED
      BY <1>1, <2>1, <2>2, <3>1, <3>3
  <2>5. ASSUME r < at, r + s > at PROVE FALSE
    <3>1. ~(r + s <= a.brk)
      BY <1>1, <2>1, <2>5
    <3> DEFINE last == r + s - 1
    <3>2. last \in Int /\ r <= at /\ at <= last
      BY <2>1, <2>5
    <3> HIDE DEF last
    <3>3. r \div PageSize <= at \div PageSize /\ at \div PageSize <= last \div PageSize
          /\ at \div PageSize \in Int /\ r \div PageSize \in Int /\ last \div PageSize \in Int
      BY <2>1, <3>2, PagesMeet, SMTT(30)
    <3>4. at \div PageSize \in PagesOf(r, s)
      BY <3>3 DEF PagesOf, last
    <3>5. at \div PageSize \in PagesOf(at, size)
      <4> DEFINE final == at + size - 1
      <4>1. final \in Int /\ at <= final /\ at \in Int
        OBVIOUS
      <4> HIDE DEF final
      <4>2. at \div PageSize <= final \div PageSize /\ final \div PageSize \in Int
        BY <4>1, PagesMeet
      <4> QED
        BY <3>3, <4>2 DEF PagesOf, final
    <3> QED
      BY <2>3, <3>1, <3>4, <3>5
  <2> QED
    BY <2>1, <2>4, <2>5 DEF s
<1>3. On(b) = On(a) /\ \A r : chunksize(b, r) = chunksize(a, r)
  BY DEF On, Shelves, chunksize
<1>4. \A r \in On(b) : r \notin at .. at + size - 1
  BY <1>2, <1>3, StockChunks
<1>5. Within(b, at, size, f)
  BY DEF Within
<1> QED
  BY <1>2, <1>3, <1>4, <1>5 DEF Vacant, Clear

\* New pages that no block has belong to the arena.
LEMMA ArenaGains ==
  ASSUME Blocks, UNCHANGED mmapped, NEW N, N \subseteq MapPages, \A x \in N : x \notin maps,
         maps' = maps \cup N
  PROVE  Blocks' /\ ArenaPages' = ArenaPages \cup N
<1>1. \A p : BlockPages(p)' = BlockPages(p)
  BY DEF BlockPages, BlockStart, BlockSize
<1>2. \A p \in DOMAIN mmapped : BlockPages(p) \subseteq maps /\ IsBlock(p)
  BY DEF Blocks, IsBlock
<1>3. \A p \in DOMAIN mmapped : IsBlock(p)'
  BY <1>1, <1>2 DEF IsBlock, BlockStart, BlockSize
<1>4. Blocks'
  BY <1>1, <1>3 DEF Blocks
<1>5. ArenaPages' = maps' \ UNION {BlockPages(p) : p \in DOMAIN mmapped}
  BY <1>1 DEF ArenaPages
<1> QED
  BY <1>2, <1>4, <1>5 DEF ArenaPages

LEMMA TopIsMappedOwns == ASSUME GoesOn, TopIsMapped PROVE Holding'
<1>0. PICK at, n : at = Place(BackupSize) /\ n = BackupSize
  OBVIOUS
<1> DEFINE N == PagesOf(at, n)
           m == Swept.system_mem + n
           b == [Swept EXCEPT !.contiguous = FALSE, !.system_mem = m]
<1>1. /\ Alive /\ Holding /\ call \in Searches /\ av \in Fit /\ mp \in Params
      /\ call.nb \in Nat /\ call.nb >= MINSIZE
      /\ old_size \in Nat /\ MoreSize \in Nat /\ MoreSize >= PageSize
      /\ Owned(av, Held, Env)
  BY MoreIs DEF TopIsMapped
<1>2. /\ FromNewTop(NewTop(b, at, n)) /\ maps' = maps \cup N /\ UNCHANGED mmapped
      /\ FreeMaps(n) # {} /\ ~av'.died /\ TopOK
  BY <1>0 DEF TopIsMapped, GoesOn
<1>3. n \in Nat /\ n >= MINSIZE /\ n > 0
  <2> DEFINE x == IF av.contiguous THEN ALIGN_UP(MoreSize + old_size, PageSize) ELSE MoreSize
  <2>1. x \in Nat /\ x >= MoreSize
    <3>1. MoreSize + old_size \in Nat
      BY <1>1
    <3> DEFINE y == MoreSize + old_size
    <3>2. y \in Nat /\ y >= MoreSize
      BY <1>1
    <3> HIDE DEF y
    <3>3. ALIGN_UP(y, PageSize) \in Nat /\ ALIGN_UP(y, PageSize) >= y
      BY <3>2, AlignUp, Sizes
    <3> QED
      BY <1>1, <3>2, <3>3 DEF y
  <2>2. MMAP_AS_MORECORE_SIZE \in Int
    BY MallocAssumption
  <2>3. n = Max({MMAP_AS_MORECORE_SIZE, x})
    BY <1>0 DEF BackupSize
  <2> HIDE DEF x
  <2>4. n \in Int /\ n >= x
    BY <2>1, <2>2, <2>3, MaxIsMost
  <2> QED
    BY <1>1, <2>1, <2>4, Sizes, KernelAssumption, MinSizePositive
<1>4. /\ at \in Nat \ {0} /\ at > BrkLimit /\ at % PageSize = 0
      /\ N \subseteq MapPages /\ \A x \in N : x \notin maps
  <2>1. FreeMaps(n) # {} /\ at = Place(n)
    BY <1>0, <1>2
  <2> QED
    BY <1>3, <2>1, PlaceIs
<1> HIDE DEF N
<1>5. Blocks' /\ ArenaPages' = ArenaPages \cup N
  BY <1>1, <1>2, <1>4, ArenaGains DEF Holding
<1>6. PICK G : G = ArenaPages \cup N
  OBVIOUS
<1>7. Swept \in Fit /\ m \in Int
  <2>1. Swept \in Fit
    BY <1>1, SweptKeeps DEF Keeps, Safe
  <2> QED
    BY <1>3, <2>1, FieldType
<1>8. /\ b \in Fit /\ b.hdr = Swept.hdr /\ b.bins = Swept.bins /\ b.fast = Swept.fast
      /\ b.cached = Swept.cached /\ b.tcache = Swept.tcache /\ b.top = Swept.top
      /\ b.died = Swept.died /\ b.brk = Swept.brk
  <2> HIDE DEF m
  <2>1. b \in Fit
    BY <1>7, BreakKeeps DEF Keeps, Safe
  <2> QED
    BY <1>7, <2>1 DEF Fit, Arenas
<1> HIDE DEF b, m
<1>9. ASSUME ~b.died
      PROVE  /\ Owned(b, Held, Opened(G)) /\ b.top = av.top /\ b.hdr = av.hdr
             /\ Vacant(b, at, n, Opened(G))
  <2>1. Owned(Swept, Held, Env) /\ Swept.top = av.top /\ Swept.hdr = av.hdr
    BY <1>1, <1>8, <1>9, SweptIs
  <2> DEFINE K == Held \cup Tops(Swept)
  <2>2. Stock(Swept, K, Env) /\ Swept.top \notin Held
    BY <2>1 DEF Owned
  <2>3. /\ Env.pages \subseteq Opened(G).pages /\ Opened(G).pages = G
        /\ Opened(G).full = Env.full /\ Opened(G).tcache = Env.tcache /\ N \subseteq Opened(G).pages /\ Env.pages = ArenaPages
    BY <1>6 DEF Opened, Env
  <2>4. G \subseteq MapPages /\ \A x \in N : x \notin ArenaPages
    BY <1>1, <1>4, <1>6 DEF Holding, Blocks, ArenaPages
  <2> HIDE DEF K
  <2>5. SameHeap(Swept, b) /\ Aside(Swept, b)
    BY <1>8, Same DEF Aside
  <2>6. Stock(b, K, Env)
    BY <2>2, <2>5, Stays
  <2>7. Stock(b, K, Opened(G))
    BY <2>3, <2>4, <2>6, MorePages
  <2>8. Owned(b, Held, Opened(G))
    BY <1>8, <2>2, <2>7 DEF Owned, Tops, K
  <2>9. Vacant(b, at, n, Opened(G))
    <3>1. \A x \in PagesOf(at, n) : x \notin Env.pages
      BY <2>3, <2>4 DEF N
    <3>2. PagesOf(at, n) \subseteq Opened(G).pages
      BY <2>3 DEF N
    <3> QED
      BY <1>3, <1>4, <1>7, <1>8, <2>2, <3>1, <3>2, MappingIsVacant
  <2> QED
    BY <1>8, <2>1, <2>8, <2>9
<1>10. ArenaPages' = G /\ ArenaPages \subseteq G /\ G \subseteq ArenaPages \cup PagesOf(at, n)
  BY <1>5, <1>6 DEF N
<1> QED
  BY <1>1, <1>2, <1>3, <1>4, <1>5, <1>8, <1>9, <1>10, NewTopHolds

\* The call has ended; the arena owns what it should.
LEMMA IdleHolds ==
  ASSUME call' = Idle, Blocks', NEW G, ArenaPages' = G, NEW H, Owned(av', H, EnvOf(G)),
         Held' = H, av.tcache \notin DOMAIN live'
  PROVE  Holding'
<1>1. call'.pc = "idle"
  BY DEF Idle
<1>2. Env' = EnvOf(G) /\ av'.tcache = av.tcache
  BY EnvNow
<1>3. Owned(av, Held, Env)'
  BY <1>2
<1>4. CallOwns'
  BY <1>1, <1>2 DEF CallOwns, SearchOwns, FoundOwns, Taking
<1> QED
  BY <1>3, <1>4 DEF Holding

\* The same when no mapping has changed.
LEMMA IdleHoldsHere ==
  ASSUME Blocks, call' = Idle, UNCHANGED <<maps, mmapped>>, NEW H, Owned(av', H, Env),
         Held' = H, av.tcache \notin DOMAIN live'
  PROVE  Holding'
<1>1. Blocks'
  BY SameBlocks
<1>2. PICK G : G = ArenaPages
  OBVIOUS
<1>3. ArenaPages' = G /\ Env = EnvOf(G)
  BY <1>2, SamePages, EnvIsOf
<1> QED
  BY <1>1, <1>3, IdleHolds

\* What a call knows of the chunk it got.
LEMMA GotIs ==
  ASSUME Going, At("got")
  PROVE  /\ Alive /\ Holding /\ Blocks /\ av \in Fit /\ mp \in Params /\ mmapped \in Mappings
         /\ call.op \in Ops /\ call.init \in BOOLEAN /\ call.p \in Nat \ {0}
         /\ call.init \/ call.op.kind # "free"
         /\ Owned(av, Held, Env) /\ Stock(av, Held \cup Tops(av), Env)
         /\ call.p \notin DOMAIN live /\ call.p # av.tcache /\ av.tcache \notin DOMAIN live
         /\ Owners = DOMAIN live \cup {call.p} \cup ({av.tcache} \ {NULL})
         /\ call.p \in Owners /\ Yields(call.p) >= Seek(call.op, call.init)
         /\ OpOwns /\ (call.init => av.tcache = NULL)
<1>1. Alive /\ Holding /\ call.pc = "got" /\ Blocks /\ Owned(av, Held, Env)
  BY DEF Going, At, Holding
<1>2. /\ av \in Fit /\ mp \in Params /\ mmapped \in Mappings
      /\ call.op \in Ops /\ call.init \in BOOLEAN /\ call.p \in Int
      /\ call.init \/ call.op.kind # "free"
  <2>1. call \in Founds
    BY <1>1, CallShape DEF Alive
  <2> QED
    BY <1>1, <2>1, FoundType DEF Alive
<1>3. Taking = {call.p}
  BY <1>1 DEF Taking
<1>4. Owners = DOMAIN live \cup {call.p} \cup ({av.tcache} \ {NULL})
  BY <1>3 DEF Owners
<1>5. call.p \in Nat \ {0}
  <2>1. call.p \in Held \/ call.p \in DOMAIN mmapped
    BY <1>1, <1>4, HeldIs
  <2>2. call.p \in DOMAIN mmapped => call.p > BrkLimit
    BY <1>1, <1>2, BlocksAbove
  <2>3. call.p \in Held => call.p \in Nat \ {0}
    BY <1>1, HeldIs
  <2> QED
    BY <1>2, <2>1, <2>2, <2>3, ArenaAssumption
<1> QED
  BY <1>1, <1>2, <1>3, <1>4, <1>5 DEF Holding, CallOwns, SearchOwns, FoundOwns, Owned

\* The chunk for the tcache has been found.
LEMMA TcacheHolds == ASSUME GoesOn, Delivers, call.init PROVE Holding'
<1>1. Going /\ At("got")
  BY DEF GoesOn, Delivers
<1>2. /\ Alive /\ Holding /\ Blocks /\ av \in Fit /\ call.op \in Ops /\ call.p \in Nat \ {0}
      /\ Owned(av, Held, Env) /\ call.p \notin DOMAIN live
      /\ Owners = DOMAIN live \cup {call.p} \cup ({av.tcache} \ {NULL})
      /\ OpOwns /\ av.tcache = NULL
  BY <1>1, GotIs
<1>3. /\ av' = [av EXCEPT !.tcache = call.p] /\ call' = [pc |-> "resume", op |-> call.op]
      /\ UNCHANGED <<mmapped, live, maps>>
  BY DEF Delivers
<1>4. /\ av'.hdr = av.hdr /\ av'.bins = av.bins /\ av'.fast = av.fast /\ av'.cached = av.cached
      /\ av'.top = av.top /\ av'.brk = av.brk /\ av'.tcache = call.p
  BY <1>2, <1>3 DEF Fit, Arenas
<1>5. call'.pc = "resume" /\ call'.op = call.op
  BY <1>3
<1>6. Taking' = {} /\ Owners' = Owners /\ Held' = Held
  <2>1. Taking' = {}
    BY <1>5 DEF Taking
  <2>2. Owners' = DOMAIN live' \cup Taking' \cup ({av'.tcache} \ {NULL})
    BY DEF Owners
  <2>3. Owners' = Owners
    BY <1>2, <1>3, <1>4, <2>1, <2>2 DEF NULL
  <2> QED
    BY <1>3, <2>1, <2>3 DEF Held, IsMmapped
<1>7. Env'.pages = Env.pages /\ Env'.full = Env.full /\ Env'.tcache = call.p
  BY <1>3, <1>4, SamePages DEF Env
<1>8. ASSUME NEW K, NEW e, NEW f, Stock(av, K, e),
             f.pages = e.pages, f.full = e.full, f.tcache = av'.tcache
      PROVE  Stock(av', K, f)
  <2>1. \A p : chunksize(av', p) = chunksize(av, p)
    BY <1>4 DEF chunksize
  <2>2. Shelves(av') = Shelves(av)
    BY <1>4 DEF Shelves
  <2>3. Tiled(av')
    BY <1>4, <1>8, <2>1 DEF Stock, Tiled
  <2>4. Backed(av', f)
    BY <1>4, <1>8, <2>1 DEF Stock, Backed, Within, Covered
  <2>5. AllSuit(av')
    BY <1>8, <2>1, <2>2 DEF Stock, AllSuit
  <2>6. Big(av') = Big(av) /\ On(av') = On(av)
    BY <1>4, <2>1, <2>2 DEF Big, On
  <2> QED
    BY <1>8, <2>2, <2>3, <2>4, <2>5, <2>6 DEF Stock
<1>9. Owned(av, Held, Env)'
  <2>1. PICK f : f = Env'
    OBVIOUS
  <2>2. Stock(av, Held \cup Tops(av), Env) /\ av.top \notin Held
    BY <1>2 DEF Owned
  <2>3. f.pages = Env.pages /\ f.full = Env.full /\ f.tcache = av'.tcache
    BY <1>4, <1>7, <2>1
  <2> DEFINE K == Held \cup Tops(av)
  <2>4. Stock(av, K, Env)
    BY <2>2
  <2> HIDE DEF K
  <2>5. Stock(av', K, f)
    BY <1>8, <2>3, <2>4
  <2>6. Tops(av') = Tops(av)
    BY <1>4 DEF Tops
  <2>7. Owned(av', Held, f)
    BY <1>4, <2>2, <2>5, <2>6 DEF Owned, K
  <2> QED
    BY <1>6, <2>1, <2>7
<1>10. Blocks'
  BY <1>2, <1>3, SameBlocks
<1>11. CallOwns'
  <2>1. OpOwns'
    <3>1. call.op.kind = "copy" => call.op.mem \in DOMAIN live
      BY <1>1, <1>2 DEF OpOwns, At
    <3> QED
      BY <1>2, <1>3, <1>5, <3>1 DEF OpOwns
  <2> QED
    BY <1>2, <1>3, <1>4, <1>5, <1>6, <2>1 DEF CallOwns, SearchOwns, FoundOwns
<1> QED
  BY <1>9, <1>10, <1>11 DEF Holding

LEMMA DeliverMallocOwns ==
  ASSUME GoesOn, At("got"), UNCHANGED maps, DeliverMalloc(call.op, call.p)
  PROVE  Holding'
<1>1. /\ Holding /\ Blocks /\ Owned(av, Held, Env) /\ call.p # av.tcache /\ av.tcache \notin DOMAIN live
      /\ Owners = DOMAIN live \cup {call.p} \cup ({av.tcache} \ {NULL})
  BY GotIs DEF GoesOn
<1>2. live' = With(live, call.p, call.op.bytes) /\ call' = Idle /\ UNCHANGED <<av, mmapped, maps>>
  BY DEF DeliverMalloc
<1>3. DOMAIN live' = DOMAIN live \cup {call.p}
  BY <1>2 DEF With
<1>4. Held' = Held
  <2>1. Taking' = {}
    BY <1>2 DEF Taking, Idle
  <2>2. Owners' = Owners
    BY <1>1, <1>2, <1>3, <2>1 DEF Owners
  <2> QED
    BY <1>2, <2>2 DEF Held, IsMmapped
<1>5. Owned(av', Held, Env)
  BY <1>1, <1>2
<1>6. PICK H : H = Held
  OBVIOUS
<1> QED
  BY <1>1, <1>2, <1>3, <1>4, <1>5, <1>6, IdleHoldsHere

LEMMA DeliverCopyOwns ==
  ASSUME GoesOn, At("got"), UNCHANGED maps, DeliverCopy(call.op, call.p), call.op.kind = "copy"
  PROVE  Holding'
<1>1. /\ Holding /\ Alive /\ Blocks /\ Owned(av, Held, Env) /\ call.p # av.tcache /\ av.tcache \notin DOMAIN live
      /\ call.p \notin DOMAIN live
      /\ Owners = DOMAIN live \cup {call.p} \cup ({av.tcache} \ {NULL}) /\ OpOwns
      /\ call.op \in Ops
  BY GotIs DEF GoesOn
<1>2. PICK m : m = call.op.mem
  OBVIOUS
<1>3. /\ live' = With(Without(live, {m}), call.p, call.op.bytes)
      /\ call' = [pc |-> "unmap", op |-> call.op] /\ UNCHANGED <<av, mmapped, maps>>
  BY <1>2 DEF DeliverCopy
<1>4. m \in DOMAIN live /\ m \in DOMAIN mmapped
  BY <1>1, <1>2 DEF OpOwns, At, Alive, CopyMapped, Idle
<1>5. DOMAIN live' = (DOMAIN live \ {m}) \cup {call.p} /\ m # call.p
  BY <1>1, <1>3, <1>4 DEF With, Without, Restrict
<1>6. call'.pc = "unmap" /\ call'.op = call.op /\ Taking' = {}
  BY <1>3 DEF Taking
<1>7. Owners' = Owners \ {m}
  BY <1>1, <1>3, <1>4, <1>5, <1>6 DEF Owners
<1>8. Held' = Held
  BY <1>3, <1>4, <1>7 DEF Held, IsMmapped
<1>9. Env' = Env /\ Owned(av, Held, Env)'
  <2>1. Env' = Env
    BY <1>3, SamePages DEF Env
  <2> QED
    BY <1>1, <1>3, <1>8, <2>1
<1>10. OpOwns'
  BY <1>2, <1>3, <1>4, <1>6, <1>7 DEF OpOwns
<1>11. CallOwns'
  BY <1>1, <1>3, <1>5, <1>6, <1>10 DEF CallOwns, SearchOwns, FoundOwns
<1> QED
  BY <1>1, <1>3, <1>9, <1>11, SameBlocks DEF Holding

\* What realloc asks for, less than it needs, is made up by the chunk in front.
LEMMA SeekJoins ==
  ASSUME NEW op \in Ops, op.kind = "realloc"
  PROVE  /\ request2size(op.bytes) \in Nat /\ request2size(op.bytes) >= MINSIZE
         /\ Seek(op, FALSE) + MINSIZE >= request2size(op.bytes)
<1> DEFINE nb == request2size(op.bytes)
           n == nb - MALLOC_ALIGN_MASK
<1>1. nb \in Nat /\ nb >= MINSIZE
  BY RequestFits DEF Ops
<1>2. MINSIZE >= MALLOC_ALIGN_MASK /\ MALLOC_ALIGN_MASK \in Nat /\ MINSIZE \in Nat /\ SIZE_SZ \in Nat
  BY Sizes, ArenaAssumption DEF MALLOC_ALIGN_MASK, Least
<1>3. Seek(op, FALSE) = request2size(n)
  BY DEF Seek
<1> HIDE DEF nb
<1>4. n \in Nat
  BY <1>1, <1>2
<1> HIDE DEF n
<1>5. request2size(n) \in Nat /\ request2size(n) >= n
  BY <1>2, <1>4, RequestFits
<1> DEFINE r == request2size(n)
<1>6. r \in Nat /\ r >= n
  BY <1>5
<1>7. n = nb - MALLOC_ALIGN_MASK
  BY DEF n
<1> HIDE DEF r
<1>8. r + MINSIZE >= nb
  BY <1>1, <1>2, <1>4, <1>6, <1>7
<1> QED
  BY <1>1, <1>3, <1>8 DEF r, nb

LEMMA DeliverReallocOwns ==
  ASSUME GoesOn, At("got"), UNCHANGED maps, DeliverRealloc(call.op, call.p),
         call.op.kind = "realloc", ~call.init
  PROVE  Holding'
<1>1. /\ Holding /\ Alive /\ Blocks /\ Owned(av, Held, Env) /\ call.p # av.tcache
      /\ av.tcache \notin DOMAIN live /\ call.p \notin DOMAIN live
      /\ Owners = DOMAIN live \cup {call.p} \cup ({av.tcache} \ {NULL}) /\ OpOwns
      /\ call.op \in Ops /\ av \in Fit /\ mp \in Params /\ call.p \in Owners
      /\ Yields(call.p) >= Seek(call.op, call.init)
      /\ Stock(av, Held \cup Tops(av), Env)
  BY GotIs DEF GoesOn
<1>2. PICK m, p, nb : m = call.op.mem /\ p = call.p /\ nb = request2size(call.op.bytes)
  OBVIOUS
<1>3. call' = Idle /\ UNCHANGED <<mmapped, maps>> /\ ~av'.died
  BY DEF DeliverRealloc, GoesOn
<1>4. m \in DOMAIN live /\ ~IsMmapped(m) /\ m \in Held /\ m # p /\ m # av.tcache
  <2>1. m \in DOMAIN live /\ ~IsMmapped(m)
    BY <1>1, <1>2 DEF OpOwns, At
  <2> QED
    BY <1>1, <1>2, <2>1 DEF Held
<1>5. Taking' = {}
  BY <1>3 DEF Taking, Idle
<1>6. CASE ~IsMmapped(p) /\ p = next_chunk(av, m)
  <2> DEFINE n == chunksize(av, m) + chunksize(av, p)
             K == Held \cup Tops(av)
             M == Held \ {p}
  <2>1. /\ av' = FreeTail(av, m, n, nb) /\ live' = [live EXCEPT ![m] = call.op.bytes]
    BY <1>2, <1>6 DEF DeliverRealloc
  <2>2. p \in Held /\ p = m + chunksize(av, m)
    BY <1>1, <1>2, <1>6 DEF Held, next_chunk
  <2>3. m \in K /\ p \in K /\ Stock(av, K, Env)
    BY <1>1, <1>4, <2>2
  <2> HIDE DEF K
  <2>4. /\ Clear(av, m, n, Env) /\ K \ (m .. m + n - 1) = K \ {m, p}
        /\ n \in Nat /\ n >= MINSIZE + MINSIZE
    BY <1>1, <2>2, <2>3, PairIsClear
  <2>5. m \in Nat \ {0} /\ chunksize(av, m) \in Nat /\ chunksize(av, m) >= MINSIZE
        /\ chunksize(av, p) \in Nat
    BY <1>1, <2>3, ChunkIsClear
  <2>6. nb \in Nat /\ nb >= MINSIZE /\ n >= nb
    <3>1. nb \in Nat /\ nb >= MINSIZE /\ Seek(call.op, FALSE) + MINSIZE >= nb /\ Seek(call.op, FALSE) \in Nat
      BY <1>1, <1>2, SeekJoins, SeekFits
    <3>2. chunksize(av, p) >= Seek(call.op, FALSE)
      <4>1. call.init = FALSE
        BY <1>1, GotIs DEF GoesOn
      <4>2. Yields(call.p) >= Seek(call.op, FALSE)
        BY <1>1, <4>1
      <4> QED
        BY <1>2, <1>6, <4>2 DEF Yields
    <3> DEFINE x == chunksize(av, m)
               y == chunksize(av, p)
               z == Seek(call.op, FALSE)
    <3>3. x \in Nat /\ y \in Nat /\ z \in Nat /\ MINSIZE \in Nat /\ x >= MINSIZE /\ y >= z /\ z + MINSIZE >= nb
      BY <2>5, <3>1, <3>2, Sizes
    <3>4. n = x + y
      OBVIOUS
    <3> HIDE DEF n, x, y, z
    <3>5. n >= nb
      BY <3>1, <3>3, <3>4
    <3> QED
      BY <3>1, <3>5
  <2>7. Spans(av, Held, m, n, M, Env)
    <3>1. av.top \notin Held
      BY <1>1 DEF Owned
    <3>2. av.top \notin m .. m + n - 1
      <4>1. av.top = NULL => av.top \notin m .. m + n - 1
        BY <2>5 DEF NULL
      <4>2. av.top # NULL => av.top \in K \ {m, p}
        BY <1>4, <2>2, <3>1 DEF K, Tops
      <4> QED
        BY <2>4, <4>1, <4>2
    <3>3. Held \ (m .. m + n - 1) = Held \ {m, p}
      BY <2>4 DEF K
    <3>4. M = (Held \ (m .. m + n - 1)) \cup {m}
      BY <1>4, <2>2, <3>3
    <3> QED
      BY <2>4, <3>2, <3>4 DEF Spans
  <2> HIDE DEF n, M
  <2>8. Owned(av', M, Env)
    BY <1>1, <1>3, <2>1, <2>4, <2>5, <2>6, <2>7, FreeTailOwned
  <2>9. DOMAIN live' = DOMAIN live
    BY <2>1
  <2>10. Held' = M
    <3>1. av'.tcache = av.tcache
      BY <1>3, <2>8, SameEnv
    <3>2. Owners' = Owners \ {p}
      BY <1>1, <1>2, <1>5, <2>9, <3>1 DEF Owners
    <3> QED
      BY <1>3, <3>2 DEF Held, IsMmapped, M
  <2> QED
    BY <1>1, <1>3, <2>8, <2>9, <2>10, IdleHoldsHere
<1>7. CASE ~(~IsMmapped(p) /\ p = next_chunk(av, m))
  <2> DEFINE M == Held \ {m}
  <2>1. av' = _int_free(av, m, TRUE) /\ live' = With(Without(live, {m}), p, call.op.bytes)
    BY <1>2, <1>7 DEF DeliverRealloc
  <2>2. Owned(av', M, Env)
    BY <1>1, <1>3, <1>4, <2>1, IntFreeOwned
  <2>3. DOMAIN live' = (DOMAIN live \ {m}) \cup {p}
    BY <2>1 DEF With, Without
  <2>4. Held' = M
    <3>1. av'.tcache = av.tcache
      BY <1>3, <2>2, SameEnv
    <3>2. Owners' = Owners \ {m}
      BY <1>1, <1>2, <1>4, <1>5, <2>3, <3>1 DEF Owners
    <3> QED
      BY <1>3, <3>2 DEF Held, IsMmapped
  <2>5. av.tcache \notin DOMAIN live'
    BY <1>1, <1>2, <2>3
  <2> HIDE DEF M
  <2> QED
    BY <1>1, <1>3, <2>2, <2>4, <2>5, IdleHoldsHere
<1> QED
  BY <1>6, <1>7

\* How far the aligned chunk is from the one it lies in.
LEMMA AlignedInIs ==
  ASSUME NEW p \in Nat \ {0}, NEW align \in Nat, align >= MINSIZE
  PROVE  /\ AlignedIn(p, align) \in Int
         /\ \/ AlignedIn(p, align) = p
            \/ /\ AlignedIn(p, align) - p >= MINSIZE
               /\ AlignedIn(p, align) - p < align + MINSIZE
<1> DEFINE x == mem_of(p)
           y == ALIGN_UP(x, align)
           spot == y - CHUNK_HDR_SZ
           newp == AlignedIn(p, align)
<1>1. MINSIZE \in Nat /\ MINSIZE > 0 /\ CHUNK_HDR_SZ \in Nat /\ align \in Nat \ {0}
  BY Sizes, MinSizePositive
<1>2. x \in Nat /\ x = p + CHUNK_HDR_SZ
  BY <1>1 DEF mem_of
<1> HIDE DEF x
<1>3. y \in Nat /\ y >= x /\ y < x + align
  BY <1>1, <1>2, AlignUp
<1> HIDE DEF y
<1>4. spot \in Int /\ spot >= p /\ spot < p + align
  BY <1>1, <1>2, <1>3
<1>5. newp = IF spot = p THEN p ELSE IF spot - p < MINSIZE THEN spot + align ELSE spot
  BY DEF AlignedIn, y, x
<1> HIDE DEF spot, newp
<1>6. newp \in Int /\ (newp = p \/ (newp - p >= MINSIZE /\ newp - p < align + MINSIZE))
  BY <1>1, <1>4, <1>5
<1> QED
  BY <1>6 DEF newp

\* What memalign asks for leaves room for what it needs behind any alignment.
LEMMA SeekAligns ==
  ASSUME NEW op \in Ops, op.kind = "memalign"
  PROVE  /\ request2size(op.bytes) \in Nat /\ request2size(op.bytes) >= MINSIZE
         /\ Seek(op, FALSE) \in Nat
         /\ Seek(op, FALSE) >= request2size(op.bytes) + op.align + MINSIZE
<1> DEFINE nb == request2size(op.bytes)
           n == nb + op.align + MINSIZE
           r == request2size(n)
<1>1. nb \in Nat /\ nb >= MINSIZE /\ op.align \in Nat
  BY RequestFits DEF Ops
<1>2. Seek(op, FALSE) = r
  BY DEF Seek
<1> HIDE DEF nb
<1>3. n \in Nat /\ SIZE_SZ \in Nat
  BY <1>1, Sizes
<1> HIDE DEF n
<1>4. r \in Nat /\ r >= n + SIZE_SZ
  BY <1>3, RequestFits
<1> HIDE DEF r
<1>5. r >= n
  BY <1>3, <1>4
<1> QED
  BY <1>1, <1>2, <1>4, <1>5 DEF n, nb

\* No owned chunk but the block itself has a header on the pages of a block.
LEMMA InBlock ==
  ASSUME Alive, Holding, NEW p \in DOMAIN mmapped, NEW x \in Int, x \div PageSize \in BlockPages(p)
  PROVE  x \notin Held /\ (x \in DOMAIN mmapped => x = p)
<1>1. mmapped \in Mappings /\ Blocks /\ av \in Fit /\ Stock(av, Held \cup Tops(av), Env)
  BY DEF Alive, Holding, Owned
<1>2. x \in DOMAIN mmapped => x = p
  <2> SUFFICES ASSUME x \in DOMAIN mmapped, x # p PROVE FALSE
    OBVIOUS
  <2>1. x \div PageSize \in BlockPages(x)
    BY <1>1, BlocksAbove
  <2> QED
    BY <1>1, <2>1 DEF Blocks
<1>3. x \notin Held
  <2> SUFFICES ASSUME x \in Held PROVE FALSE
    OBVIOUS
  <2>1. x \in DOMAIN av.hdr
    BY HeldIs
  <2>2. x <= BrkLimit \/ x \div PageSize \in ArenaPages
    BY <1>1, <2>1, FirstPage, EnvIs
  <2>3. x \div PageSize \notin ArenaPages
    BY DEF ArenaPages
  <2>4. x > BrkLimit
    <3>1. IsBlock(p) /\ BlockPages(p) \subseteq MapPages
      BY <1>1 DEF Blocks, IsBlock
    <3> DEFINE n == x \div PageSize
    <3>2. n \in MapPages /\ n * PageSize > BrkLimit
      BY <3>1, KernelAssumption
    <3>3. n * PageSize <= x /\ n \in Int
      BY PagesMeet
    <3>4. PageSize \in Nat /\ BrkLimit \in Int
      BY Sizes, ArenaAssumption
    <3> HIDE DEF n
    <3>5. n * PageSize \in Int
      BY <3>3, <3>4
    <3> QED
      BY <3>2, <3>3, <3>4, <3>5
  <2> QED
    BY <2>2, <2>3, <2>4, ArenaAssumption
<1> QED
  BY <1>2, <1>3

LEMMA MemalignInArena ==
  ASSUME GoesOn, At("got"), UNCHANGED maps, DeliverMemalign(call.op, call.p),
         call.op.kind = "memalign", ~call.init, ~IsMmapped(call.p)
  PROVE  Holding'
<1>1. /\ Holding /\ Alive /\ Blocks /\ Owned(av, Held, Env) /\ call.p # av.tcache
      /\ av.tcache \notin DOMAIN live /\ call.p \notin DOMAIN live /\ call.p \in Nat \ {0}
      /\ Owners = DOMAIN live \cup {call.p} \cup ({av.tcache} \ {NULL}) /\ OpOwns
      /\ call.op \in Ops /\ av \in Fit /\ mp \in Params /\ call.p \in Owners
      /\ Yields(call.p) >= Seek(call.op, call.init) /\ call.init = FALSE
      /\ mmapped \in Mappings /\ Stock(av, Held \cup Tops(av), Env)
  BY GotIs DEF GoesOn
<1>2. PICK p, newp, nb, align : /\ p = call.p /\ newp = AlignedIn(call.p, call.op.align)
                                /\ nb = request2size(call.op.bytes) /\ align = call.op.align
  OBVIOUS
<1> DEFINE lead == FreeLead(av, p, newp)
           ok == chunksize(lead, newp) >= nb
           b == Checked(lead, ok)
           M == (Held \ {p}) \cup {newp}
<1>3. call' = Idle /\ UNCHANGED <<mmapped, maps>> /\ ~av'.died /\ av' = FreeSpare(b, newp, nb)
      /\ live' = With(live, newp, call.op.bytes)
  BY <1>2 DEF DeliverMemalign, GoesOn
<1>4. p \in Held /\ chunksize(av, p) \in Nat
  <2>1. p \in Held
    BY <1>1, <1>2 DEF Held
  <2> QED
    BY <1>1, <2>1, StockChunks
<1>5. align \in Nat /\ align >= MINSIZE /\ nb \in Nat /\ nb >= MINSIZE
      /\ chunksize(av, p) >= nb + align + MINSIZE
  <2>1. align \in Nat /\ align >= MINSIZE
    BY <1>1, <1>2 DEF OpOwns, Ops
  <2>2. nb \in Nat /\ nb >= MINSIZE /\ Seek(call.op, FALSE) \in Nat
        /\ Seek(call.op, FALSE) >= nb + align + MINSIZE
    BY <1>1, <1>2, SeekAligns
  <2>3. chunksize(av, p) >= Seek(call.op, FALSE)
    BY <1>1, <1>2 DEF Yields
  <2> DEFINE x == chunksize(av, p)
             z == Seek(call.op, FALSE)
             y == nb + align + MINSIZE
  <2>6. MINSIZE \in Nat
    BY Sizes
  <2>7. y \in Nat
    BY <2>1, <2>2, <2>6
  <2>4. x \in Nat /\ z \in Nat /\ x >= z /\ z >= y /\ y \in Nat
    <3> HIDE DEF y
    <3>1. z >= y
      BY ONLY <2>2 DEF y, z
    <3> QED
      BY <1>4, <2>2, <2>3, <2>7, <3>1
  <2> HIDE DEF x, y, z
  <2>5. x >= y
    BY <2>4
  <2> QED
    BY <2>1, <2>2, <2>5 DEF x, y
<1>6. newp \in Int /\ (newp = p \/ (newp - p >= MINSIZE /\ newp - p < align + MINSIZE))
  BY <1>1, <1>2, <1>5, AlignedInIs
<1>7. newp # p => newp - p >= MINSIZE /\ chunksize(av, p) - (newp - p) >= MINSIZE
  <2> DEFINE x == chunksize(av, p)
             d == newp - p
  <2>1. x \in Nat /\ x >= nb + align + MINSIZE /\ MINSIZE \in Nat /\ d \in Int
    BY <1>1, <1>2, <1>4, <1>5, <1>6, Sizes
  <2>2. newp # p => d >= MINSIZE /\ d < align + MINSIZE
    BY <1>6
  <2> HIDE DEF x, d
  <2>3. newp # p => d >= MINSIZE /\ x - d >= MINSIZE
    BY <1>5, <2>1, <2>2
  <2> QED
    BY <2>3 DEF x, d
<1>8. lead \in Fit /\ b \in Fit /\ ~b.died
  <2>1. lead \in Fit
    BY <1>1, <1>2, <1>6, FreeLeadSafe DEF Safe
  <2> HIDE DEF lead
  <2>2. ok \in BOOLEAN
    OBVIOUS
  <2> HIDE DEF ok
  <2>3. b \in Fit
    BY <2>1, <2>2, CheckedKeeps DEF Keeps, Safe
  <2> HIDE DEF b
  <2>4. Safe(b, FreeSpare(b, newp, nb))
    BY <1>1, <1>5, <1>6, <2>3, FreeSpareSafe
  <2>5. ~b.died
    BY <1>3, <2>4 DEF Safe
  <2> QED
    BY <2>1, <2>3, <2>5
<1> HIDE DEF ok
<1>9. b = lead /\ ~lead.died
  <2> HIDE DEF lead
  <2> QED
    BY <1>8, CheckedAlive
<1>10. Owned(lead, M, Env) /\ (newp = p \/ newp \notin Held)
  <2>1. ~FreeLead(av, p, newp).died
    BY <1>9
  <2>2. /\ Owned(FreeLead(av, p, newp), (Held \ {p}) \cup {newp}, Env)
        /\ newp = p \/ newp \notin Held
    BY <1>1, <1>4, <1>6, <1>7, <2>1, FreeLeadOwned
  <2> QED
    BY <2>2
<1> HIDE DEF lead, b
<1>11. newp \in M
  OBVIOUS
<1>12. ~IsMmapped(newp)
  <2> DEFINE K == M \cup Tops(lead)
  <2>1. Stock(lead, K, Env) /\ newp \in K
    BY <1>10 DEF Owned
  <2> HIDE DEF K
  <2>2. newp \in DOMAIN lead.hdr
    BY <1>8, <2>1, StockChunks
  <2> QED
    BY <1>1, <1>8, <2>1, <2>2, NotMapped
<1> HIDE DEF M
<1>13. Owned(av', M, Env)
  <2>1. av' = FreeSpare(lead, newp, nb) /\ ~FreeSpare(lead, newp, nb).died
    BY <1>3, <1>9
  <2> QED
    BY <1>1, <1>5, <1>8, <1>10, <1>11, <2>1, FreeSpareOwned
<1>14. newp # av.tcache
  <2> SUFFICES ASSUME newp = av.tcache PROVE FALSE
    OBVIOUS
  <2>1. newp # p
    BY <1>1, <1>2
  <2>2. newp # NULL
    <3>1. newp > p
      BY <1>1, <1>2, <1>6, <2>1, MinSizePositive
    <3> QED
      BY <1>1, <1>2, <1>6, <3>1 DEF NULL
  <2>3. newp \in Owners
    BY <1>1, <2>2
  <2> QED
    BY <1>10, <1>12, <2>1, <2>3 DEF Held
<1>15. DOMAIN live' = DOMAIN live \cup {newp}
  BY <1>3 DEF With
<1>16. Held' = M
  <2>1. av'.tcache = av.tcache
    BY <1>3, <1>13, SameEnv
  <2>2. Taking' = {}
    BY <1>3 DEF Taking, Idle
  <2>3. Owners' = (Owners \ {p}) \cup {newp}
    BY <1>1, <1>2, <1>15, <2>1, <2>2 DEF Owners
  <2> QED
    BY <1>3, <1>12, <2>3 DEF Held, IsMmapped, M
<1> QED
  BY <1>1, <1>3, <1>13, <1>14, <1>15, <1>16, IdleHoldsHere

\* The aligned chunk inside a mapped one starts in its pages.
LEMMA AlignedIsNew ==
  ASSUME GoesOn, At("got"), call.op.kind = "memalign", ~call.init, IsMmapped(call.p),
         NEW p, p = call.p, NEW newp, newp = AlignedIn(p, call.op.align)
  PROVE  /\ newp \in Int /\ newp - p \in Nat /\ mmapped[p].sz - (newp - p) > 0
         /\ newp \notin Held /\ (newp \in DOMAIN mmapped => newp = p)
<1>1. /\ Holding /\ Alive /\ Blocks /\ Owned(av, Held, Env) /\ call.p # av.tcache
      /\ av.tcache \notin DOMAIN live /\ call.p \notin DOMAIN live /\ call.p \in Nat \ {0}
      /\ Owners = DOMAIN live \cup {call.p} \cup ({av.tcache} \ {NULL}) /\ OpOwns
      /\ call.op \in Ops /\ call.p \in Owners
      /\ Yields(call.p) >= Seek(call.op, call.init) /\ call.init = FALSE
      /\ mmapped \in Mappings
  BY GotIs DEF GoesOn
<1>2. PICK nb, align : nb = request2size(call.op.bytes) /\ align = call.op.align
  OBVIOUS
<1>3. PICK s, f : s = mmapped[p].sz /\ f = mmapped[p].prev_size
  OBVIOUS
<1> DEFINE d == newp - p
<1>5. align \in Nat /\ align >= MINSIZE /\ nb \in Nat /\ nb >= MINSIZE
      /\ s \in Int /\ f \in Int /\ s >= Seek(call.op, FALSE)
      /\ Seek(call.op, FALSE) \in Nat /\ Seek(call.op, FALSE) >= nb + align + MINSIZE
  <2>1. align \in Nat /\ align >= MINSIZE
    BY <1>1, <1>2 DEF OpOwns, Ops, At
  <2>2. nb \in Nat /\ nb >= MINSIZE /\ Seek(call.op, FALSE) \in Nat
        /\ Seek(call.op, FALSE) >= nb + align + MINSIZE
    BY <1>1, <1>2, SeekAligns
  <2>3. s >= Seek(call.op, FALSE)
    BY <1>1, <1>2, <1>3 DEF Yields
  <2>4. s \in Int /\ f \in Int
    BY <1>1, <1>2, <1>3, MappedType DEF IsMmapped
  <2> QED
    BY <2>1, <2>2, <2>3, <2>4
<1>6. newp \in Int /\ (newp = p \/ (newp - p >= MINSIZE /\ newp - p < align + MINSIZE))
  BY <1>1, <1>2, <1>5, AlignedInIs
<1>7. d \in Nat /\ s - d > 0 /\ p \in Nat \ {0}
  <2> DEFINE z == Seek(call.op, FALSE)
  <2>1. z \in Nat /\ s >= z /\ z >= nb + align + MINSIZE /\ MINSIZE \in Nat /\ MINSIZE > 0
    BY <1>5, Sizes, MinSizePositive
  <2>2. p \in Nat \ {0} /\ newp \in Int
    BY <1>1, <1>2, <1>6
  <2> HIDE DEF z
  <2> QED
    BY <1>5, <1>6, <2>1, <2>2
<1>8. PICK x, y, N : x = BlockStart(p) /\ y = BlockSize(p) /\ N = BlockPages(p)
  OBVIOUS
<1>9. /\ f >= 0 /\ x % PageSize = 0 /\ y % PageSize = 0 /\ N \subseteq maps
      /\ x = p - f /\ y = f + s /\ N = PagesOf(x, y) /\ p \in DOMAIN mmapped
  BY <1>1, <1>2, <1>3, <1>8 DEF Blocks, IsBlock, BlockStart, BlockSize, BlockPages, IsMmapped
<1>10. newp \div PageSize \in N
  <2> DEFINE last == x + y - 1
  <2>1. x \in Int /\ last \in Int /\ x <= newp /\ newp <= last /\ newp \in Int
    BY <1>5, <1>6, <1>7, <1>9
  <2> HIDE DEF last
  <2>2. x \div PageSize <= newp \div PageSize /\ newp \div PageSize <= last \div PageSize
        /\ x \div PageSize \in Int /\ newp \div PageSize \in Int /\ last \div PageSize \in Int
    BY <2>1, PagesMeet
  <2> QED
    BY <1>9, <2>2 DEF PagesOf, last
<1>11. newp \notin Held /\ (newp \in DOMAIN mmapped => newp = p)
  BY <1>1, <1>6, <1>8, <1>9, <1>10, InBlock
<1> QED
  BY <1>3, <1>6, <1>7, <1>11

LEMMA MemalignMapped ==
  ASSUME GoesOn, At("got"), UNCHANGED maps, DeliverMemalign(call.op, call.p),
         call.op.kind = "memalign", ~call.init, IsMmapped(call.p)
  PROVE  Holding'
<1>1. /\ Holding /\ Alive /\ Blocks /\ Owned(av, Held, Env) /\ call.p # av.tcache
      /\ av.tcache \notin DOMAIN live /\ call.p \notin DOMAIN live /\ call.p \in Nat \ {0}
      /\ Owners = DOMAIN live \cup {call.p} \cup ({av.tcache} \ {NULL}) /\ OpOwns
      /\ call.op \in Ops /\ call.p \in Owners
      /\ Yields(call.p) >= Seek(call.op, call.init) /\ call.init = FALSE
      /\ mmapped \in Mappings
  BY GotIs DEF GoesOn
<1>2. PICK p, newp : p = call.p /\ newp = AlignedIn(call.p, call.op.align)
  OBVIOUS
<1>3. PICK s, f : s = mmapped[p].sz /\ f = mmapped[p].prev_size
  OBVIOUS
<1> DEFINE d == newp - p
           m == [sz |-> s - d, prev_size |-> f + d]
<1>4. call' = Idle /\ UNCHANGED <<av, maps>> /\ mmapped' = With(Without(mmapped, {p}), newp, m)
      /\ live' = With(live, newp, call.op.bytes)
  BY <1>1, <1>2, <1>3 DEF DeliverMemalign
<1>5. s \in Int /\ f \in Int
  BY <1>1, <1>2, <1>3, MappedType DEF IsMmapped
<1>6. newp \in Int
  BY <1>2, AlignedIsNew
<1>7. d \in Nat /\ s - d > 0 /\ p \in Nat \ {0}
  BY <1>1, <1>2, <1>3, AlignedIsNew
<1>8. PICK x, y, N : x = BlockStart(p) /\ y = BlockSize(p) /\ N = BlockPages(p)
  OBVIOUS
<1>9. /\ f >= 0 /\ x % PageSize = 0 /\ y % PageSize = 0 /\ N \subseteq maps
      /\ x = p - f /\ y = f + s /\ N = PagesOf(x, y) /\ p \in DOMAIN mmapped
  BY <1>1, <1>2, <1>3, <1>8 DEF Blocks, IsBlock, BlockStart, BlockSize, BlockPages, IsMmapped
<1>11. newp \notin Held /\ (newp \in DOMAIN mmapped => newp = p)
  BY <1>2, AlignedIsNew
<1>12. newp # NULL
  BY <1>6, <1>7 DEF NULL
<1>13. newp \in Owners => newp = p
  BY <1>1, <1>11, HeldIs
<1>14. mmapped'[newp] = m /\ m.sz = s - d /\ m.prev_size = f + d
       /\ DOMAIN mmapped' = (DOMAIN mmapped \ {p}) \cup {newp}
       /\ \A r \in DOMAIN mmapped \ {p} : r # newp /\ mmapped'[r] = mmapped[r]
  <2>1. mmapped'[newp] = m /\ DOMAIN mmapped' = (DOMAIN mmapped \ {p}) \cup {newp}
    BY <1>4 DEF With, Without
  <2>2. \A r \in DOMAIN mmapped \ {p} : r # newp
    BY <1>11
  <2>3. \A r \in DOMAIN mmapped \ {p} : mmapped'[r] = mmapped[r]
    BY <1>4, <2>2 DEF With, Without
  <2> QED
    BY <2>1, <2>2, <2>3
<1>15. newp - (f + d) = x /\ (f + d) + (s - d) = y /\ f + d >= 0
  BY <1>1, <1>2, <1>5, <1>6, <1>7, <1>9
<1> HIDE DEF m, d
<1>16. BlockStart(newp)' = x /\ BlockSize(newp)' = y
  <2>1. BlockStart(newp)' = newp - mmapped'[newp].prev_size
    BY DEF BlockStart
  <2>2. BlockSize(newp)' = mmapped'[newp].prev_size + mmapped'[newp].sz
    BY DEF BlockSize
  <2> QED
    BY <1>14, <1>15, <2>1, <2>2
<1>17. BlockPages(newp)' = N
  BY <1>9, <1>16 DEF BlockPages
<1>18. IsBlock(newp)'
  BY <1>4, <1>7, <1>9, <1>14, <1>15, <1>16, <1>17 DEF IsBlock
<1> DEFINE D == {p}
           Q == {newp}
<1>19. Remapped(D, Q, N, N)
  BY <1>4, <1>9, <1>14 DEF Remapped
<1>20. Blocks' /\ ArenaPages' = ArenaPages
  <2>1. Blocks /\ D \subseteq DOMAIN mmapped /\ (Q = {} => N = {})
    BY <1>1, <1>9
  <2>2. \A z : z \in N <=> \E e \in D : z \in BlockPages(e)
    BY <1>8
  <2>3. \A q, r \in Q : q = r
    OBVIOUS
  <2>4. \A q \in Q : IsBlock(q)' /\ BlockPages(q)' = N
    BY <1>17, <1>18
  <2>5. N \subseteq MapPages /\ \A z \in N : z \in maps => z \in N
    BY <1>1, <1>9 DEF Blocks
  <2> HIDE DEF D, Q
  <2> QED
    BY ONLY <1>19, <2>1, <2>2, <2>3, <2>4, <2>5, BlocksChange
<1>21. DOMAIN live' = DOMAIN live \cup {newp}
  BY <1>4 DEF With
<1>22. newp # av.tcache
  BY <1>1, <1>2, <1>12, <1>13
<1>23. Held' = Held
  <2>1. Taking' = {}
    BY <1>4 DEF Taking, Idle
  <2>2. Owners' = (Owners \ {p}) \cup {newp}
    BY <1>1, <1>2, <1>4, <1>21, <2>1 DEF Owners
  <2>3. \A z : IsMmapped(z)' <=> (IsMmapped(z) /\ z # p) \/ z = newp
    BY <1>14 DEF IsMmapped
  <2>4. IsMmapped(p)
    BY <1>2
  <2> QED
    BY <1>13, <2>2, <2>3, <2>4 DEF Held
<1>24. PICK G : G = ArenaPages
  OBVIOUS
<1>25. ArenaPages' = G /\ Owned(av', Held, EnvOf(G))
  BY <1>1, <1>4, <1>20, <1>24, EnvIsOf
<1>26. av.tcache \notin DOMAIN live'
  BY <1>1, <1>21, <1>22
<1>27. PICK H : H = Held
  OBVIOUS
<1> QED
  BY <1>4, <1>20, <1>23, <1>25, <1>26, <1>27, IdleHolds

LEMMA DeliversOwns == ASSUME GoesOn, Delivers PROVE Holding'
<1>1. At("got") /\ UNCHANGED maps
  BY DEF Delivers
<1>2. call.op \in Ops /\ (call.init \/ call.op.kind # "free")
  BY <1>1, GotIs DEF GoesOn
<1>3. CASE ~call.init
  <2>1. Deliver(call.op, call.p)
    BY <1>3 DEF Delivers
  <2>2. CASE call.op.kind \in {"malloc", "calloc"}
    BY <1>1, <2>1, <2>2, DeliverMallocOwns DEF Deliver
  <2>3. CASE call.op.kind = "realloc"
    BY <1>1, <1>3, <2>1, <2>3, DeliverReallocOwns DEF Deliver
  <2>4. CASE call.op.kind = "copy"
    BY <1>1, <2>1, <2>4, DeliverCopyOwns DEF Deliver
  <2>5. CASE call.op.kind = "memalign"
    BY <1>1, <1>3, <2>1, <2>5, MemalignInArena, MemalignMapped DEF Deliver
  <2> QED
    BY <1>2, <1>3, <2>2, <2>3, <2>4, <2>5 DEF Ops, Kinds
<1> QED
  BY <1>3, TcacheHolds

\* What holds when a call begins or goes on after the tcache was made.
CanStart(op) ==
  /\ Going /\ op \in Ops /\ call.pc \in {"idle", "resume"}
  /\ op.kind \in {"free", "realloc", "copy"} => op.mem \in DOMAIN live
  /\ op.kind = "copy" => op.mem \in DOMAIN mmapped
  /\ op.kind = "memalign" => op.align >= MINSIZE

LEMMA StartIs ==
  ASSUME NEW op, CanStart(op)
  PROVE  /\ Alive /\ Holding /\ Blocks /\ av \in Fit /\ mp \in Params /\ mmapped \in Mappings
         /\ op \in Ops /\ Owned(av, Held, Env) /\ Stock(av, Held \cup Tops(av), Env)
         /\ Taking = {} /\ Owners = DOMAIN live \cup ({av.tcache} \ {NULL})
         /\ av.tcache \notin DOMAIN live
<1>1. call.pc # "got"
  BY DEF CanStart
<1> QED
  BY <1>1, NoneTaken DEF CanStart, Going, Alive, Holding, CallOwns, Owned

\* A call begins to search.
LEMMA SearchStarts ==
  ASSUME NEW op, CanStart(op), NEW init, NEW nb, call' = Search(op, init, nb), nb = Seek(op, init),
         init => av.tcache = NULL, op.kind = "realloc" => ~IsMmapped(op.mem),
         UNCHANGED <<mmapped, maps, live>>, Owned(av', Held, Env)
  PROVE  Holding'
<1>1. /\ Holding /\ Blocks /\ Taking = {} /\ Owners = DOMAIN live \cup ({av.tcache} \ {NULL})
      /\ av.tcache \notin DOMAIN live /\ Owned(av, Held, Env)
  BY StartIs
<1>2. call'.pc = "bins" /\ call'.op = op /\ call'.init = init /\ call'.nb = nb
  BY DEF Search
<1>3. Env' = Env /\ av'.tcache = av.tcache
  BY SameEnv
<1>4. Taking' = {} /\ Held' = Held
  <2>1. Taking' = {}
    BY <1>2 DEF Taking
  <2>2. Owners' = Owners
    BY <1>1, <1>3, <2>1 DEF Owners
  <2> QED
    BY <2>1, <2>2 DEF Held, IsMmapped
<1>5. Owned(av, Held, Env)'
  BY <1>3, <1>4
<1>6. Blocks'
  BY <1>1, SameBlocks
<1>7. OpOwns'
  BY <1>2 DEF OpOwns, CanStart, IsMmapped
<1>8. SearchOwns'
  BY <1>2, <1>3 DEF SearchOwns, Seek
<1>9. CallOwns'
  BY <1>1, <1>2, <1>3, <1>4, <1>7, <1>8 DEF CallOwns, FoundOwns
<1> QED
  BY <1>5, <1>6, <1>9 DEF Holding

LEMMA StartSearchOwns ==
  ASSUME NEW op, CanStart(op), op.kind \in {"calloc", "memalign"}, StartSearch(op)
  PROVE  Holding'
<1> DEFINE nb == IF op.kind = "calloc" THEN request2size(op.bytes)
                 ELSE request2size(request2size(op.bytes) + op.align + MINSIZE)
           no == FALSE
<1>1. call' = Search(op, no, nb) /\ UNCHANGED <<av, mmapped, maps, live>>
  BY DEF StartSearch
<1>2. nb = Seek(op, no)
  BY DEF Seek
<1>3. (no => av.tcache = NULL) /\ (op.kind = "realloc" => ~IsMmapped(op.mem))
  OBVIOUS
<1>4. Owned(av', Held, Env) /\ UNCHANGED <<mmapped, maps, live>>
  BY <1>1, StartIs
<1> HIDE DEF nb, no
<1> QED
  BY <1>1, <1>2, <1>3, <1>4, SearchStarts

LEMMA StartMallocOwns ==
  ASSUME NEW op, CanStart(op), op.kind \in {"malloc", "copy"}, StartMalloc(op)
  PROVE  Holding'
<1>1. /\ Holding /\ Alive /\ Blocks /\ Taking = {} /\ Owners = DOMAIN live \cup ({av.tcache} \ {NULL})
      /\ av.tcache \notin DOMAIN live /\ Owned(av, Held, Env) /\ op \in Ops
      /\ av \in Fit /\ mmapped \in Mappings /\ Stock(av, Held \cup Tops(av), Env)
  BY StartIs
<1>2. PICK nb, i : nb = request2size(op.bytes) /\ i = csize2tidx(nb)
  OBVIOUS
<1>3. nb \in Nat /\ nb >= MINSIZE /\ aligned_OK(nb) /\ UNCHANGED <<mmapped, maps, live>>
      /\ nb = Seek(op, FALSE)
  BY <1>1, <1>2, RequestFits DEF Ops, StartMalloc, Seek
<1>4. CASE av' = av /\ call' = Search(op, FALSE, nb)
  <2> DEFINE no == FALSE
  <2>1. /\ call' = Search(op, no, nb) /\ nb = Seek(op, no) /\ (no => av.tcache = NULL)
        /\ (op.kind = "realloc" => ~IsMmapped(op.mem)) /\ Owned(av', Held, Env)
    BY <1>1, <1>3, <1>4
  <2> HIDE DEF no
  <2> QED
    BY <1>3, <2>1, SearchStarts
<1>5. CASE /\ i < TCACHE_BINS /\ av.cached[i] # <<>> /\ Pops(av, i, av.cached[i], av')
           /\ call' = Got(op, FALSE, Head(av.cached[i]))
  <2>1. i \in CacheIdx
    BY <1>2, <1>3, <1>5, CacheIdxOf
  <2>2. PICK s, h : s = av.cached[i] /\ h = Head(s)
    OBVIOUS
  <2>3. s \in Seq(Int) /\ s # <<>>
    BY <1>1, <1>5, <2>1, <2>2, FieldType DEF Caches
  <2>4. Tail(s) \in Seq(Int) /\ h \in Int
    BY <2>2, <2>3
  <2>5. av' \in Fit
    BY <1>1, <1>5, <2>1, <2>2, <2>4, CacheKeeps DEF Safe, Pops
  <2> DEFINE K == Held \cup Tops(av)
  <2>6. Stock(av, K, Env)
    BY <1>1
  <2> HIDE DEF K
  <2>7. PICK b : b = av'
    OBVIOUS
  <2>8. Pops(av, i, s, b) /\ b \in Fit
    BY <1>5, <2>2, <2>5, <2>7
  <2>9. /\ Stock(b, K \cup {h}, Env) /\ h \notin K /\ b.top = av.top
        /\ chunksize(b, h) >= MINSIZE + i * MALLOC_ALIGNMENT
    <3>1. av \in Fit /\ s = av.cached[i] /\ s # <<>>
      BY <1>1, <2>2, <2>3
    <3>2. /\ Stock(b, K \cup {Head(s)}, Env) /\ Head(s) \notin K /\ b.top = av.top
          /\ chunksize(b, Head(s)) >= MINSIZE + i * MALLOC_ALIGNMENT
      BY ONLY <2>1, <2>6, <2>8, <3>1, CacheServed, ZenonT(40)
    <3> QED
      BY <2>2, <3>2
  <2>10. Owned(b, Held \cup {h}, Env) /\ h \notin Held
    BY <1>1, <2>8, <2>9, TakenOwned DEF K
  <2>11. chunksize(b, h) >= nb
    <3>1. i * MALLOC_ALIGNMENT = nb - MINSIZE
      BY <1>2, <1>3, CacheIdxExact
    <3>2. chunksize(b, h) \in Int /\ MINSIZE \in Nat
      BY <2>8, FitType, Sizes
    <3> DEFINE x == chunksize(b, h)
               y == i * MALLOC_ALIGNMENT
    <3>3. x \in Int /\ MINSIZE \in Nat /\ y = nb - MINSIZE /\ x >= MINSIZE + y /\ nb \in Nat
      BY <1>3, <2>9, <3>1, <3>2
    <3> HIDE DEF x, y
    <3>4. x >= nb
      BY <3>3
    <3> QED
      BY <3>4 DEF x
  <2>12. h \in DOMAIN b.hdr /\ ~IsMmapped(h) /\ h \in Nat \ {0}
    <3> DEFINE M == K \cup {h}
    <3>1. Stock(b, M, Env) /\ h \in M
      BY <2>9
    <3> HIDE DEF M
    <3>2. h \in DOMAIN b.hdr /\ h \in Nat \ {0}
      BY <2>8, <3>1, StockChunks
    <3> QED
      BY <1>1, <2>8, <3>1, <3>2, NotMapped
  <2>13. h \notin Owners
    BY <1>1, <2>10, <2>12 DEF Held
  <2>14. /\ call'.pc = "got" /\ call'.op = op /\ call'.init = FALSE /\ call'.p = h
    BY <1>5, <2>2 DEF Got
  <2>15. Env' = Env /\ av'.tcache = av.tcache
    BY <1>3, <2>7, <2>10, SameEnv
  <2>16. Taking' = {h} /\ Held' = Held \cup {h}
    <3>1. Taking' = {h}
      BY <2>14 DEF Taking
    <3>2. Owners' = Owners \cup {h}
      BY <1>1, <1>3, <2>15, <3>1 DEF Owners
    <3> QED
      BY <1>3, <2>12, <3>1, <3>2 DEF Held, IsMmapped
  <2>17. Owned(av, Held, Env)'
    BY <2>7, <2>10, <2>15, <2>16
  <2>18. OpOwns'
    BY <1>3, <2>14 DEF OpOwns, CanStart, IsMmapped
  <2>19. SearchOwns'
    BY <2>14 DEF SearchOwns
  <2>20. FoundOwns'
    <3>1. Yields(call.p)' = chunksize(b, h)
      <4>1. Yields(h)' = chunksize(b, h)
        BY <1>3, <2>7, <2>12 DEF Yields, IsMmapped
      <4>2. Yields(call.p)' = Yields(h)'
        BY <2>14 DEF Yields, IsMmapped
      <4> QED
        BY <4>1, <4>2
    <3>2. Seek(call.op, call.init)' = nb
      BY <1>3, <2>14 DEF Seek
    <3>3. h \notin DOMAIN live'
      BY <1>3, <2>13 DEF Owners
    <3> QED
      BY <2>11, <2>14, <3>1, <3>2, <3>3 DEF FoundOwns
  <2>21. av.tcache # h
    BY <1>1, <2>12, <2>13 DEF NULL
  <2>22. CallOwns'
    BY <1>1, <1>3, <2>14, <2>15, <2>16, <2>18, <2>19, <2>20, <2>21 DEF CallOwns
  <2>23. Blocks'
    BY <1>1, <1>3, SameBlocks
  <2> QED
    BY <2>17, <2>22, <2>23 DEF Holding
<1>6. [av EXCEPT !.cached[i] = Tail(@)] = [av EXCEPT !.cached[i] = Tail(av.cached[i])]
  BY <1>1 DEF Fit, Arenas
<1> QED
  BY <1>2, <1>4, <1>5, <1>6 DEF StartMalloc, Pops

\* A mapped chunk that no call holds any more is unmapped.
LEMMA UnmapHolds ==
  ASSUME Alive, Holding, Taking = {}, NEW p \in DOMAIN mmapped, p # av.tcache,
         DOMAIN live' = DOMAIN live \ {p}, call' = Idle, av' = av,
         mmapped' = Without(mmapped, {p}), maps' = maps \ BlockPages(p)
  PROVE  Holding'
<1>1. Blocks /\ Owned(av, Held, Env) /\ av.tcache \notin DOMAIN live
      /\ Owners = DOMAIN live \cup ({av.tcache} \ {NULL})
  BY DEF Holding, CallOwns, Owners
<1> DEFINE D == {p}
           Q == {}
           N == {}
           R == BlockPages(p)
<1>2. Remapped(D, Q, R, N)
  BY DEF Remapped, Without
<1>3. Blocks' /\ ArenaPages' = ArenaPages
  <2>1. Blocks /\ D \subseteq DOMAIN mmapped /\ (Q = {} => N = {})
    BY <1>1
  <2>2. \A z : z \in R <=> \E e \in D : z \in BlockPages(e)
    OBVIOUS
  <2>3. \A q, r \in Q : q = r
    OBVIOUS
  <2>4. \A q \in Q : IsBlock(q)' /\ BlockPages(q)' = N
    OBVIOUS
  <2>5. N \subseteq MapPages /\ \A z \in N : z \in maps => z \in R
    OBVIOUS
  <2> HIDE DEF D, Q, R, N
  <2> QED
    BY ONLY <1>2, <2>1, <2>2, <2>3, <2>4, <2>5, BlocksChange
<1>4. Held' = Held
  <2>1. Taking' = {}
    BY DEF Taking, Idle
  <2>2. Owners' = Owners \ {p}
    BY <1>1, <2>1 DEF Owners
  <2>3. \A z : IsMmapped(z)' <=> IsMmapped(z) /\ z # p
    BY DEF IsMmapped, Without
  <2> QED
    BY <2>2, <2>3 DEF Held, IsMmapped
<1>5. PICK G, H : G = ArenaPages /\ H = Held
  OBVIOUS
<1>6. ArenaPages' = G /\ Owned(av', H, EnvOf(G)) /\ Held' = H /\ av.tcache \notin DOMAIN live'
  BY <1>1, <1>3, <1>4, <1>5, EnvIsOf
<1> QED
  BY <1>3, <1>6, IdleHolds

LEMMA Munmapped ==
  ASSUME NEW p, NEW g, munmap_chunk(p, g)
  PROVE  mmapped' = Without(mmapped, {p}) /\ maps' = maps \ BlockPages(p)
  BY DEF munmap_chunk, BlockPages

LEMMA StartFreeOwns ==
  ASSUME NEW op, CanStart(op), op.kind = "free", StartFree(op), ~av'.died
  PROVE  Holding'
<1>1. /\ Holding /\ Alive /\ Blocks /\ Taking = {} /\ Owners = DOMAIN live \cup ({av.tcache} \ {NULL})
      /\ av.tcache \notin DOMAIN live /\ Owned(av, Held, Env) /\ op \in Ops
      /\ av \in Fit /\ mp \in Params
  BY StartIs
<1>2. PICK p : p = op.mem
  OBVIOUS
<1>3. p \in DOMAIN live /\ p # av.tcache
  BY <1>1, <1>2 DEF CanStart
<1>4. live' = Without(live, {p}) /\ call' = Idle /\ DOMAIN live' = DOMAIN live \ {p}
  <2>1. live' = Without(live, {p}) /\ call' = Idle
    BY <1>2 DEF StartFree
  <2> QED
    BY <2>1 DEF Without
<1>5. CASE IsMmapped(p)
  <2>1. av' = Checked(av, BlockOK(p)) /\ \E g : munmap_chunk(p, g)
    BY <1>2, <1>5 DEF StartFree
  <2>2. av' = av
    BY <1>1, <2>1, CheckedAlive
  <2>3. p \in DOMAIN mmapped /\ mmapped' = Without(mmapped, {p}) /\ maps' = maps \ BlockPages(p)
    BY <1>5, <2>1, Munmapped DEF IsMmapped
  <2> QED
    BY <1>1, <1>3, <1>4, <2>2, <2>3, UnmapHolds
<1>6. CASE ~IsMmapped(p)
  <2>1. av' = _int_free(av, p, FALSE) /\ UNCHANGED <<maps, mmapped>>
    BY <1>2, <1>6 DEF StartFree
  <2> DEFINE M == Held \ {p}
  <2>2. p \in Held
    BY <1>1, <1>3, <1>6 DEF Held
  <2>3. Owned(av', M, Env)
    BY <1>1, <2>1, <2>2, IntFreeOwned
  <2>4. av'.tcache = av.tcache
    BY <2>1, <2>3, SameEnv
  <2>5. Taking' = {}
    BY <1>4 DEF Taking, Idle
  <2>6. Owners' = Owners \ {p}
    BY <1>1, <1>3, <1>4, <2>4, <2>5 DEF Owners
  <2>7. Held' = M
    BY <2>1, <2>6 DEF Held, IsMmapped
  <2>8. av.tcache \notin DOMAIN live'
    BY <1>1, <1>4
  <2> HIDE DEF M
  <2> QED
    BY <1>1, <1>4, <2>1, <2>3, <2>7, <2>8, IdleHoldsHere
<1> QED
  BY <1>5, <1>6

LEMMA UnmapsOldOwns == ASSUME GoesOn, UnmapsOld PROVE Holding'
<1>1. PICK p : p = call.op.mem
  OBVIOUS
<1>2. Alive /\ Holding /\ call.pc = "unmap" /\ av \in Fit /\ ~av'.died
  BY DEF GoesOn, Going, UnmapsOld, At, Alive
<1>3. p \in DOMAIN mmapped /\ p \notin Owners /\ Taking = {}
  BY <1>1, <1>2 DEF Holding, CallOwns, OpOwns, Taking
<1>4. av' = Checked(av, BlockOK(p)) /\ munmap_chunk(p, mp) /\ call' = Idle /\ UNCHANGED live
  BY <1>1 DEF UnmapsOld
<1>5. av' = av
  BY <1>2, <1>4, CheckedAlive
<1>6. p \notin DOMAIN live /\ p # av.tcache
  <2>1. p # NULL
    <3>1. p > BrkLimit
      BY <1>2, <1>3, BlocksAbove DEF Alive, Holding
    <3> QED
      BY <3>1, ArenaAssumption DEF NULL
  <2> QED
    BY <1>3, <2>1 DEF Owners
<1>7. DOMAIN live' = DOMAIN live \ {p}
  BY <1>4, <1>6
<1> QED
  BY <1>2, <1>3, <1>4, <1>5, <1>6, <1>7, Munmapped, UnmapHolds

\* Where mremap puts a mapped chunk of the given size.
MoveRoom(p, size) ==
  {n \in MapPages : PagesOf(n * PageSize, size)
                      \subseteq (MapPages \ maps) \cup PagesOf(BlockStart(p), BlockSize(p))}
MoveStart(p, size) ==
  IF BlockStart(p) \div PageSize \in MoveRoom(p, size) THEN BlockStart(p)
  ELSE Min(MoveRoom(p, size)) * PageSize

LEMMA MoveStartIs ==
  ASSUME Alive, Blocks, NEW p \in DOMAIN mmapped, NEW size \in Nat, MoveRoom(p, size) # {},
         NEW start, start = MoveStart(p, size)
  PROVE  /\ start \in Nat /\ start % PageSize = 0 /\ start > BrkLimit
         /\ PagesOf(start, size) \subseteq MapPages
         /\ \A x \in PagesOf(start, size) : x \in maps => x \in BlockPages(p)
<1> DEFINE room == MoveRoom(p, size)
<1>1. mmapped \in Mappings /\ IsBlock(p)
  BY DEF Alive, Blocks
<1>2. PageSize \in Nat \ {0} /\ MapPages \subseteq Nat /\ BrkLimit \in Int
  BY Sizes, MallocAssumption, ArenaAssumption
<1>3. BlockStart(p) \in Int /\ BlockStart(p) % PageSize = 0
  BY <1>1, MappedType DEF IsBlock
<1>4. \E n \in room : start = n * PageSize
  <2>1. CASE BlockStart(p) \div PageSize \in room
    <3> DEFINE s == BlockStart(p)
               n == s \div PageSize
    <3>1. s \in Int /\ s % PageSize = 0
      BY <1>3
    <3> HIDE DEF s
    <3>2. s = n * PageSize
      BY <1>2, <3>1
    <3> QED
      BY <2>1, <3>2 DEF MoveStart, s
  <2>2. CASE BlockStart(p) \div PageSize \notin room
    <3>1. room \subseteq Nat /\ room # {}
      BY <1>2 DEF MoveRoom
    <3>2. start = Min(room) * PageSize
      BY <2>2 DEF MoveStart
    <3> HIDE DEF room
    <3>3. Min(room) \in room
      BY <3>1, MinOf
    <3> QED
      BY <3>2, <3>3
  <2> QED
    BY <2>1, <2>2
<1>5. PICK n \in room : start = n * PageSize
  BY <1>4
<1>6. n \in MapPages /\ n \in Nat /\ start > BrkLimit
      /\ PagesOf(start, size) \subseteq (MapPages \ maps) \cup PagesOf(BlockStart(p), BlockSize(p))
  BY <1>2, <1>5, KernelAssumption DEF MoveRoom
<1>7. start \in Nat /\ start % PageSize = 0
  BY <1>2, <1>5, <1>6
<1>8. BlockPages(p) \subseteq MapPages
  BY <1>1 DEF IsBlock, Blocks
<1> QED
  BY <1>6, <1>7, <1>8 DEF BlockPages

\* Where a mapped chunk moves to, there is no other.
LEMMA MoveIsNew ==
  ASSUME Alive, Holding, NEW p \in DOMAIN mmapped,
         NEW size \in Nat, MoveRoom(p, size) # {}, NEW f, f = mmapped[p].prev_size, size > f,
         NEW start, start = MoveStart(p, size), NEW newp, newp = start + f
  PROVE  /\ newp \in Nat /\ newp > BrkLimit /\ newp # NULL /\ f \in Nat
         /\ newp \notin Held /\ (newp \in DOMAIN mmapped => newp = p)
<1>1. Blocks /\ mmapped \in Mappings
  BY DEF Alive, Holding
<1>2. PICK N : N = PagesOf(start, size)
  OBVIOUS
<1>3. /\ start \in Nat /\ start % PageSize = 0 /\ start > BrkLimit
      /\ N \subseteq MapPages /\ \A x \in N : x \in maps => x \in BlockPages(p)
  BY <1>1, <1>2, MoveStartIs
<1>4. f \in Nat
  <2>1. f \in Int
    BY <1>1, MappedType
  <2> QED
    BY <1>1, <2>1 DEF Blocks, IsBlock
<1>5. newp \in Nat /\ newp > BrkLimit /\ newp # NULL /\ BrkLimit \in Int
  <2>1. BrkLimit \in Nat
    BY ArenaAssumption
  <2> QED
    BY <1>3, <1>4, <2>1 DEF NULL
<1>6. newp \div PageSize \in N
  <2> DEFINE last == start + size - 1
  <2>1. start \in Int /\ last \in Int /\ start <= newp /\ newp <= last /\ newp \in Int
    BY <1>3, <1>4, <1>5
  <2> HIDE DEF last
  <2>2. start \div PageSize <= newp \div PageSize /\ newp \div PageSize <= last \div PageSize
        /\ start \div PageSize \in Int /\ newp \div PageSize \in Int /\ last \div PageSize \in Int
    BY <2>1, PagesMeet, SMTT(30)
  <2> QED
    BY <1>2, <2>2 DEF PagesOf, last
<1>7. newp \notin Held /\ (newp \in DOMAIN mmapped => newp = p)
  <2>1. CASE newp \div PageSize \in BlockPages(p)
    BY <1>1, <1>5, <2>1, InBlock
  <2>2. CASE newp \div PageSize \notin maps
    <3>1. newp \notin Owners /\ newp \notin DOMAIN mmapped
      BY <1>1, <1>5, <2>2, FreshPlace
    <3> QED
      BY <3>1 DEF Held
  <2> QED
    BY <1>3, <1>6, <2>1, <2>2
<1> QED
  BY <1>4, <1>5, <1>7

LEMMA MovesOwns ==
  ASSUME NEW op, CanStart(op), NEW p \in DOMAIN mmapped, p \in DOMAIN live,
         NEW size \in Nat, size % PageSize = 0, MoveRoom(p, size) # {},
         NEW f, f = mmapped[p].prev_size, size > f,
         NEW start, start = MoveStart(p, size), NEW newp, newp = start + f,
         maps' = (maps \ BlockPages(p)) \cup PagesOf(start, size),
         NEW m, mmapped' = With(Without(mmapped, {p}), newp, m), m.sz = size - f, m.prev_size = f,
         DOMAIN live' = (DOMAIN live \ {p}) \cup {newp}, call' = Idle, av' = av
  PROVE  Holding'
<1>1. /\ Holding /\ Alive /\ Blocks /\ Taking = {} /\ Owners = DOMAIN live \cup ({av.tcache} \ {NULL})
      /\ av.tcache \notin DOMAIN live /\ Owned(av, Held, Env) /\ op \in Ops
      /\ av \in Fit /\ mp \in Params /\ mmapped \in Mappings /\ Stock(av, Held \cup Tops(av), Env)
  BY StartIs
<1>2. PICK N : N = PagesOf(start, size)
  OBVIOUS
<1>3. /\ start \in Nat /\ start % PageSize = 0 /\ start > BrkLimit
      /\ N \subseteq MapPages /\ \A x \in N : x \in maps => x \in BlockPages(p)
  BY <1>1, <1>2, MoveStartIs
<1>4. newp \in Nat /\ newp # NULL /\ f \in Nat
      /\ newp \notin Held /\ (newp \in DOMAIN mmapped => newp = p)
  BY <1>1, MoveIsNew
<1>8. newp \in Owners => newp = p
  BY <1>1, <1>4, HeldIs
<1>9. mmapped'[newp] = m
      /\ DOMAIN mmapped' = (DOMAIN mmapped \ {p}) \cup {newp}
      /\ \A r \in DOMAIN mmapped \ {p} : r # newp /\ mmapped'[r] = mmapped[r]
  <2>1. mmapped'[newp] = m /\ DOMAIN mmapped' = (DOMAIN mmapped \ {p}) \cup {newp}
    BY DEF With, Without
  <2>2. \A r \in DOMAIN mmapped \ {p} : r # newp
    BY <1>4
  <2>3. \A r \in DOMAIN mmapped \ {p} : mmapped'[r] = mmapped[r]
    BY <2>2 DEF With, Without
  <2> QED
    BY <2>1, <2>2, <2>3
<1>10. newp - f = start /\ f + (size - f) = size /\ size - f > 0
  BY <1>3, <1>4
<1>11. BlockStart(newp)' = start /\ BlockSize(newp)' = size
  <2>1. BlockStart(newp)' = newp - mmapped'[newp].prev_size
    BY DEF BlockStart
  <2>2. BlockSize(newp)' = mmapped'[newp].prev_size + mmapped'[newp].sz
    BY DEF BlockSize
  <2> QED
    BY <1>9, <1>10, <2>1, <2>2
<1>12. BlockPages(newp)' = N
  BY <1>2, <1>11 DEF BlockPages
<1>13. IsBlock(newp)'
  <2>1. mmapped'[newp].prev_size >= 0 /\ mmapped'[newp].sz > 0
    BY <1>4, <1>9, <1>10
  <2>2. N \subseteq maps'
    BY <1>2
  <2> QED
    BY <1>3, <1>11, <1>12, <2>1, <2>2 DEF IsBlock
<1> DEFINE D == {p}
           Q == {newp}
           R == BlockPages(p)
<1>14. Remapped(D, Q, R, N)
  BY <1>2, <1>9 DEF Remapped
<1>15. Blocks' /\ ArenaPages' = ArenaPages
  <2>1. Blocks /\ D \subseteq DOMAIN mmapped /\ (Q = {} => N = {})
    BY <1>1
  <2>2. \A z : z \in R <=> \E e \in D : z \in BlockPages(e)
    OBVIOUS
  <2>3. \A q, r \in Q : q = r
    OBVIOUS
  <2>4. \A q \in Q : IsBlock(q)' /\ BlockPages(q)' = N
    BY <1>12, <1>13
  <2>5. N \subseteq MapPages /\ \A z \in N : z \in maps => z \in R
    BY <1>3
  <2> HIDE DEF D, Q, R
  <2> QED
    BY ONLY <1>14, <2>1, <2>2, <2>3, <2>4, <2>5, BlocksChange
<1>16. p # av.tcache
  BY <1>1
<1>17. newp # av.tcache
  BY <1>1, <1>4, <1>8, <1>16
<1>18. Held' = Held
  <2>1. Taking' = {}
    BY DEF Taking, Idle
  <2>2. Owners' = (Owners \ {p}) \cup {newp}
    BY <1>1, <1>16, <2>1 DEF Owners
  <2>3. \A z : IsMmapped(z)' <=> (IsMmapped(z) /\ z # p) \/ z = newp
    BY <1>9 DEF IsMmapped
  <2>4. IsMmapped(p)
    BY DEF IsMmapped
  <2> QED
    BY <1>8, <2>2, <2>3, <2>4 DEF Held
<1>19. PICK G, H : G = ArenaPages /\ H = Held
  OBVIOUS
<1>20. ArenaPages' = G /\ Owned(av', H, EnvOf(G)) /\ Held' = H /\ av.tcache \notin DOMAIN live'
  BY <1>1, <1>15, <1>17, <1>18, <1>19, EnvIsOf
<1> QED
  BY <1>15, <1>20, IdleHolds

LEMMA StaysMapped ==
  ASSUME NEW op, CanStart(op), DOMAIN live' = DOMAIN live, call' = Idle, av' = av,
         UNCHANGED <<maps, mmapped>>
  PROVE  Holding'
<1>1. /\ Holding /\ Blocks /\ Taking = {} /\ Owners = DOMAIN live \cup ({av.tcache} \ {NULL})
      /\ av.tcache \notin DOMAIN live /\ Owned(av, Held, Env)
  BY StartIs
<1>2. Held' = Held
  <2>1. Taking' = {}
    BY DEF Taking, Idle
  <2>2. Owners' = Owners
    BY <1>1, <2>1 DEF Owners
  <2> QED
    BY <2>2 DEF Held, IsMmapped
<1>3. PICK H : H = Held
  OBVIOUS
<1> QED
  BY <1>1, <1>2, <1>3, IdleHoldsHere

LEMMA CopyStarts ==
  ASSUME NEW op, CanStart(op), op.kind = "realloc", IsMmapped(op.mem),
         NEW copy, copy = [op EXCEPT !.kind = "copy"],
         call' = IF av.tcache = NULL THEN InitTcache(copy) ELSE [pc |-> "resume", op |-> copy],
         UNCHANGED <<av, mmapped, maps, live>>
  PROVE  Holding'
<1>1. /\ Holding /\ Alive /\ Blocks /\ Taking = {} /\ Owners = DOMAIN live \cup ({av.tcache} \ {NULL})
      /\ av.tcache \notin DOMAIN live /\ Owned(av, Held, Env) /\ op \in Ops
  BY StartIs
<1>2. copy \in Ops /\ copy.kind = "copy" /\ copy.mem = op.mem
  BY <1>1 DEF Ops, Kinds
<1>3. CanStart(copy)
  BY <1>2 DEF CanStart, IsMmapped
<1>4. CASE av.tcache = NULL
  <2> DEFINE yes == TRUE
             nb == request2size(TCACHE_STRUCT)
  <2>1. call' = Search(copy, yes, nb) /\ nb = Seek(copy, yes) /\ (yes => av.tcache = NULL)
    BY <1>4 DEF InitTcache, Seek
  <2>2. copy.kind = "realloc" => ~IsMmapped(copy.mem)
    BY <1>2
  <2>3. Owned(av', Held, Env) /\ UNCHANGED <<mmapped, maps, live>>
    BY <1>1
  <2> HIDE DEF yes, nb
  <2> QED
    BY <1>3, <2>1, <2>2, <2>3, SearchStarts
<1>5. CASE av.tcache # NULL
  <2>1. call'.pc = "resume" /\ call'.op = copy
    BY <1>5
  <2>2. Taking' = {} /\ Held' = Held
    <3>1. Taking' = {}
      BY <2>1 DEF Taking
    <3>2. Owners' = Owners
      BY <1>1, <3>1 DEF Owners
    <3> QED
      BY <3>1, <3>2 DEF Held, IsMmapped
  <2>3. Env' = Env /\ Blocks'
    BY <1>1, SamePages, SameBlocks DEF Env
  <2>4. Owned(av, Held, Env)'
    BY <1>1, <2>2, <2>3
  <2>5. OpOwns'
    BY <1>2, <1>3, <2>1 DEF OpOwns, CanStart
  <2>6. CallOwns'
    BY <1>1, <2>1, <2>2, <2>5 DEF CallOwns, SearchOwns, FoundOwns
  <2> QED
    BY <2>3, <2>4, <2>6 DEF Holding
<1> QED
  BY <1>4, <1>5

LEMMA ReallocMappedOwns ==
  ASSUME NEW op, CanStart(op), op.kind = "realloc", IsMmapped(op.mem), ReallocMapped(op), ~av'.died
  PROVE  Holding'
<1>1. PICK p, nb, f : p = op.mem /\ nb = request2size(op.bytes) /\ f = mmapped[op.mem].prev_size
  OBVIOUS
<1>2. PICK size : size = ALIGN_UP(nb + f + SIZE_SZ, PageSize)
  OBVIOUS
<1>3. PICK start : start = MoveStart(p, size)
  OBVIOUS
<1> DEFINE newp == start + f
           m == [mmapped[p] EXCEPT !.sz = size - f]
           copy == [op EXCEPT !.kind = "copy"]
<1>4. \/ /\ live' = [live EXCEPT ![p] = op.bytes] /\ call' = Idle
         /\ av' = Checked(av, BlockOK(p)) /\ UNCHANGED <<mmapped, maps>>
      \/ /\ MoveRoom(p, size) # {}
         /\ maps' = (maps \ BlockPages(p)) \cup PagesOf(start, size)
         /\ mmapped' = With(Without(mmapped, {p}), newp, m)
         /\ live' = With(Without(live, {p}), newp, op.bytes)
         /\ call' = Idle
         /\ av' = Checked(av, BlockOK(p))
      \/ /\ av' = Checked(av, BlockOK(p))
         /\ call' = IF av.tcache = NULL THEN InitTcache(copy) ELSE [pc |-> "resume", op |-> copy]
         /\ UNCHANGED <<mmapped, maps, live>>
  BY <1>1, <1>2, <1>3 DEF ReallocMapped, MoveRoom, MoveStart, BlockPages
<1>5. /\ Alive /\ Blocks /\ av \in Fit /\ mmapped \in Mappings /\ op \in Ops
      /\ p \in DOMAIN live /\ p \in DOMAIN mmapped
  BY <1>1, StartIs DEF CanStart, IsMmapped
<1>6. f \in Nat /\ nb \in Nat
  <2>1. f \in Int
    BY <1>1, <1>5, MappedType
  <2> QED
    BY <1>1, <1>5, <2>1, RequestFits DEF Blocks, IsBlock, Ops
<1>7. size \in Nat /\ size % PageSize = 0 /\ size > f
  <2> DEFINE x == nb + f + SIZE_SZ
  <2>1. x \in Nat /\ x > f
    BY <1>6, Sizes
  <2> HIDE DEF x
  <2>2. ALIGN_UP(x, PageSize) \in Nat /\ ALIGN_UP(x, PageSize) >= x /\ ALIGN_UP(x, PageSize) % PageSize = 0
    BY <2>1, AlignUp, Sizes
  <2>3. size = ALIGN_UP(x, PageSize)
    BY <1>2 DEF x
  <2> QED
    BY <1>6, <2>1, <2>2, <2>3
<1>8. CASE live' = [live EXCEPT ![p] = op.bytes] /\ call' = Idle
           /\ av' = Checked(av, BlockOK(p)) /\ UNCHANGED <<mmapped, maps>>
  <2>1. av' = av
    BY <1>5, <1>8, CheckedAlive
  <2>2. DOMAIN live' = DOMAIN live
    BY <1>8
  <2> QED
    BY <1>8, <2>1, <2>2, StaysMapped
<1>9. CASE /\ MoveRoom(p, size) # {}
           /\ maps' = (maps \ BlockPages(p)) \cup PagesOf(start, size)
           /\ mmapped' = With(Without(mmapped, {p}), newp, m)
           /\ live' = With(Without(live, {p}), newp, op.bytes)
           /\ call' = Idle
           /\ av' = Checked(av, BlockOK(p))
  <2>1. av' = av
    BY <1>5, <1>9, CheckedAlive
  <2>2. m.sz = size - f /\ m.prev_size = f
    <3>1. mmapped[p] \in [sz : Int, prev_size : Int]
      BY <1>5, MappedType
    <3> QED
      BY <1>1, <3>1
  <2>3. DOMAIN live' = (DOMAIN live \ {p}) \cup {newp}
    BY <1>9 DEF With, Without
  <2>4. PICK q, r : q = newp /\ r = m
    OBVIOUS
  <2>5. /\ q = start + f /\ mmapped' = With(Without(mmapped, {p}), q, r)
        /\ r.sz = size - f /\ r.prev_size = f /\ DOMAIN live' = (DOMAIN live \ {p}) \cup {q}
    BY <1>9, <2>2, <2>3, <2>4
  <2>6. /\ MoveRoom(p, size) # {} /\ call' = Idle
        /\ maps' = (maps \ BlockPages(p)) \cup PagesOf(start, size) /\ f = mmapped[p].prev_size
    BY <1>1, <1>9
  <2> HIDE DEF newp, m
  <2> QED
    BY <1>3, <1>5, <1>7, <2>1, <2>5, <2>6, MovesOwns
<1>10. CASE /\ av' = Checked(av, BlockOK(p))
            /\ call' = IF av.tcache = NULL THEN InitTcache(copy) ELSE [pc |-> "resume", op |-> copy]
            /\ UNCHANGED <<mmapped, maps, live>>
  <2>1. av' = av
    BY <1>5, <1>10, CheckedAlive
  <2> QED
    BY <1>10, <2>1, CopyStarts
<1> HIDE DEF newp, m, copy
<1> QED
  BY <1>4, <1>8, <1>9, <1>10

\* The chunk in front of top takes from it, or gives back to it.
IntoTop(a, p, nb, t) == Moved(set_head_size(a, p, nb), p + nb, t)

LEMMA IntoTopOwned ==
  ASSUME NEW a \in Fit, NEW H, NEW e, Owned(a, H, e), NEW p \in H,
         a.top = p + chunksize(a, p),
         NEW nb \in Nat, NEW t \in Nat, nb >= MINSIZE, t >= MINSIZE,
         nb + t = chunksize(a, p) + chunksize(a, a.top)
  PROVE  Owned(IntoTop(a, p, nb, t), H, e)
<1> DEFINE K == H \cup Tops(a)
           q == a.top
           n == chunksize(a, p) + chunksize(a, q)
           x == prev_inuse(a, p)
           y == TRUE
           b == set_head(set_head(a, p, nb, x), p + nb, t, y)
           r == p + nb
           M == (K \ (p .. p + n - 1)) \cup {p} \cup {r}
<1>1. Stock(a, K, e) /\ q \notin H /\ p \in K
  BY DEF Owned
<1> HIDE DEF K
<1>2. p \in Nat \ {0} /\ chunksize(a, p) \in Nat /\ chunksize(a, p) >= MINSIZE /\ MINSIZE \in Nat /\ MINSIZE > 0
  BY <1>1, ChunkIsClear, MinSizePositive
<1>3. q \in K /\ q # NULL
  <2>1. q # NULL
    BY <1>2 DEF NULL
  <2> QED
    BY <2>1 DEF K, Tops
<1>4. /\ Clear(a, p, n, e) /\ K \ (p .. p + n - 1) = K \ {p, q} /\ n \in Nat
  BY <1>1, <1>3, PairIsClear
<1>5. n = nb + t /\ x \in BOOLEAN /\ y \in BOOLEAN /\ r \in Nat /\ r # p
  BY <1>2, FitType
<1> HIDE DEF n, x, y
<1>6. /\ b \in Fit /\ b.top = a.top
      /\ Stock(b, (K \ (p .. p + nb + t - 1)) \cup {z \in {p} : nb >= MINSIZE}
                    \cup {z \in {p + nb} : t >= MINSIZE}, e)
  <2>1. Clear(a, p, nb + t, e) /\ nb > 0 /\ t > 0
    BY <1>2, <1>4, <1>5
  <2>2. a \in Fit /\ Stock(a, K, e) /\ p \in Nat \ {0} /\ nb \in Nat /\ t \in Nat
        /\ x \in BOOLEAN /\ y \in BOOLEAN
    BY <1>1, <1>2, <1>5
  <2> DEFINE L == (K \ (p .. p + nb + t - 1)) \cup {z \in {p} : nb >= MINSIZE}
                    \cup {z \in {p + nb} : t >= MINSIZE}
  <2>3. /\ set_head(set_head(a, p, nb, x), p + nb, t, y) \in Fit
        /\ set_head(set_head(a, p, nb, x), p + nb, t, y).top = a.top
        /\ Stock(set_head(set_head(a, p, nb, x), p + nb, t, y), L, e)
    BY ONLY <2>1, <2>2, TwoPieces
  <2> HIDE DEF L
  <2>4. b \in Fit /\ b.top = a.top /\ Stock(b, L, e)
    BY <2>3
  <2> QED
    BY <2>4 DEF L
<1>7. (K \ (p .. p + nb + t - 1)) \cup {z \in {p} : nb >= MINSIZE} \cup {z \in {p + nb} : t >= MINSIZE} = M
  <2>1. p + n - 1 = p + nb + t - 1
    BY <1>2, <1>5
  <2> QED
    BY <2>1
<1> HIDE DEF b
<1>8. Stock(b, M, e) /\ r \in M
  BY <1>6, <1>7
<1>9. M \ {r} = H
  <2>1. r \in p .. p + n - 1
    BY <1>2, <1>5
  <2>2. K \ (p .. p + n - 1) = H \ {p}
    BY <1>1, <1>3, <1>4 DEF K, Tops
  <2>3. r \notin H \ {p}
    BY <2>1, <2>2
  <2> QED
    BY <1>5, <2>2, <2>3
<1> HIDE DEF M
<1>10. Owned([b EXCEPT !.top = r], M \ {r}, e)
  BY <1>6, <1>8, TopMovesTo
<1>11. IntoTop(a, p, nb, t) = [b EXCEPT !.top = r]
  <2> DEFINE c == set_head_size(a, p, nb)
  <2>1. c = set_head(a, p, nb, x)
    BY DEF set_head_size, x
  <2>2. c \in Fit
    BY <1>2, SetHeadSizeKeeps DEF Keeps, Safe
  <2>3. b = set_head(c, r, t, TRUE)
    BY <2>1 DEF b, y
  <2> HIDE DEF c
  <2>4. Moved(c, r, t) = [set_head(c, r, t, TRUE) EXCEPT !.top = r]
    BY <2>2, MovedIs
  <2> QED
    BY <2>3, <2>4 DEF IntoTop, c
<1> QED
  BY <1>9, <1>10, <1>11

\* A chunk made longer by the free one behind it, cut to what is wanted.
LEMMA IntoNextOwned ==
  ASSUME NEW a \in Fit, NEW H, NEW e, Owned(a, H, e), NEW p \in H, mp \in Params,
         NEW q, q = p + chunksize(a, p), q # a.top,
         NEW n, n = chunksize(a, p) + chunksize(a, q),
         NEW nb \in Nat, nb >= MINSIZE, n >= nb,
         ~FreeTail(unlink_chunk(a, q), p, n, nb).died
  PROVE  Owned(FreeTail(unlink_chunk(a, q), p, n, nb), H, e)
<1> DEFINE K == H \cup Tops(a)
           u == unlink_chunk(a, q)
           G == H \cup {q}
<1>1. Stock(a, K, e) /\ p \in K
  BY DEF Owned
<1> HIDE DEF K
<1>2. p \in Nat \ {0} /\ chunksize(a, p) \in Nat
  BY <1>1, ChunkIsClear
<1>3. n \in Int
  BY <1>2, FitType
<1>4. u \in Fit
  BY UnlinkKeeps DEF Keeps, Safe
<1>5. ~u.died
  <2> HIDE DEF u
  <2>1. Safe(u, FreeTail(u, p, n, nb))
    BY <1>2, <1>3, <1>4, FreeTailSafe
  <2> QED
    BY <2>1 DEF Safe, u
<1>6. q \in On(a) /\ Stock(u, K \cup {q}, e) /\ u.hdr = a.hdr /\ u.top = a.top
  BY <1>1, <1>5, UnlinkStock, SMTT(30)
<1>7. q \notin K /\ \A r : chunksize(u, r) = chunksize(a, r)
  BY <1>1, <1>6, StockChunks DEF chunksize
<1> HIDE DEF u
<1>8. Owned(u, G, e)
  BY <1>4, <1>6, <1>7, TakenOwned DEF K
<1> DEFINE L == K \cup {q}
<1>9. /\ Clear(u, p, n, e) /\ L \ (p .. p + n - 1) = L \ {p, q} /\ n \in Nat
  <2>1. p \in L /\ q \in L /\ Stock(u, L, e) /\ q = p + chunksize(u, p)
        /\ n = chunksize(u, p) + chunksize(u, q)
    BY <1>1, <1>6, <1>7
  <2> HIDE DEF L
  <2> QED
    BY <1>4, <2>1, PairIsClear
<1>10. Spans(u, G, p, n, H, e)
  <2>1. u.top \notin p .. p + n - 1
    <3>1. u.top = NULL => u.top \notin p .. p + n - 1
      BY <1>2 DEF NULL
    <3>2. u.top # NULL => u.top \in L \ {p, q}
      <4>1. u.top \notin H
        BY <1>8 DEF Owned
      <4> QED
        BY <1>6, <4>1 DEF K, Tops
    <3> QED
      BY <1>9, <3>1, <3>2
  <2>2. G \ (p .. p + n - 1) = G \ {p, q}
    BY <1>9 DEF K
  <2>3. H = (G \ (p .. p + n - 1)) \cup {p}
    BY <1>7, <2>2 DEF K
  <2> QED
    BY <1>9, <2>1, <2>3 DEF Spans
<1> HIDE DEF G, L
<1>11. ~FreeTail(u, p, n, nb).died
  BY DEF u
<1>12. Owned(FreeTail(u, p, n, nb), H, e)
  BY <1>2, <1>4, <1>8, <1>9, <1>10, <1>11, FreeTailOwned
<1> QED
  BY <1>12 DEF u

LEMMA ShrinkOwned ==
  ASSUME NEW a \in Fit, NEW H, NEW e, Owned(a, H, e), NEW p \in H, mp \in Params,
         NEW n, n = chunksize(a, p), NEW nb \in Nat, nb >= MINSIZE, n >= nb,
         ~FreeTail(a, p, n, nb).died
  PROVE  Owned(FreeTail(a, p, n, nb), H, e)
<1> DEFINE K == H \cup Tops(a)
<1>1. Stock(a, K, e) /\ p \in K /\ a.top \notin H
  BY DEF Owned
<1> HIDE DEF K
<1>2. /\ Clear(a, p, n, e) /\ K \ (p .. p + n - 1) = K \ {p}
      /\ p \in Nat \ {0} /\ n \in Nat
  BY <1>1, ChunkIsClear
<1>3. Spans(a, H, p, n, H, e)
  <2>1. a.top \notin p .. p + n - 1
    <3>1. a.top = NULL => a.top \notin p .. p + n - 1
      BY <1>2 DEF NULL
    <3>2. a.top # NULL => a.top \in K \ {p}
      BY <1>1 DEF K, Tops
    <3> QED
      BY <1>2, <3>1, <3>2
  <2>2. H = (H \ (p .. p + n - 1)) \cup {p}
    BY <1>2 DEF K
  <2> QED
    BY <1>2, <2>1, <2>2 DEF Spans
<1> QED
  BY <1>2, <1>3, FreeTailOwned

LEMMA EndsInPlace ==
  ASSUME NEW op, CanStart(op), DOMAIN live' = DOMAIN live, call' = Idle,
         UNCHANGED <<maps, mmapped>>, Owned(av', Held, Env)
  PROVE  Holding'
<1>1. /\ Holding /\ Blocks /\ Taking = {} /\ Owners = DOMAIN live \cup ({av.tcache} \ {NULL})
      /\ av.tcache \notin DOMAIN live
  BY StartIs
<1>2. av'.tcache = av.tcache
  BY SameEnv
<1>3. Held' = Held
  <2>1. Taking' = {}
    BY DEF Taking, Idle
  <2>2. Owners' = Owners
    BY <1>1, <1>2, <2>1 DEF Owners
  <2> QED
    BY <2>2 DEF Held, IsMmapped
<1>4. PICK H : H = Held
  OBVIOUS
<1> QED
  BY <1>1, <1>3, <1>4, IdleHoldsHere

LEMMA ReallocInArenaOwns ==
  ASSUME NEW op, CanStart(op), op.kind = "realloc", ~IsMmapped(op.mem), ReallocInArena(op), ~av'.died
  PROVE  Holding'
<1>1. PICK p, nb, size : p = op.mem /\ nb = request2size(op.bytes) /\ size = chunksize(av, p)
  OBVIOUS
<1>2. PICK next, nextsize : next = p + size /\ nextsize = chunksize(av, next)
  OBVIOUS
<1> DEFINE ok == MoreThanHeader(av, next) /\ nextsize < av.system_mem
                 /\ MoreThanHeader(av, p) /\ size < av.system_mem
<1>14. PICK a : a = Checked(av, ok)
  OBVIOUS
<1>4. UNCHANGED <<maps, mmapped>>
  BY DEF ReallocInArena
<1>5. /\ av \in Fit /\ mp \in Params /\ op \in Ops /\ Owned(av, Held, Env)
      /\ Stock(av, Held \cup Tops(av), Env) /\ av.tcache \notin DOMAIN live
      /\ Owners = DOMAIN live \cup ({av.tcache} \ {NULL})
  BY StartIs
<1>6. p \in DOMAIN live /\ p \in Held
  BY <1>1, <1>5 DEF CanStart, Held
<1>7. nb \in Nat /\ nb >= MINSIZE /\ MINSIZE \in Nat
  BY <1>1, <1>5, SeekJoins, Sizes
<1>8. p \in Nat \ {0} /\ size \in Nat /\ size >= MINSIZE /\ nextsize \in Int /\ next \in Nat
  <2>1. p \in Held \cup Tops(av)
    BY <1>6
  <2>2. p \in Nat \ {0} /\ size \in Nat /\ size >= MINSIZE
    BY <1>1, <1>5, <2>1, ChunkIsClear
  <2> QED
    BY <1>2, <1>5, <2>2, FitType
<1>9. a \in Fit /\ (~a.died => a = av)
  BY <1>14, <1>5, CheckedFit, CheckedAlive
<1>3. \/ /\ size >= nb /\ av' = FreeTail(a, p, size, nb)
         /\ live' = [live EXCEPT ![p] = op.bytes] /\ call' = Idle
      \/ /\ size < nb /\ next = av.top /\ size + nextsize >= nb + MINSIZE
         /\ av' = set_head([set_head_size(a, p, nb) EXCEPT !.top = p + nb], p + nb,
                           size + nextsize - nb, TRUE)
         /\ live' = [live EXCEPT ![p] = op.bytes] /\ call' = Idle
      \/ /\ size < nb /\ next # av.top /\ size + nextsize >= nb
         /\ av' = FreeTail(unlink_chunk(a, next), p, size + nextsize, nb)
         /\ live' = [live EXCEPT ![p] = op.bytes] /\ call' = Idle
      \/ /\ av' = a /\ live' = live
         /\ call' = Search(op, FALSE, request2size(nb - MALLOC_ALIGN_MASK))
  <2> DEFINE P == next = av.top /\ size + nextsize >= nb + MINSIZE
             Q == next # av.top /\ ~inuse(av, next) /\ size + nextsize >= nb
             Y1 == FreeTail(a, p, size, nb)
             Y2 == set_head([set_head_size(a, p, nb) EXCEPT !.top = p + nb], p + nb,
                            size + nextsize - nb, TRUE)
             Y3 == FreeTail(unlink_chunk(a, next), p, size + nextsize, nb)
             L == [live EXCEPT ![p] = op.bytes]
             C == Search(op, FALSE, request2size(nb - MALLOC_ALIGN_MASK))
  <2>1. /\ av' = CASE size >= nb -> Y1 [] size < nb /\ P -> Y2 [] size < nb /\ Q -> Y3 [] OTHER -> a
        /\ live' = IF size >= nb \/ P \/ Q THEN L ELSE live
        /\ call' = IF size >= nb \/ P \/ Q THEN Idle ELSE C
    BY <1>1, <1>2, <1>14 DEF ReallocInArena
  <2>2. (P => ~Q) /\ (size < nb <=> ~(size >= nb))
    BY <1>7, <1>8
  <2>3. (P => next = av.top /\ size + nextsize >= nb + MINSIZE)
        /\ (Q => next # av.top /\ size + nextsize >= nb)
    OBVIOUS
  <2> DEFINE R == size >= nb
  <2>4. /\ av' = CASE R -> Y1 [] ~R /\ P -> Y2 [] ~R /\ Q -> Y3 [] OTHER -> a
        /\ live' = IF R \/ P \/ Q THEN L ELSE live
        /\ call' = IF R \/ P \/ Q THEN Idle ELSE C
    BY <2>1, <2>2
  <2>5. (R => size >= nb) /\ (~R => size < nb)
    BY <2>2
  <2>6. P => ~Q
    BY <2>2
  <2> HIDE DEF P, Q, R, Y1, Y2, Y3, L, C
  <2>7. \/ R /\ av' = Y1 /\ live' = L /\ call' = Idle
        \/ ~R /\ P /\ av' = Y2 /\ live' = L /\ call' = Idle
        \/ ~R /\ Q /\ av' = Y3 /\ live' = L /\ call' = Idle
        \/ av' = a /\ live' = live /\ call' = C
    BY <2>4, <2>6
  <2> QED
    BY <2>3, <2>5, <2>7 DEF Y1, Y2, Y3, L, C
<1> HIDE DEF ok
<1>10. CASE /\ size >= nb /\ av' = FreeTail(a, p, size, nb)
            /\ live' = [live EXCEPT ![p] = op.bytes] /\ call' = Idle
  <2>1. Safe(a, FreeTail(a, p, size, nb))
    BY <1>5, <1>7, <1>8, <1>9, FreeTailSafe
  <2>2. a = av
    BY <1>9, <1>10, <2>1 DEF Safe
  <2>3. Owned(av', Held, Env)
    BY <1>1, <1>5, <1>6, <1>7, <1>10, <2>2, ShrinkOwned
  <2> QED
    BY <1>4, <1>10, <2>3, EndsInPlace
<1>11. CASE /\ size < nb /\ next = av.top /\ size + nextsize >= nb + MINSIZE
            /\ av' = set_head([set_head_size(a, p, nb) EXCEPT !.top = p + nb], p + nb,
                              size + nextsize - nb, TRUE)
            /\ live' = [live EXCEPT ![p] = op.bytes] /\ call' = Idle
  <2> DEFINE t == size + nextsize - nb
  <2>1. t \in Nat /\ t >= MINSIZE /\ nb + t = size + nextsize
    BY <1>7, <1>8, <1>11
  <2>2. av' = IntoTop(a, p, nb, t)
    BY <1>11 DEF IntoTop, Moved
  <2> HIDE DEF t
  <2>3. a = av
    <3> DEFINE c == set_head_size(a, p, nb)
    <3>1. Safe(a, c) /\ c \in Fit
      BY <1>7, <1>8, <1>9, SetHeadSizeKeeps DEF Keeps, Safe
    <3>2. av' = Moved(c, p + nb, t)
      BY <2>2 DEF IntoTop
    <3> HIDE DEF c
    <3>3. av' = [set_head(c, p + nb, t, TRUE) EXCEPT !.top = p + nb]
      BY <3>1, <3>2, MovedIs
    <3> DEFINE d == set_head(c, p + nb, t, TRUE)
               r == p + nb
    <3>4. Safe(c, d) /\ d \in Fit
      <4> DEFINE yes == TRUE
      <4>1. r \in Int /\ t \in Int /\ yes \in BOOLEAN
        BY <1>7, <1>8, <2>1
      <4>2. d = set_head(c, r, t, yes)
        OBVIOUS
      <4> HIDE DEF yes, r, d
      <4> QED
        BY <3>1, <4>1, <4>2, SetHeadKeeps DEF Keeps, Safe
    <3>5. av' = [d EXCEPT !.top = r]
      BY <3>3
    <3> HIDE DEF d, r
    <3>6. av'.died = d.died
      BY <3>4, <3>5 DEF Fit, Arenas
    <3>7. ~a.died
      BY <3>1, <3>4, <3>6 DEF Safe
    <3> QED
      BY <1>9, <3>7
  <2>4. av.top = p + chunksize(av, p) /\ nb + t = chunksize(av, p) + chunksize(av, av.top)
    BY <1>1, <1>2, <1>11, <2>1
  <2>5. Owned(av', Held, Env)
    BY <1>5, <1>6, <1>7, <2>1, <2>2, <2>3, <2>4, IntoTopOwned
  <2> QED
    BY <1>4, <1>11, <2>5, EndsInPlace
<1>12. CASE /\ size < nb /\ next # av.top /\ size + nextsize >= nb
            /\ av' = FreeTail(unlink_chunk(a, next), p, size + nextsize, nb)
            /\ live' = [live EXCEPT ![p] = op.bytes] /\ call' = Idle
  <2>1. PICK n : n = size + nextsize
    OBVIOUS
  <2>2. n \in Int
    BY <1>8, <2>1
  <2> DEFINE u == unlink_chunk(a, next)
  <2>3. u \in Fit /\ Safe(a, u)
    BY <1>9, UnlinkKeeps DEF Keeps, Safe
  <2>4. av' = FreeTail(u, p, n, nb)
    BY <1>12, <2>1
  <2> HIDE DEF u
  <2>5. Safe(u, FreeTail(u, p, n, nb))
    BY <1>5, <1>7, <1>8, <2>2, <2>3, FreeTailSafe
  <2>6. a = av
    BY <1>9, <2>3, <2>4, <2>5 DEF Safe
  <2>7. Owned(av', Held, Env)
    <3>1. /\ av' = FreeTail(unlink_chunk(av, next), p, n, nb) /\ ~av'.died
          /\ next = p + chunksize(av, p) /\ next # av.top
          /\ n = chunksize(av, p) + chunksize(av, next) /\ n >= nb
      BY <1>1, <1>2, <1>12, <2>1, <2>4, <2>6 DEF u
    <3> QED
      BY <1>5, <1>6, <1>7, <3>1, IntoNextOwned
  <2> QED
    BY <1>4, <1>12, <2>7, EndsInPlace
<1>13. CASE /\ av' = a /\ live' = live
            /\ call' = Search(op, FALSE, request2size(nb - MALLOC_ALIGN_MASK))
  <2> DEFINE no == FALSE
             x == request2size(nb - MALLOC_ALIGN_MASK)
  <2>1. call' = Search(op, no, x) /\ x = Seek(op, no)
    BY <1>1, <1>13 DEF Seek
  <2>2. av' = av
    BY <1>9, <1>13
  <2>3. ~no
    OBVIOUS
  <2> HIDE DEF no, x
  <2> QED
    BY <1>4, <1>5, <1>13, <2>1, <2>2, <2>3, SearchStarts
<1> HIDE DEF IntoTop
<1> QED
  BY <1>3, <1>10, <1>11, <1>12, <1>13

LEMMA StartOwns ==
  ASSUME NEW op, CanStart(op), Start(op), ~av'.died
  PROVE  Holding'
<1>1. op.kind \in Kinds
  BY DEF CanStart, Ops
<1>2. CASE op.kind \in {"malloc", "copy"}
  <2>1. StartMalloc(op)
    BY <1>2 DEF Start
  <2> QED
    BY <1>2, <2>1, StartMallocOwns
<1>3. CASE op.kind \in {"calloc", "memalign"}
  <2>1. StartSearch(op)
    BY <1>3 DEF Start
  <2> QED
    BY <1>3, <2>1, StartSearchOwns
<1>4. CASE op.kind = "free"
  <2>1. StartFree(op)
    BY <1>4 DEF Start
  <2> QED
    BY <1>4, <2>1, StartFreeOwns
<1>5. CASE op.kind = "realloc"
  <2>1. IF IsMmapped(op.mem) THEN ReallocMapped(op) ELSE ReallocInArena(op)
    BY <1>5 DEF Start
  <2> QED
    BY <1>5, <2>1, ReallocMappedOwns, ReallocInArenaOwns
<1> QED
  BY <1>1, <1>2, <1>3, <1>4, <1>5 DEF Kinds

LEMMA StartWithTcacheOwns ==
  ASSUME NEW op, CanStart(op), StartWithTcache(op), ~av'.died
  PROVE  Holding'
<1>1. CASE av.tcache = NULL /\ WantsTcache(op)
  <2> DEFINE yes == TRUE
             nb == request2size(TCACHE_STRUCT)
  <2>1. /\ call' = Search(op, yes, nb) /\ nb = Seek(op, yes) /\ (yes => av.tcache = NULL)
        /\ UNCHANGED <<av, mmapped, maps, live>>
    BY <1>1 DEF StartWithTcache, InitTcache, Seek
  <2>2. op.kind = "realloc" => ~IsMmapped(op.mem)
    BY <1>1 DEF WantsTcache
  <2>3. Owned(av', Held, Env)
    BY <2>1, StartIs
  <2> HIDE DEF yes, nb
  <2> QED
    BY <2>1, <2>2, <2>3, SearchStarts
<1>2. CASE Start(op)
  BY <1>2, StartOwns
<1> QED
  BY <1>1, <1>2 DEF StartWithTcache

LEMMA ResumesWith == ASSUME GoesOn, Resumes PROVE CanStart(call.op)
<1>1. /\ call.pc = "resume" /\ Alive /\ Holding
  BY DEF GoesOn, Going, Resumes, At
<1>2. call # Idle
  BY <1>1 DEF Idle
<1>3. call.op \in Ops
  BY <1>1, <1>2, CallShape DEF Alive, Resumed
<1>4. OpOwns
  BY <1>1 DEF Holding, CallOwns
<1> QED
  BY <1>1, <1>2, <1>3, <1>4 DEF CanStart, GoesOn, OpOwns, Alive, CopyMapped

LEMMA ResumesOwns == ASSUME GoesOn, Resumes PROVE Holding'
<1>1. CanStart(call.op) /\ Start(call.op) /\ ~av'.died
  BY ResumesWith DEF Resumes, GoesOn
<1> QED
  BY <1>1, StartOwns

\* What the client calls.
Begun(op) == CanStart(op) /\ StartWithTcache(op)
Calling ==
  \/ \E bytes \in Requests : Malloc(bytes)
  \/ \E bytes \in CallocRequests : Calloc(bytes)
  \/ \E align \in Alignments, bytes \in AlignedRequests : Memalign(align, bytes)
  \/ \E p \in DOMAIN live : Free(p)
  \/ \E p \in DOMAIN live, bytes \in ReallocRequests : Realloc(p, bytes)

LEMMA Beginning ==
  ASSUME GoesOn, At("idle"), NEW op \in Ops, StartWithTcache(op),
         op.kind # "copy", op.kind \in {"free", "realloc"} => op.mem \in DOMAIN live,
         op.kind = "memalign" => op.align >= MINSIZE
  PROVE  \E o : Begun(o)
  BY DEF Begun, CanStart, GoesOn, At

LEMMA CallsStart == ASSUME GoesOn, Calling PROVE \E op : Begun(op)
<1> DEFINE Goal == \E op : Begun(op)
<1> SUFFICES Goal
  OBVIOUS
<1>0. 1 \in Nat \ {0} /\ NULL \in Int /\ 0 \in Nat /\ live \in Partial(Int, Nat)
  BY DEF NULL, GoesOn, Going, Alive
<1>1. ASSUME NEW bytes \in Requests, Malloc(bytes) PROVE Goal
  <2>1. Op("malloc", NULL, 1, bytes) \in Ops /\ Op("malloc", NULL, 1, bytes).kind = "malloc"
    BY <1>0, MallocAssumption DEF Op, Ops, Kinds
  <2> QED
    BY <1>1, <2>1, Beginning DEF Malloc, MayAsk
<1>2. ASSUME NEW bytes \in CallocRequests, Calloc(bytes) PROVE Goal
  <2>1. Op("calloc", NULL, 1, bytes) \in Ops /\ Op("calloc", NULL, 1, bytes).kind = "calloc"
    BY <1>0, MallocAssumption DEF Op, Ops, Kinds
  <2> QED
    BY <1>2, <2>1, Beginning DEF Calloc, MayAsk
<1>3. ASSUME NEW align \in Alignments, NEW bytes \in AlignedRequests, Memalign(align, bytes)
      PROVE  Goal
  <2>1. /\ Op("memalign", NULL, align, bytes) \in Ops
        /\ Op("memalign", NULL, align, bytes).kind = "memalign"
        /\ Op("memalign", NULL, align, bytes).align = align
    BY <1>0, MallocAssumption DEF Op, Ops, Kinds
  <2>2. align >= MINSIZE
    BY KernelAssumption
  <2> QED
    BY <1>3, <2>1, <2>2, Beginning DEF Memalign, MayAsk
<1>4. ASSUME NEW p \in DOMAIN live, Free(p) PROVE Goal
  <2>1. p \in Int
    BY <1>0, PartialType
  <2>2. /\ Op("free", p, 1, 0) \in Ops /\ Op("free", p, 1, 0).kind = "free"
        /\ Op("free", p, 1, 0).mem = p
    BY <1>0, <2>1 DEF Op, Ops, Kinds
  <2> QED
    BY <1>4, <2>2, Beginning DEF Free
<1>5. ASSUME NEW p \in DOMAIN live, NEW bytes \in ReallocRequests, Realloc(p, bytes)
      PROVE  Goal
  <2>1. p \in Int
    BY <1>0, PartialType
  <2>2. /\ Op("realloc", p, 1, bytes) \in Ops /\ Op("realloc", p, 1, bytes).kind = "realloc"
        /\ Op("realloc", p, 1, bytes).mem = p
    BY <1>0, <2>1, MallocAssumption DEF Op, Ops, Kinds
  <2> QED
    BY <1>5, <2>2, Beginning DEF Realloc
<1> HIDE DEF Goal
<1> QED
  BY <1>1, <1>2, <1>3, <1>4, <1>5 DEF Calling

LEMMA CallsOwn == ASSUME GoesOn, Calling PROVE Holding'
<1>1. PICK op : Begun(op)
  BY CallsStart
<1> QED
  BY <1>1, StartWithTcacheOwns DEF Begun, GoesOn

\* Between calls.
LEMMA BetweenOwns ==
  ASSUME GoesOn, At("idle"), UNCHANGED <<mmapped, maps, live, call>>, Owned(av', Held, Env)
  PROVE  Holding'
<1>1. PICK op : op = Op("malloc", NULL, 1, 0)
  OBVIOUS
<1>2. op \in Ops /\ op.kind = "malloc"
  <2>1. 1 \in Nat \ {0} /\ NULL \in Int /\ 0 \in Nat
    BY DEF NULL
  <2> QED
    BY <1>1, <2>1 DEF Op, Ops, Kinds
<1>3. CanStart(op)
  BY <1>2 DEF CanStart, GoesOn, At
<1>4. call' = Idle
  BY BetweenCalls DEF GoesOn, Going
<1> QED
  BY <1>3, <1>4, EndsInPlace

LEMMA MallocTrimOwns == ASSUME GoesOn, NEW pad \in TrimPads, MallocTrim(pad) PROVE Holding'
<1> DEFINE merged == malloc_consolidate(av)
<1>1. At("idle") /\ UNCHANGED <<mmapped, maps, live, call>>
      /\ (av' = systrim(merged, pad) \/ av' = merged)
  BY DEF MallocTrim
<1>2. av \in Fit /\ Owned(av, Held, Env) /\ ~av'.died /\ pad \in Nat
  BY MallocAssumption DEF GoesOn, Going, Alive, Holding
<1>3. merged \in Fit /\ (merged.died \/ Owned(merged, Held, Env))
  BY <1>2, ConsolidateOwned DEF Sound
<1> HIDE DEF merged
<1>4. Safe(merged, systrim(merged, pad))
  <2>1. pad \in Int
    BY <1>2
  <2> QED
    BY <1>3, <2>1, SystrimKeeps DEF Keeps
<1>5. ~merged.died
  BY <1>1, <1>2, <1>4 DEF Safe
<1>6. Owned(av', Held, Env)
  BY <1>1, <1>2, <1>3, <1>5, SystrimOwned
<1> QED
  BY <1>1, <1>6, BetweenOwns

LEMMA MalloptOwns == ASSUME GoesOn, NEW o \in Options, Mallopt(o) PROVE Holding'
<1>1. At("idle") /\ UNCHANGED <<mmapped, maps, live, call>> /\ av' = malloc_consolidate(av)
  BY DEF Mallopt
<1>2. av \in Fit /\ Owned(av, Held, Env) /\ ~av'.died
  BY DEF GoesOn, Going, Alive, Holding
<1>3. Owned(av', Held, Env)
  BY <1>1, <1>2, ConsolidateOwned DEF Sound
<1> QED
  BY <1>1, <1>3, BetweenOwns

LEMMA ForeignSbrkOwns == ASSUME GoesOn, NEW n \in ForeignSizes, ForeignSbrk(n) PROVE Holding'
<1>1. At("idle") /\ UNCHANGED <<mmapped, maps, live, call>>
      /\ Granted(n)
  BY DEF ForeignSbrk
<1>2. av \in Fit /\ Owned(av, Held, Env) /\ n \in Nat
  BY KernelAssumption DEF GoesOn, Going, Alive, Holding
<1>3. av' = [av EXCEPT !.brk = av.brk + n]
  BY <1>2 DEF ForeignSbrk, Fit, Arenas
<1>4. Grown(av, av')
  <2> DEFINE x == av.brk + n
  <2>1. av.brk \in Int /\ x \in Int /\ av.brk <= x /\ x <= BrkLimit
    BY <1>1, <1>2, FieldType DEF Granted
  <2>2. av' = [av EXCEPT !.brk = x]
    BY <1>3
  <2> HIDE DEF x
  <2> QED
    BY <1>2, <2>1, <2>2 DEF Grown, Fit, Arenas
<1>5. Owned(av', Held, Env)
  BY <1>2, <1>4, GrownOwned
<1> QED
  BY <1>1, <1>5, BetweenOwns

LEMMA NextOwns == ASSUME GoesOn, Next PROVE Holding'
<1>1. CASE FastbinServes \/ SmallbinServes \/ EntersLoop
  BY <1>1, FastbinServesOwns, SmallbinServesOwns, EntersLoopOwns
<1>2. CASE LastRemainderServes \/ ExactFitCached \/ ExactFitServes \/ UnfitGoesToBin
  BY <1>2, LastRemainderServesOwns, ExactFitCachedOwns, ExactFitServesOwns, UnfitGoesToBinOwns
<1>3. CASE CachedServes \/ LargeBinServes \/ BinServes \/ TopServes \/ ConsolidatesAgain
  BY <1>3, CachedServesOwns, LargeBinServesOwns, BinServesOwns, TopServesOwns,
     ConsolidatesAgainOwns
<1>4. CASE MapsRequest \/ MapIsRefused \/ SysmallocAborts \/ TopGrows \/ TopMoves
           \/ TopMovesApart \/ TopIsMapped \/ NoMemory
  BY <1>4, MapsRequestOwns, MapIsRefusedOwns, SysmallocAbortsOwns, TopGrowsOwns,
     TopMovesOwns, TopMovesApartOwns, TopIsMappedOwns, NoMemoryOwns
<1>5. CASE Delivers \/ Resumes \/ UnmapsOld
  BY <1>5, DeliversOwns, ResumesOwns, UnmapsOldOwns
<1>6. CASE \/ \E bytes \in Requests : Malloc(bytes)
           \/ \E bytes \in CallocRequests : Calloc(bytes)
           \/ \E align \in Alignments, bytes \in AlignedRequests : Memalign(align, bytes)
           \/ \E p \in DOMAIN live : Free(p)
           \/ \E p \in DOMAIN live, bytes \in ReallocRequests : Realloc(p, bytes)
  BY <1>6, CallsOwn DEF Calling
<1>7. CASE \/ \E pad \in TrimPads : MallocTrim(pad)
           \/ \E o \in Options : Mallopt(o)
           \/ \E n \in ForeignSizes : ForeignSbrk(n)
           \/ Dead
  <2>1. ~Dead
    BY DEF Dead, GoesOn, Going
  <2> QED
    BY <1>7, <2>1, MallocTrimOwns, MalloptOwns, ForeignSbrkOwns
<1> QED
  BY <1>1, <1>2, <1>3, <1>4, <1>5, <1>6, <1>7 DEF Next

LEMMA StartsOwned == Init => Holding
<1> SUFFICES ASSUME Init PROVE Holding
  OBVIOUS
<1>0. DOMAIN << >> = {}
  OBVIOUS
<1>1. PICK b \in InitialBreaks :
        av = [hdr |-> << >>, foot |-> << >>, top |-> NULL,
              bins |-> [i \in 1 .. NBINS - 1 |-> <<>>], skip |-> {}, binmap |-> {},
              fast |-> [i \in FastIdx |-> <<>>], have_fastchunks |-> FALSE,
              last_remainder |-> NULL, system_mem |-> 0, contiguous |-> TRUE,
              tcache |-> NULL, cached |-> [i \in CacheIdx |-> <<>>],
              brk |-> b, died |-> FALSE]
  BY DEF Init
<1>2. /\ av.hdr = << >> /\ av.top = NULL /\ av.tcache = NULL /\ av.brk = b
      /\ av.bins = [i \in 1 .. NBINS - 1 |-> <<>>] /\ av.fast = [i \in FastIdx |-> <<>>]
      /\ av.cached = [i \in CacheIdx |-> <<>>]
  BY <1>1
<1>3. call = Idle /\ maps = {} /\ DOMAIN live = {} /\ DOMAIN mmapped = {}
  BY <1>0 DEF Init
<1>4. \A l \in Places : Shelves(av)[l] = <<>>
  <2> TAKE l \in Places
  <2>1. ASSUME NEW i \in 1 .. NBINS - 1, l = <<"bin", i>> PROVE Shelves(av)[l] = <<>>
    <3>1. av.bins[i] = <<>>
      BY <1>2
    <3> QED
      BY <2>1, <3>1, ShelfOf
  <2>2. ASSUME NEW i \in FastIdx, l = <<"fast", i>> PROVE Shelves(av)[l] = <<>>
    <3>1. av.fast[i] = <<>>
      BY <1>2
    <3> QED
      BY <2>2, <3>1, ShelfOf
  <2>3. ASSUME NEW i \in CacheIdx, l = <<"cache", i>> PROVE Shelves(av)[l] = <<>>
    <3>1. av.cached[i] = <<>>
      BY <1>2
    <3> QED
      BY <2>3, <3>1, ShelfOf
  <2> QED
    BY <2>1, <2>2, <2>3, PlaceKinds
<1>5. On(av) = {} /\ Once(Shelves(av)) /\ AllSuit(av)
  <2>1. \A l \in Places : ToSet(Shelves(av)[l]) = {} /\ DOMAIN Shelves(av)[l] = {}
    BY <1>4 DEF ToSet
  <2>2. DOMAIN Shelves(av) = Places
    BY ShelfOf
  <2> QED
    BY <2>1, <2>2 DEF On, Members, Once, AllSuit
<1>6. Held = {} /\ Taking = {} /\ Tops(av) = {}
  BY <1>2, <1>3 DEF Held, Owners, Taking, Idle, Tops
<1>7. DOMAIN av.hdr = {}
  BY <1>0, <1>2
<1>8. Tiled(av) /\ Big(av) = {}
  BY <1>7, FS_EmptySet DEF Tiled, Big
<1>9. Backed(av, Env)
  <2>1. b \in 1 .. BrkLimit
    BY KernelAssumption
  <2>2. Env.pages = {} /\ Env.full = {}
    BY <1>3 DEF Env, ArenaPages
  <2> QED
    BY <1>2, <1>7, <2>1, <2>2 DEF Backed
<1>10. Owned(av, Held, Env)
  BY <1>5, <1>6, <1>8, <1>9, EnvIs DEF Owned, Stock, Env
<1>11. Blocks
  BY <1>3 DEF Blocks
<1>12. CallOwns
  BY <1>3, <1>6 DEF CallOwns, SearchOwns, FoundOwns, Idle
<1> QED
  BY <1>10, <1>11, <1>12 DEF Holding

\* The tcache, one list behind the other.
LEMMA CacheLists ==
  ASSUME NEW a \in Fit, NEW K, NEW e, Stock(a, K, e),
         NEW s, s = FlattenSeq([i \in 1 .. TCACHE_BINS |-> a.cached[i - 1]])
  PROVE  /\ s \in Seq(Int) /\ Distinct(s)
         /\ \A x : x \in ToSet(s) <=> \E i \in CacheIdx : x \in ToSet(a.cached[i])
<1> DEFINE n == TCACHE_BINS
           q == [k \in 1 .. n |-> a.cached[k - 1]]
<1>1. a.cached \in [CacheIdx -> Seq(Int)]
  BY DEF Fit, Arenas, Caches
<1>2. n \in Nat /\ CacheIdx = 0 .. n - 1
  BY ArenaAssumption DEF CacheIdx
<1>0. s = FlattenSeq(q)
  OBVIOUS
<1> HIDE DEF n
<1>3. q \in [1 .. n -> Seq(Int)] /\ \A k \in 1 .. n : q[k] = a.cached[k - 1] /\ k - 1 \in CacheIdx
  BY <1>1, <1>2
<1>4. DOMAIN q = 1 .. n
  OBVIOUS
<1>5. CASE n = 0
  <2>1. q = <<>>
    BY <1>5
  <2>2. s = <<>>
    BY <1>0, <2>1 DEF FlattenSeq
  <2>3. CacheIdx = {}
    BY <1>2, <1>5
  <2>4. s \in Seq(Int) /\ DOMAIN s = {} /\ ToSet(s) = {}
    <3>1. DOMAIN << >> = {} /\ << >> \in Seq(Int)
      BY EmptyInts
    <3>2. DOMAIN s = {}
      BY <2>2, <3>1
    <3> QED
      BY <2>2, <3>1, <3>2 DEF ToSet
  <2> QED
    BY <2>3, <2>4 DEF Distinct
<1> HIDE DEF q
<1>6. CASE n # 0
  <2>1. Once(q)
    <3> SUFFICES ASSUME NEW l \in 1 .. n, NEW m \in 1 .. n, NEW i \in DOMAIN q[l], NEW j \in DOMAIN q[m],
                        q[l][i] = q[m][j]
                 PROVE  l = m /\ i = j
      BY <1>4 DEF Once
    <3>1. /\ Shelves(a)[<<"cache", l - 1>>] = q[l] /\ Shelves(a)[<<"cache", m - 1>>] = q[m]
          /\ <<"cache", l - 1>> \in DOMAIN Shelves(a) /\ <<"cache", m - 1>> \in DOMAIN Shelves(a)
      BY <1>3, ShelfOf, PlaceKinds, ZenonT(40)
    <3>2. <<"cache", l - 1>> = <<"cache", m - 1>> /\ i = j
      BY <3>1 DEF Stock, Once
    <3>3. l - 1 = m - 1
      BY <3>2
    <3> QED
      BY <1>2, <3>2, <3>3
  <2>2. /\ s \in Seq(Int) /\ Distinct(s)
        /\ \A x : x \in ToSet(s) <=> \E i \in 1 .. n : x \in ToSet(q[i])
    <3>1. n \in Nat \ {0}
      BY <1>2, <1>6
    <3>2. q \in [1 .. n -> Seq(Int)]
      BY <1>3
    <3>3. /\ FlattenSeq(q) \in Seq(Int) /\ Distinct(FlattenSeq(q))
          /\ \A x : x \in ToSet(FlattenSeq(q)) <=> \E i \in 1 .. n : x \in ToSet(q[i])
      BY ONLY <2>1, <3>1, <3>2, Flattened
    <3> QED
      BY <1>0, <3>3, Zenon
  <2>3. ASSUME NEW x PROVE (\E i \in 1 .. n : x \in ToSet(q[i])) <=> \E i \in CacheIdx : x \in ToSet(a.cached[i])
    <3>1. ASSUME NEW i \in 1 .. n, x \in ToSet(q[i]) PROVE \E j \in CacheIdx : x \in ToSet(a.cached[j])
      BY <1>3, <3>1
    <3>2. ASSUME NEW i \in CacheIdx, x \in ToSet(a.cached[i]) PROVE \E k \in 1 .. n : x \in ToSet(q[k])
      <4>1. i + 1 \in 1 .. n /\ (i + 1) - 1 = i
        BY <1>2
      <4>2. q[i + 1] = a.cached[i]
        BY <1>3, <4>1
      <4> QED
        BY <3>2, <4>1, <4>2
    <3> QED
      BY <3>1, <3>2
  <2> QED
    BY <2>2, <2>3
<1> QED
  BY <1>5, <1>6

\* The bins, one behind the other.
LEMMA BinLists ==
  ASSUME NEW a \in Fit, NEW K, NEW e, Stock(a, K, e)
  PROVE  /\ FlattenSeq(a.bins) \in Seq(Int) /\ Distinct(FlattenSeq(a.bins))
         /\ \A x : x \in ToSet(FlattenSeq(a.bins)) <=> \E i \in 1 .. NBINS - 1 : x \in ToSet(a.bins[i])
<1> DEFINE n == NBINS - 1
           q == a.bins
<1>1. q \in [1 .. n -> Seq(Int)]
  BY DEF Fit, Arenas, Bins
<1>2. n \in Nat \ {0}
  <2>1. n = LAST_BIN /\ LAST_BIN \in Nat
    BY LadderAssumption DEF NBINS
  <2>2. Least \in Int /\ Least >= Least
    BY Sizes
  <2>3. 2 <= n
    BY <2>1, <2>2, BinOfSized
  <2> HIDE DEF n
  <2> QED
    BY <2>1, <2>3
<1>3. Once(q)
  <2> HIDE DEF n
  <2> SUFFICES ASSUME NEW l \in 1 .. n, NEW m \in 1 .. n, NEW i \in DOMAIN q[l], NEW j \in DOMAIN q[m],
                      q[l][i] = q[m][j]
               PROVE  l = m /\ i = j
    BY <1>1 DEF Once
  <2>1. /\ Shelves(a)[<<"bin", l>>] = q[l] /\ Shelves(a)[<<"bin", m>>] = q[m]
        /\ <<"bin", l>> \in DOMAIN Shelves(a) /\ <<"bin", m>> \in DOMAIN Shelves(a)
    BY ShelfOf, PlaceKinds DEF n
  <2>2. <<"bin", l>> = <<"bin", m>> /\ i = j
    BY <2>1 DEF Stock, Once
  <2> QED
    BY <2>2
<1> HIDE DEF n, q
<1>4. /\ FlattenSeq(q) \in Seq(Int) /\ Distinct(FlattenSeq(q))
      /\ \A x : x \in ToSet(FlattenSeq(q)) <=> \E i \in 1 .. n : x \in ToSet(q[i])
  BY <1>1, <1>2, <1>3, Flattened
<1> QED
  BY <1>4 DEF n, q

LEMMA OnWhich ==
  ASSUME NEW a
  PROVE  \A x : x \in On(a) <=> \/ \E i \in CacheIdx : x \in ToSet(a.cached[i])
                                \/ InFast(a, x)
                                \/ \E i \in 1 .. NBINS - 1 : x \in ToSet(a.bins[i])
<1> TAKE x
<1>1. x \in On(a) <=> \E l \in Places : x \in ToSet(Shelves(a)[l])
  BY ShelfOf DEF On, Members
<1>2. ASSUME NEW l \in Places, x \in ToSet(Shelves(a)[l])
      PROVE  \/ \E i \in CacheIdx : x \in ToSet(a.cached[i])
             \/ \E i \in FastIdx : x \in ToSet(a.fast[i])
             \/ \E i \in 1 .. NBINS - 1 : x \in ToSet(a.bins[i])
  <2>1. ASSUME NEW i \in 1 .. NBINS - 1, l = <<"bin", i>> PROVE x \in ToSet(a.bins[i])
    BY <1>2, <2>1, ShelfOf
  <2>2. ASSUME NEW i \in FastIdx, l = <<"fast", i>> PROVE x \in ToSet(a.fast[i])
    BY <1>2, <2>2, ShelfOf
  <2>3. ASSUME NEW i \in CacheIdx, l = <<"cache", i>> PROVE x \in ToSet(a.cached[i])
    BY <1>2, <2>3, ShelfOf
  <2> QED
    BY <2>1, <2>2, <2>3, PlaceKinds, Zenon
<1>3. ASSUME NEW i \in CacheIdx, x \in ToSet(a.cached[i]) PROVE x \in On(a)
  BY <1>1, <1>3, ShelfOf, PlaceKinds
<1>4. ASSUME NEW i \in FastIdx, x \in ToSet(a.fast[i]) PROVE x \in On(a)
  BY <1>1, <1>4, ShelfOf, PlaceKinds
<1>5. ASSUME NEW i \in 1 .. NBINS - 1, x \in ToSet(a.bins[i]) PROVE x \in On(a)
  BY <1>1, <1>5, ShelfOf, PlaceKinds
<1> QED
  BY <1>1, <1>2, <1>3, <1>4, <1>5, Zenon DEF InFast

\* A chunk is on one kind of list only.
LEMMA OneKind ==
  ASSUME NEW a \in Fit, NEW K, NEW e, Stock(a, K, e), NEW l \in Places, NEW m \in Places,
         NEW x, x \in ToSet(Shelves(a)[l]), x \in ToSet(Shelves(a)[m])
  PROVE  l = m
<1>1. PICK i \in DOMAIN Shelves(a)[l] : x = Shelves(a)[l][i]
  BY DEF ToSet
<1>2. PICK j \in DOMAIN Shelves(a)[m] : x = Shelves(a)[m][j]
  BY DEF ToSet
<1>3. l \in DOMAIN Shelves(a) /\ m \in DOMAIN Shelves(a)
  BY ShelfOf
<1> QED
  BY <1>1, <1>2, <1>3 DEF Stock, Once

LEMMA ListsAreOnce ==
  ASSUME av \in Fit, NEW K, NEW e, Stock(av, K, e)
  PROVE  Lists \in Seq(Int) /\ Distinct(Lists) /\ ToSet(Lists) = On(av)
<1>1. PICK s, t, u : /\ s = FlattenSeq([i \in 1 .. TCACHE_BINS |-> av.cached[i - 1]])
                     /\ t = FastChunks(av) /\ u = FlattenSeq(av.bins)
  OBVIOUS
<1>2. /\ s \in Seq(Int) /\ Distinct(s)
      /\ \A x : x \in ToSet(s) <=> \E i \in CacheIdx : x \in ToSet(av.cached[i])
  BY <1>1, CacheLists
<1>3. /\ t \in Seq(Int) /\ Distinct(t) /\ \A x : x \in ToSet(t) <=> InFast(av, x)
  BY <1>1, FastChunksOnce
<1>4. /\ u \in Seq(Int) /\ Distinct(u)
      /\ \A x : x \in ToSet(u) <=> \E i \in 1 .. NBINS - 1 : x \in ToSet(av.bins[i])
  BY <1>1, BinLists
<1>5. Lists = (s \o t) \o u
  BY <1>1 DEF Lists
<1>6. ASSUME NEW x \in ToSet(s) PROVE x \notin ToSet(t) /\ x \notin ToSet(u)
  <2>1. PICK i \in CacheIdx : x \in ToSet(Shelves(av)[<<"cache", i>>]) /\ <<"cache", i>> \in Places
    BY <1>2, <1>6, ShelfOf, PlaceKinds, ZenonT(40)
  <2>2. ASSUME x \in ToSet(t) PROVE FALSE
    <3>1. PICK j \in FastIdx : x \in ToSet(Shelves(av)[<<"fast", j>>]) /\ <<"fast", j>> \in Places
      BY <1>3, <2>2, ShelfOf, PlaceKinds, ZenonT(40) DEF InFast
    <3>2. <<"fast", j>> = <<"cache", i>>
      BY <2>1, <3>1, OneKind
    <3> QED
      BY <3>2
  <2>3. ASSUME x \in ToSet(u) PROVE FALSE
    <3>1. PICK j \in 1 .. NBINS - 1 : x \in ToSet(Shelves(av)[<<"bin", j>>]) /\ <<"bin", j>> \in Places
      BY <1>4, <2>3, ShelfOf, PlaceKinds
    <3>2. <<"bin", j>> = <<"cache", i>>
      BY <2>1, <3>1, OneKind
    <3> QED
      BY <3>2
  <2> QED
    BY <2>2, <2>3
<1>7. ASSUME NEW x \in ToSet(t) PROVE x \notin ToSet(u)
  <2>1. PICK i \in FastIdx : x \in ToSet(Shelves(av)[<<"fast", i>>]) /\ <<"fast", i>> \in Places
    BY <1>3, <1>7, ShelfOf, PlaceKinds, ZenonT(40) DEF InFast
  <2>2. ASSUME x \in ToSet(u) PROVE FALSE
    <3>1. PICK j \in 1 .. NBINS - 1 : x \in ToSet(Shelves(av)[<<"bin", j>>]) /\ <<"bin", j>> \in Places
      BY <1>4, <2>2, ShelfOf, PlaceKinds, ZenonT(40)
    <3>2. <<"bin", j>> = <<"fast", i>>
      BY <2>1, <3>1, OneKind
    <3> QED
      BY <3>2
  <2> QED
    BY <2>2
<1> DEFINE v == s \o t
<1>8. v \in Seq(Int) /\ Distinct(v) /\ \A x : x \in ToSet(v) <=> x \in ToSet(s) \/ x \in ToSet(t)
  BY <1>2, <1>3, <1>6, Joined
<1> HIDE DEF v
<1>9. \A x \in ToSet(v) : x \notin ToSet(u)
  BY <1>6, <1>7, <1>8
<1>10. /\ v \o u \in Seq(Int) /\ Distinct(v \o u)
       /\ \A x : x \in ToSet(v \o u) <=> x \in ToSet(v) \/ x \in ToSet(u)
  BY <1>4, <1>8, <1>9, Joined
<1>11. Lists = v \o u
  BY <1>5 DEF v
<1>12. \A x : x \in ToSet(Lists) <=> x \in On(av)
  BY <1>2, <1>3, <1>4, <1>8, <1>10, <1>11, OnWhich
<1> QED
  BY <1>10, <1>11, <1>12

LEMMA DistinctCount ==
  ASSUME NEW s \in Seq(Int), Distinct(s)
  PROVE  IsFiniteSet(ToSet(s)) /\ Cardinality(ToSet(s)) = Len(s)
<1> DEFINE n == Len(s)
           T == ToSet(s)
<1>1. n \in Nat /\ DOMAIN s = 1 .. n /\ s \in [1 .. n -> Int]
  OBVIOUS
<1>2. s \in Bijection(1 .. n, T)
  <2>1. T = {s[i] : i \in 1 .. n}
    BY <1>1 DEF ToSet
  <2>2. s \in [1 .. n -> T]
    BY <1>1, <2>1
  <2>3. \A i, j \in 1 .. n : s[i] = s[j] => i = j
    BY <1>1 DEF Distinct
  <2>4. \A y \in T : \E i \in 1 .. n : s[i] = y
    BY <2>1
  <2> HIDE DEF n, T
  <2> QED
    BY <2>2, <2>3, <2>4 DEF Bijection, Injection, Surjection, IsInjective
<1>3. IsFiniteSet(1 .. n) /\ Cardinality(1 .. n) = n
  BY <1>1, FS_Interval
<1>4. ExistsBijection(1 .. n, T)
  BY <1>2 DEF ExistsBijection
<1> HIDE DEF n, T
<1>5. IsFiniteSet(T) /\ Cardinality(T) = Cardinality(1 .. n)
  BY <1>3, <1>4, FS_Bijection
<1> QED
  BY <1>3, <1>5 DEF n, T

LEMMA TwoParts ==
  ASSUME NEW A, NEW B, IsFiniteSet(A), IsFiniteSet(B), A \cap B = {}
  PROVE  Cardinality(A \cup B) = Cardinality(A) + Cardinality(B)
<1>1. /\ Cardinality(A) \in Nat /\ Cardinality(B) \in Nat
  BY FS_CardinalityType
<1>2. Cardinality(A \cap B) = 0
  BY FS_EmptySet
<1> DEFINE x == Cardinality(A)
           y == Cardinality(B)
           z == Cardinality(A \cap B)
<1>3. Cardinality(A \cup B) = x + y - z
  BY FS_Union
<1>4. x \in Nat /\ y \in Nat /\ z = 0
  BY <1>1, <1>2
<1> HIDE DEF x, y, z
<1>5. Cardinality(A \cup B) = x + y
  BY <1>3, <1>4
<1> QED
  BY <1>5 DEF x, y

LEMMA FourParts ==
  ASSUME NEW C, IsFiniteSet(C), NEW A, NEW B, NEW D, NEW E, C = A \cup B \cup D \cup E,
         A \cap B = {}, (A \cup B) \cap D = {}, (A \cup B \cup D) \cap E = {}
  PROVE  Cardinality(C) = Cardinality(A) + Cardinality(B) + Cardinality(D) + Cardinality(E)
<1> DEFINE P == A \cup B
           Q == P \cup D
<1>1. /\ IsFiniteSet(A) /\ IsFiniteSet(B) /\ IsFiniteSet(D) /\ IsFiniteSet(E)
      /\ IsFiniteSet(P) /\ IsFiniteSet(Q)
  <2>1. \A X \in SUBSET C : IsFiniteSet(X)
    BY FS_Subset
  <2> QED
    BY <2>1
<1>2. /\ A \cap B = {} /\ P \cap D = {} /\ Q \cap E = {} /\ C = Q \cup E
  OBVIOUS
<1> HIDE DEF P, Q
<1>3. /\ Cardinality(A) \in Nat /\ Cardinality(B) \in Nat /\ Cardinality(D) \in Nat
      /\ Cardinality(E) \in Nat
  BY <1>1, FS_CardinalityType
<1>5. Cardinality(P) = Cardinality(A) + Cardinality(B)
  BY <1>1, <1>2, TwoParts DEF P
<1>6. Cardinality(Q) = Cardinality(P) + Cardinality(D)
  BY <1>1, <1>2, TwoParts DEF Q
<1>7. Cardinality(C) = Cardinality(Q) + Cardinality(E)
  BY <1>1, <1>2, TwoParts
<1> QED
  BY <1>3, <1>5, <1>6, <1>7

LEMMA HoldingOwnsOnce ==
  ASSUME Alive, Holding
  PROVE  OwnedOnce
<1>1. av \in Fit /\ Owned(av, Held, Env) /\ CallOwns
  BY DEF Alive, Holding
<1>2. Stock(av, Held \cup Tops(av), Env) /\ av.top \notin Held
  BY <1>1 DEF Owned
<1>3. Lists \in Seq(Int) /\ Distinct(Lists) /\ ToSet(Lists) = On(av)
  BY <1>1, <1>2, ListsAreOnce
<1>4. /\ Big(av) = Held \cup Tops(av) \cup On(av) /\ (Held \cup Tops(av)) \cap On(av) = {}
      /\ Held \cap Tops(av) = {} /\ IsFiniteSet(Chunks)
  BY <1>2 DEF Stock, Tops, Tiled, Chunks
<1>5. Chunks = Big(av) \cup Fences /\ Big(av) \cap Fences = {}
  <2>1. \A p \in Chunks : chunksize(av, p) \in Int
    BY <1>1, FitType
  <2>2. MINSIZE \in Int
    BY Sizes
  <2> QED
    BY <2>1, <2>2 DEF Chunks, Big, Fences
<1>6. Chunks = Held \cup Tops(av) \cup Fences \cup ToSet(Lists)
  BY <1>3, <1>4, <1>5
<1>7. Cardinality(Chunks) = Cardinality(Held) + Cardinality(Tops(av)) + Cardinality(Fences)
                              + Cardinality(ToSet(Lists))
  <2>1. /\ (Held \cup Tops(av)) \cap Fences = {}
        /\ (Held \cup Tops(av) \cup Fences) \cap ToSet(Lists) = {}
    BY <1>3, <1>4, <1>5
  <2> QED
    BY <1>4, <1>6, <2>1, FourParts
<1>8. Cardinality(ToSet(Lists)) = Len(Lists)
  BY <1>3, DistinctCount
<1>9. Taking \cap DOMAIN live = {} /\ av.tcache \notin DOMAIN live \cup Taking
  BY <1>1 DEF CallOwns, FoundOwns, Taking
<1>10. Held = {p \in DOMAIN live \cup Taking \cup ({av.tcache} \ {NULL}) : ~IsMmapped(p)}
  BY DEF Held, Owners
<1> QED
  BY <1>3, <1>6, <1>7, <1>8, <1>9, <1>10 DEF OwnedOnce, Taking, Tops, Distinct

LEMMA SameHolding ==
  ASSUME Holding, UNCHANGED vars
  PROVE  Holding'
<1>1. UNCHANGED <<av, mp, mmapped, maps, live, call>>
  BY DEF vars
<1>2. Held' = Held /\ Env' = Env /\ Blocks'
  <2>1. Blocks'
    BY <1>1, SameBlocks DEF Holding
  <2>2. Env' = Env
    BY <1>1, SamePages DEF Env
  <2>3. Held' = Held
    BY <1>1 DEF Held, Owners, Taking, IsMmapped
  <2> QED
    BY <2>1, <2>2, <2>3
<1>3. CallOwns'
  BY <1>1 DEF Holding, CallOwns, OpOwns, SearchOwns, FoundOwns, Owners, Taking, Yields, IsMmapped
<1>4. Owned(av, Held, Env)'
  BY <1>1, <1>2 DEF Holding
<1> QED
  BY <1>2, <1>3, <1>4 DEF Holding

\* An aborted process does nothing more.
LEMMA DeathLasts == ASSUME av.died, Next PROVE av'.died
<1>1. \A pc : ~At(pc)
  BY DEF At
<1>2. ~LoopDone /\ ~HasUnsorted
  BY <1>1 DEF LoopDone, HasUnsorted
<1>3. ~UsesTop /\ ~NeedsSystem /\ ~NeedsMore
  BY <1>2 DEF UsesTop, NeedsSystem, NeedsMore
<1>4. ~(FastbinServes \/ SmallbinServes \/ EntersLoop)
  BY <1>1 DEF FastbinServes, SmallbinServes, EntersLoop
<1>5. ~(LastRemainderServes \/ ExactFitCached \/ ExactFitServes \/ UnfitGoesToBin)
  BY <1>2 DEF LastRemainderServes, ExactFitCached, ExactFitServes, UnfitGoesToBin
<1>6. ~(CachedServes \/ LargeBinServes \/ BinServes \/ TopServes \/ ConsolidatesAgain)
  BY <1>2, <1>3 DEF CachedServes, LargeBinServes, BinServes, TopServes, ConsolidatesAgain
<1>7. ~(MapsRequest \/ MapIsRefused \/ SysmallocAborts \/ TopGrows \/ TopMoves
           \/ TopMovesApart \/ TopIsMapped \/ NoMemory)
  BY <1>3 DEF MapsRequest, MapIsRefused, SysmallocAborts, TopGrows, TopMoves, TopMovesApart,
              TopIsMapped, NoMemory
<1>8. ~(Delivers \/ Resumes \/ UnmapsOld)
  BY <1>1 DEF Delivers, Resumes, UnmapsOld
<1>9. ~ \/ \E bytes \in Requests : Malloc(bytes)
        \/ \E bytes \in CallocRequests : Calloc(bytes)
        \/ \E align \in Alignments, bytes \in AlignedRequests : Memalign(align, bytes)
        \/ \E p \in DOMAIN live : Free(p)
        \/ \E p \in DOMAIN live, bytes \in ReallocRequests : Realloc(p, bytes)
  BY <1>1 DEF Malloc, Calloc, Memalign, Free, Realloc, MayAsk
<1>10. ~ \/ \E pad \in TrimPads : MallocTrim(pad)
         \/ \E o \in Options : Mallopt(o)
         \/ \E n \in ForeignSizes : ForeignSbrk(n)
  BY <1>1 DEF MallocTrim, Mallopt, ForeignSbrk
<1>11. Dead
  BY <1>4, <1>5, <1>6, <1>7, <1>8, <1>9, <1>10 DEF Next
<1> QED
  BY <1>11 DEF Dead, vars

LEMMA OwnsStep == MInv /\ OInv /\ [Next]_vars => MInv' /\ OInv'
<1> SUFFICES ASSUME MInv, OInv, [Next]_vars PROVE MInv' /\ OInv'
  OBVIOUS
<1>1. CASE Next
  <2>1. MInv'
    BY <1>1, NextAdvances DEF Advances
  <2>2. CASE av.died
    <3>1. av'.died
      BY <1>1, <2>2, DeathLasts
    <3> QED
      BY <2>1, <3>1 DEF OInv
  <2>3. CASE av'.died
    BY <2>1, <2>3 DEF OInv
  <2>4. CASE ~av.died /\ ~av'.died
    <3>1. GoesOn
      BY <2>1, <2>4 DEF GoesOn, Going, MInv, OInv
    <3> QED
      BY <1>1, <2>1, <3>1, NextOwns DEF OInv
  <2> QED
    BY <2>2, <2>3, <2>4
<1>2. CASE UNCHANGED vars
  <2>1. MInv'
    <3>1. UNCHANGED <<av, mp, mmapped, live, call>>
      BY <1>2 DEF vars
    <3> QED
      BY <3>1 DEF MInv, Alive, CachedStays, CopyMapped, Params
  <2>2. OInv'
    <3>1. av' = av
      BY <1>2 DEF vars
    <3> QED
      BY <1>2, <3>1, SameHolding DEF OInv
  <2> QED
    BY <2>1, <2>2
<1> QED
  BY <1>1, <1>2

\* Every chunk has one owner: the client, a call, the tcache, a list, top, or it is
\* a fence (malloc-impl.c keeps them apart by where they are linked).
THEOREM NothingOwnedTwice == Spec => []OwnedOnce
<1>1. Init => MInv /\ OInv
  BY StartsAlive, StartsOwned DEF OInv
<1>2. MInv /\ OInv => OwnedOnce
  <2>1. av.died => OwnedOnce
    BY DEF OwnedOnce
  <2> QED
    BY <2>1, HoldingOwnsOnce DEF MInv, OInv
<1> QED
  BY <1>1, <1>2, OwnsStep, PTL DEF Spec

-----------------------------------------------------------------------------
(* How many mapped chunks there are, and how many pages they have *)

PagesIn(M, p) == PagesOf(p - M[p].prev_size, M[p].prev_size + M[p].sz)
AllPages(M) == UNION {PagesIn(M, p) : p \in DOMAIN M}

\* The mapped chunks M have whole pages, each its own.
Apart(M) ==
  /\ M \in Mappings
  /\ \A p \in DOMAIN M : /\ (p - M[p].prev_size) % PageSize = 0
                         /\ (M[p].prev_size + M[p].sz) % PageSize = 0
                         /\ M[p].prev_size + M[p].sz > 0
  /\ \A p, q \in DOMAIN M : p # q => PagesIn(M, p) \cap PagesIn(M, q) = {}

\* There are n of them, which have m words.
Tally(M, n, m) ==
  /\ IsFiniteSet(DOMAIN M) /\ n = Cardinality(DOMAIN M)
  /\ IsFiniteSet(AllPages(M)) /\ m = Cardinality(AllPages(M)) * PageSize

LEMMA PagesCount ==
  ASSUME NEW at \in Int, NEW size \in Int, size > 0, at % PageSize = 0, size % PageSize = 0
  PROVE  /\ IsFiniteSet(PagesOf(at, size))
         /\ Cardinality(PagesOf(at, size)) * PageSize = size
<1>1. PageSize \in Nat \ {0}
  BY Sizes
<1> DEFINE x == at \div PageSize
           k == size \div PageSize
           w == (at + size - 1) \div PageSize
<1>2. x \in Int /\ k \in Int /\ at = x * PageSize /\ size = k * PageSize
  BY <1>1
<1>3. k > 0
  <2> SUFFICES ASSUME k <= 0 PROVE FALSE
    BY <1>2
  <2>1. \A i \in Int, n \in Nat : i <= 0 => i * n <= 0
    OBVIOUS
  <2> HIDE DEF k
  <2> QED
    BY <1>1, <1>2, <2>1
<1>4. w = x + k - 1
  <2>1. at + size - 1 = (x + k - 1) * PageSize + (PageSize - 1)
    <3>1. \A i, j, n \in Int : i * n + j * n - 1 = (i + j - 1) * n + (n - 1)
      OBVIOUS
    <3> HIDE DEF x, k
    <3> QED
      BY <1>1, <1>2, <3>1
  <2>2. \A i \in Int, n \in Nat \ {0} : (i * n + (n - 1)) \div n = i
    OBVIOUS
  <2>3. x + k - 1 \in Int
    BY <1>2
  <2> HIDE DEF x, k
  <2> QED
    BY <1>1, <2>1, <2>2, <2>3
<1>5. PagesOf(at, size) = x .. w
  BY DEF PagesOf
<1> HIDE DEF x, k, w
<1>6. IsFiniteSet(x .. w) /\ Cardinality(x .. w) = k
  <2>1. w \in Int /\ ~(x > w) /\ w - x + 1 = k
    BY <1>2, <1>3, <1>4
  <2>2. IsFiniteSet(x .. w) /\ Cardinality(x .. w) = IF x > w THEN 0 ELSE w - x + 1
    BY ONLY <1>2, <2>1, FS_Interval
  <2> QED
    BY ONLY <2>1, <2>2
<1> QED
  BY <1>2, <1>5, <1>6

\* q comes to the chunks M with pages of its own.
LEMMA TallyWith ==
  ASSUME NEW M, NEW n \in Int, NEW m \in Int, Tally(M, n, m), NEW q, q \notin DOMAIN M,
         NEW r, Apart(With(M, q, r))
  PROVE  Tally(With(M, q, r), n + 1, m + (r.prev_size + r.sz))
<1> DEFINE X == With(M, q, r)
           N == PagesIn(X, q)
           size == r.prev_size + r.sz
<1>1. DOMAIN X = DOMAIN M \cup {q} /\ X[q] = r /\ \A p \in DOMAIN M : X[p] = M[p]
  BY DEF With
<1> HIDE DEF X
<1>2. X \in Mappings /\ Apart(X)
  BY DEF Apart, X
<1>3. q \in Int /\ r \in [sz : Int, prev_size : Int]
  BY <1>1, <1>2, PartialType DEF Mappings
<1>4. /\ size \in Int /\ size > 0 /\ (q - r.prev_size) % PageSize = 0 /\ size % PageSize = 0
      /\ N = PagesOf(q - r.prev_size, size) /\ q - r.prev_size \in Int
  BY <1>1, <1>2, <1>3 DEF Apart, PagesIn
<1>5. IsFiniteSet(N) /\ Cardinality(N) * PageSize = size
  <2> DEFINE at == q - r.prev_size
  <2> HIDE DEF at, size
  <2> QED
    BY <1>4, PagesCount DEF at
<1>6. \A p \in DOMAIN M : PagesIn(X, p) = PagesIn(M, p) /\ PagesIn(X, p) \cap N = {}
  BY <1>1, <1>2 DEF PagesIn, Apart
<1>7. AllPages(X) = AllPages(M) \cup N /\ AllPages(M) \cap N = {}
  BY <1>1, <1>6 DEF AllPages
<1>8. IsFiniteSet(DOMAIN M) /\ IsFiniteSet(AllPages(M)) /\ n = Cardinality(DOMAIN M)
      /\ m = Cardinality(AllPages(M)) * PageSize
  BY DEF Tally
<1> HIDE DEF N
<1>9. IsFiniteSet(DOMAIN X) /\ Cardinality(DOMAIN X) = n + 1
  BY <1>1, <1>8, FS_AddElement
<1>10. IsFiniteSet(AllPages(X)) /\ Cardinality(AllPages(X)) = Cardinality(AllPages(M)) + Cardinality(N)
  BY <1>5, <1>7, <1>8, TwoParts, FS_Union
<1>11. Cardinality(AllPages(X)) * PageSize = m + size
  <2>1. Cardinality(AllPages(M)) \in Nat /\ Cardinality(N) \in Nat /\ PageSize \in Nat
    BY <1>5, <1>8, FS_CardinalityType, Sizes
  <2>2. \A i, j, k \in Nat : (i + j) * k = i * k + j * k
    OBVIOUS
  <2> HIDE DEF size
  <2> QED
    BY <1>5, <1>8, <1>10, <2>1, <2>2
<1> QED
  BY <1>9, <1>10, <1>11 DEF Tally, X

LEMMA TallyWithout ==
  ASSUME NEW M, Apart(M), NEW n \in Int, NEW m \in Int, Tally(M, n, m), NEW q \in DOMAIN M
  PROVE  Tally(Without(M, {q}), n - 1, m - (M[q].prev_size + M[q].sz))
<1> DEFINE X == Without(M, {q})
           N == PagesIn(M, q)
           size == M[q].prev_size + M[q].sz
<1>1. DOMAIN X = DOMAIN M \ {q} /\ \A p \in DOMAIN X : X[p] = M[p]
  BY DEF Without
<1> HIDE DEF X
<1>3. q \in Int /\ M[q] \in [sz : Int, prev_size : Int]
  BY PartialType DEF Mappings, Apart
<1>4. /\ size \in Int /\ size > 0 /\ (q - M[q].prev_size) % PageSize = 0 /\ size % PageSize = 0
      /\ N = PagesOf(q - M[q].prev_size, size) /\ q - M[q].prev_size \in Int
  BY <1>3 DEF Apart, PagesIn
<1>5. IsFiniteSet(N) /\ Cardinality(N) * PageSize = size
  <2> DEFINE at == q - M[q].prev_size
  <2> HIDE DEF at, size
  <2> QED
    BY <1>4, PagesCount DEF at
<1>6. \A p \in DOMAIN X : PagesIn(X, p) = PagesIn(M, p) /\ PagesIn(X, p) \cap N = {}
  BY <1>1 DEF PagesIn, Apart
<1>7. AllPages(M) = AllPages(X) \cup N /\ AllPages(X) \cap N = {}
  BY <1>1, <1>6 DEF AllPages
<1>8. IsFiniteSet(DOMAIN M) /\ IsFiniteSet(AllPages(M)) /\ n = Cardinality(DOMAIN M)
      /\ m = Cardinality(AllPages(M)) * PageSize
  BY DEF Tally
<1> HIDE DEF N
<1>9. IsFiniteSet(DOMAIN X) /\ Cardinality(DOMAIN X) = n - 1
  BY <1>1, <1>8, FS_RemoveElement
<1>10. IsFiniteSet(AllPages(X)) /\ Cardinality(AllPages(M)) = Cardinality(AllPages(X)) + Cardinality(N)
  <2>1. IsFiniteSet(AllPages(X))
    BY <1>7, <1>8, FS_Subset
  <2> QED
    BY <1>5, <1>7, <2>1, TwoParts
<1>11. Cardinality(AllPages(X)) * PageSize = m - size
  <2>1. Cardinality(AllPages(X)) \in Nat /\ Cardinality(N) \in Nat /\ PageSize \in Nat
    BY <1>5, <1>10, FS_CardinalityType, Sizes
  <2>2. \A i, j, k \in Nat : (i + j) * k - j * k = i * k
    OBVIOUS
  <2> HIDE DEF size
  <2> QED
    BY <1>5, <1>8, <1>10, <2>1, <2>2
<1> QED
  BY <1>9, <1>10, <1>11 DEF Tally, X

LEMMA BlocksApart == ASSUME mmapped \in Mappings, Blocks PROVE Apart(mmapped)
<1>1. \A p \in DOMAIN mmapped : BlockPages(p) = PagesIn(mmapped, p)
  BY DEF BlockPages, BlockStart, BlockSize, PagesIn
<1>2. ASSUME NEW p \in DOMAIN mmapped
      PROVE  /\ (p - mmapped[p].prev_size) % PageSize = 0
             /\ (mmapped[p].prev_size + mmapped[p].sz) % PageSize = 0
             /\ mmapped[p].prev_size + mmapped[p].sz > 0
  <2>1. mmapped[p].sz \in Int /\ mmapped[p].prev_size \in Int
    BY MappedType
  <2>2. IsBlock(p)
    BY DEF Blocks
  <2> QED
    BY <2>1, <2>2 DEF IsBlock, BlockStart, BlockSize
<1>3. \A p, q \in DOMAIN mmapped : p # q => PagesIn(mmapped, p) \cap PagesIn(mmapped, q) = {}
  BY <1>1 DEF Blocks
<1> QED
  BY <1>2, <1>3 DEF Apart

LEMMA BlocksApartLater == ASSUME mmapped' \in Mappings, Blocks' PROVE Apart(mmapped')
<1>1. \A p \in DOMAIN mmapped' : BlockPages(p)' = PagesIn(mmapped', p)
  BY DEF BlockPages, BlockStart, BlockSize, PagesIn
<1>2. ASSUME NEW p \in DOMAIN mmapped'
      PROVE  /\ (p - mmapped'[p].prev_size) % PageSize = 0
             /\ (mmapped'[p].prev_size + mmapped'[p].sz) % PageSize = 0
             /\ mmapped'[p].prev_size + mmapped'[p].sz > 0
  <2>1. mmapped'[p].sz \in Int /\ mmapped'[p].prev_size \in Int
    <3>1. mmapped'[p] \in [sz : Int, prev_size : Int]
      BY PartialType DEF Mappings
    <3> QED
      BY <3>1
  <2>2. IsBlock(p)'
    BY DEF Blocks
  <2> QED
    BY <2>1, <2>2 DEF IsBlock, BlockStart, BlockSize
<1>3. \A p, q \in DOMAIN mmapped' : p # q => PagesIn(mmapped', p) \cap PagesIn(mmapped', q) = {}
  BY <1>1 DEF Blocks
<1> QED
  BY <1>2, <1>3 DEF Apart

\* The counters of mp_ tell how many chunks are mapped and how many words those have.
Counted == Tally(mmapped, mp.n_mmaps, mp.mmapped_mem)

\* A step that leaves the mapped chunks and the counters alone.
Steady == mmapped' = mmapped /\ mp'.n_mmaps = mp.n_mmaps /\ mp'.mmapped_mem = mp.mmapped_mem

LEMMA SteadyCounts == ASSUME Counted, Steady PROVE Counted'
  BY DEF Counted, Steady

LEMMA CountsAre ==
  ASSUME Alive, Holding, Counted
  PROVE  /\ mp \in Params /\ mp.n_mmaps \in Int /\ mp.mmapped_mem \in Int
         /\ mmapped \in Mappings /\ Apart(mmapped)
         /\ Tally(mmapped, mp.n_mmaps, mp.mmapped_mem)
  BY BlocksApart DEF Alive, Holding, Params, Counted

LEMMA UnmapCounts ==
  ASSUME Alive, Holding, Counted, NEW p \in DOMAIN mmapped, NEW g \in Params,
         g.n_mmaps = mp.n_mmaps, g.mmapped_mem = mp.mmapped_mem, munmap_chunk(p, g)
  PROVE  Counted'
<1>1. /\ mp.n_mmaps \in Int /\ mp.mmapped_mem \in Int /\ Apart(mmapped)
      /\ Tally(mmapped, mp.n_mmaps, mp.mmapped_mem)
  BY CountsAre
<1>2. BlockSize(p) = mmapped[p].prev_size + mmapped[p].sz
  BY DEF BlockSize
<1>3. /\ mmapped' = Without(mmapped, {p}) /\ mp'.n_mmaps = mp.n_mmaps - 1
      /\ mp'.mmapped_mem = mp.mmapped_mem - BlockSize(p)
  BY DEF munmap_chunk, Params
<1>4. Tally(Without(mmapped, {p}), mp.n_mmaps - 1, mp.mmapped_mem - (mmapped[p].prev_size + mmapped[p].sz))
  BY <1>1, TallyWithout
<1> QED
  BY <1>2, <1>3, <1>4 DEF Counted

\* A mapped chunk is replaced by another one, which may have another size.
LEMMA SwapCounts ==
  ASSUME Alive, Holding, Counted, mmapped' \in Mappings, Blocks', NEW p \in DOMAIN mmapped,
         NEW q, q \in DOMAIN mmapped => q = p, NEW r, mmapped' = With(Without(mmapped, {p}), q, r),
         mp'.n_mmaps = mp.n_mmaps,
         mp'.mmapped_mem = mp.mmapped_mem + (r.prev_size + r.sz) - BlockSize(p)
  PROVE  Counted'
<1>1. /\ mp.n_mmaps \in Int /\ mp.mmapped_mem \in Int /\ Apart(mmapped)
      /\ Tally(mmapped, mp.n_mmaps, mp.mmapped_mem)
  BY CountsAre
<1>2. PICK M, n, m : /\ M = Without(mmapped, {p}) /\ n = mp.n_mmaps - 1
                     /\ m = mp.mmapped_mem - (mmapped[p].prev_size + mmapped[p].sz)
  OBVIOUS
<1>3. Tally(M, n, m)
  BY <1>1, <1>2, TallyWithout
<1>4. n \in Int /\ m \in Int /\ r.prev_size \in Int /\ r.sz \in Int /\ BlockSize(p) \in Int
      /\ BlockSize(p) = mmapped[p].prev_size + mmapped[p].sz
  <2>1. BlockSize(p) \in Int /\ mmapped[p].prev_size \in Int /\ mmapped[p].sz \in Int
    BY MappedType DEF Alive
  <2>2. q \in DOMAIN mmapped' /\ mmapped'[q] = r
    BY DEF With
  <2>3. r \in [sz : Int, prev_size : Int]
    <3>1. PICK X : X = mmapped'
      OBVIOUS
    <3>2. X \in Partial(Int, [sz : Int, prev_size : Int]) /\ q \in DOMAIN X
      BY <2>2, <3>1 DEF Mappings
    <3>3. X[q] \in [sz : Int, prev_size : Int]
      BY <3>2, PartialType
    <3> QED
      BY <2>2, <3>1, <3>3
  <2> QED
    BY <1>1, <1>2, <2>1, <2>3 DEF BlockSize
<1>5. q \notin DOMAIN M
  BY <1>2 DEF Without
<1>6. Apart(With(M, q, r))
  BY <1>2, BlocksApartLater
<1>7. Tally(With(M, q, r), n + 1, m + (r.prev_size + r.sz))
  BY <1>3, <1>4, <1>5, <1>6, TallyWith
<1>8. n + 1 = mp'.n_mmaps /\ m + (r.prev_size + r.sz) = mp'.mmapped_mem
  BY <1>1, <1>2, <1>4
<1> QED
  BY <1>2, <1>7, <1>8 DEF Counted

LEMMA MapsRequestCounts == ASSUME GoesOn, Counted, Holding', MapsRequest PROVE Counted'
<1>0. PICK p, n : p = Place(MapSize) /\ n = MapSize
  OBVIOUS
<1>1. Alive /\ Holding /\ call \in Searches /\ call.nb \in Nat
  BY EndsIn DEF MapsRequest, NeedsSystem, UsesTop
<1>2. n \in Nat /\ n > 0
  BY <1>0, <1>1, MapSizeIs
<1> DEFINE r == [sz |-> n, prev_size |-> 0]
<1>3. /\ mmapped' = With(mmapped, p, r) /\ FreeMaps(n) # {}
      /\ mp' = [mp EXCEPT !.n_mmaps = @ + 1, !.mmapped_mem = @ + n]
  BY <1>0 DEF MapsRequest
<1>4. p \notin DOMAIN mmapped
  <2>1. p \in Int /\ p > BrkLimit /\ p \div PageSize \notin maps
    BY <1>0, <1>2, <1>3, PlaceIs
  <2> QED
    BY <1>1, <2>1, FreshPlace
<1>5. /\ mp.n_mmaps \in Int /\ mp.mmapped_mem \in Int /\ mp \in Params
      /\ Tally(mmapped, mp.n_mmaps, mp.mmapped_mem)
  BY <1>1, CountsAre
<1>6. Apart(With(mmapped, p, r))
  <2>1. mmapped' \in Mappings /\ Blocks'
    BY DEF GoesOn, Alive, Holding
  <2> QED
    BY <1>3, <2>1, BlocksApartLater
<1>7. r.prev_size + r.sz = n
  BY <1>2
<1> HIDE DEF r
<1>8. Tally(With(mmapped, p, r), mp.n_mmaps + 1, mp.mmapped_mem + (r.prev_size + r.sz))
  BY <1>4, <1>5, <1>6, TallyWith
<1>9. mp'.n_mmaps = mp.n_mmaps + 1 /\ mp'.mmapped_mem = mp.mmapped_mem + n
  BY <1>3, <1>5 DEF Params
<1> QED
  BY <1>3, <1>7, <1>8, <1>9 DEF Counted

LEMMA StartFreeCounts ==
  ASSUME NEW op, CanStart(op), op.kind = "free", StartFree(op), Counted
  PROVE  Counted'
<1>1. Alive /\ Holding /\ mp \in Params
  BY StartIs
<1>2. CASE IsMmapped(op.mem)
  <2> DEFINE p == op.mem
             g == IF /\ ~mp.no_dyn_threshold
                     /\ mmapped[p].sz >= mp.mmap_threshold
                     /\ mmapped[p].sz < DEFAULT_MMAP_THRESHOLD_MAX
                  THEN [mp EXCEPT !.mmap_threshold = mmapped[p].sz,
                                  !.trim_threshold = 2 * mmapped[p].sz]
                  ELSE mp
  <2>1. munmap_chunk(p, g)
    BY <1>2 DEF StartFree
  <2>2. mmapped[p].sz \in Int /\ p \in DOMAIN mmapped
    BY <1>1, <1>2, MappedType DEF Alive, IsMmapped
  <2>3. g \in Params /\ g.n_mmaps = mp.n_mmaps /\ g.mmapped_mem = mp.mmapped_mem
    <3>1. PICK x, h : x = mmapped[p].sz /\ h = [mp EXCEPT !.mmap_threshold = x, !.trim_threshold = 2 * x]
      OBVIOUS
    <3>2. x \in Int /\ 2 * x \in Int
      BY <2>2, <3>1
    <3>3. h \in Params /\ h.n_mmaps = mp.n_mmaps /\ h.mmapped_mem = mp.mmapped_mem
      BY <1>1, <3>1, <3>2 DEF Params
    <3>4. g = h \/ g = mp
      BY <3>1
    <3> HIDE DEF g
    <3> QED
      BY <1>1, <3>3, <3>4
  <2> HIDE DEF g, p
  <2> QED
    BY <1>1, <2>1, <2>2, <2>3, UnmapCounts
<1>3. CASE ~IsMmapped(op.mem)
  <2>1. UNCHANGED <<mp, mmapped>>
    BY <1>3 DEF StartFree
  <2> QED
    BY <2>1, SteadyCounts DEF Steady
<1> QED
  BY <1>2, <1>3

LEMMA UnmapsOldCounts == ASSUME GoesOn, UnmapsOld, Counted PROVE Counted'
<1>1. Alive /\ Holding /\ call.pc = "unmap" /\ mp \in Params
  BY DEF GoesOn, Going, UnmapsOld, At, Alive
<1>2. call.op.mem \in DOMAIN mmapped
  BY <1>1 DEF Holding, CallOwns, OpOwns
<1>3. munmap_chunk(call.op.mem, mp)
  BY DEF UnmapsOld
<1> QED
  BY <1>1, <1>2, <1>3, UnmapCounts

LEMMA MemalignCounts ==
  ASSUME GoesOn, At("got"), Counted, Holding', UNCHANGED mp, DeliverMemalign(call.op, call.p),
         call.op.kind = "memalign", ~call.init
  PROVE  Counted'
<1>1. Alive /\ Holding /\ mmapped \in Mappings /\ mmapped' \in Mappings /\ Blocks'
      /\ mp.mmapped_mem \in Int
  BY CountsAre DEF GoesOn, Going, Alive, Holding
<1>2. PICK p, newp : p = call.p /\ newp = AlignedIn(call.p, call.op.align)
  OBVIOUS
<1>3. CASE IsMmapped(p)
  <2> DEFINE r == [sz |-> mmapped[p].sz - (newp - p),
                   prev_size |-> mmapped[p].prev_size + (newp - p)]
  <2>1. mmapped' = With(Without(mmapped, {p}), newp, r)
    BY <1>2, <1>3 DEF DeliverMemalign
  <2>2. newp - p \in Int /\ (newp \in DOMAIN mmapped => newp = p) /\ p \in DOMAIN mmapped
    BY <1>2, <1>3, AlignedIsNew DEF IsMmapped
  <2>3. /\ r.prev_size = mmapped[p].prev_size + (newp - p) /\ r.sz = mmapped[p].sz - (newp - p)
        /\ BlockSize(p) = mmapped[p].prev_size + mmapped[p].sz
    BY DEF BlockSize
  <2> HIDE DEF r
  <2>4. mp.mmapped_mem = mp.mmapped_mem + (r.prev_size + r.sz) - BlockSize(p)
    <3>1. mmapped[p].sz \in Int /\ mmapped[p].prev_size \in Int
      BY <1>1, <2>2, MappedType
    <3> QED
      BY <1>1, <2>2, <2>3, <3>1
  <2> QED
    BY <1>1, <2>1, <2>2, <2>4, SwapCounts
<1>4. CASE ~IsMmapped(p)
  <2>1. UNCHANGED mmapped
    BY <1>2, <1>4 DEF DeliverMemalign
  <2> QED
    BY <2>1, SteadyCounts DEF Steady
<1> QED
  BY <1>3, <1>4

LEMMA ReallocMappedCounts ==
  ASSUME NEW op, CanStart(op), op.kind = "realloc", IsMmapped(op.mem), ReallocMapped(op),
         Counted, Alive', Holding'
  PROVE  Counted'
<1>1. PICK p, nb, f : p = op.mem /\ nb = request2size(op.bytes) /\ f = mmapped[op.mem].prev_size
  OBVIOUS
<1>2. PICK size : size = ALIGN_UP(nb + f + SIZE_SZ, PageSize)
  OBVIOUS
<1>3. PICK start, newp : start = MoveStart(p, size) /\ newp = start + f
  OBVIOUS
<1>4. PICK r : r = [mmapped[p] EXCEPT !.sz = size - f]
  OBVIOUS
<1>5. \/ UNCHANGED <<mp, mmapped>>
      \/ /\ MoveRoom(p, size) # {}
         /\ mmapped' = With(Without(mmapped, {p}), newp, r)
         /\ mp' = [mp EXCEPT !.mmapped_mem = @ + size - BlockSize(p)]
  BY <1>1, <1>2, <1>3, <1>4 DEF ReallocMapped, MoveRoom, MoveStart
<1>6. /\ Alive /\ Holding /\ Blocks /\ mmapped \in Mappings /\ p \in DOMAIN mmapped /\ mp \in Params
      /\ op \in Ops /\ mmapped' \in Mappings /\ Blocks' /\ mp.mmapped_mem \in Int
  BY <1>1, StartIs, CountsAre DEF Alive, Holding, IsMmapped
<1>7. CASE UNCHANGED <<mp, mmapped>>
  BY <1>7, SteadyCounts DEF Steady
<1>8. CASE /\ MoveRoom(p, size) # {}
           /\ mmapped' = With(Without(mmapped, {p}), newp, r)
           /\ mp' = [mp EXCEPT !.mmapped_mem = @ + size - BlockSize(p)]
  <2>1. f \in Nat /\ nb \in Nat /\ BlockSize(p) \in Int /\ mmapped[p] \in [sz : Int, prev_size : Int]
    <3>1. f \in Int /\ BlockSize(p) \in Int /\ mmapped[p] \in [sz : Int, prev_size : Int]
      BY <1>1, <1>6, MappedType
    <3> QED
      BY <1>1, <1>6, <3>1, RequestFits DEF Blocks, IsBlock, Ops
  <2>2. size \in Nat /\ size > f
    <3> DEFINE x == nb + f + SIZE_SZ
    <3>1. x \in Nat /\ x > f
      BY <2>1, Sizes
    <3> HIDE DEF x
    <3>2. ALIGN_UP(x, PageSize) \in Nat /\ ALIGN_UP(x, PageSize) >= x
      BY <3>1, AlignUp, Sizes
    <3> QED
      BY <1>2, <2>1, <3>1, <3>2 DEF x
  <2>3. newp \in DOMAIN mmapped => newp = p
    BY <1>1, <1>3, <1>6, <1>8, <2>2, MoveIsNew
  <2>4. r.prev_size = f /\ r.sz = size - f
    BY <1>1, <1>4, <2>1
  <2>5. mp'.n_mmaps = mp.n_mmaps /\ mp'.mmapped_mem = mp.mmapped_mem + size - BlockSize(p)
    BY <1>6, <1>8 DEF Params
  <2>6. mp.mmapped_mem + (r.prev_size + r.sz) - BlockSize(p) = mp.mmapped_mem + size - BlockSize(p)
    BY <1>6, <2>1, <2>2, <2>4
  <2> QED
    BY <1>6, <1>8, <2>3, <2>5, <2>6, SwapCounts
<1> QED
  BY <1>5, <1>7, <1>8

LEMMA StartCounts ==
  ASSUME NEW op, CanStart(op), Start(op), Counted, Alive', Holding'
  PROVE  Counted'
<1>1. op.kind \in Kinds
  BY DEF CanStart, Ops
<1>2. CASE op.kind \in {"malloc", "calloc", "copy", "memalign"}
  <2>1. UNCHANGED <<mp, mmapped>>
    BY <1>2 DEF Start, StartMalloc, StartSearch
  <2> QED
    BY <2>1, SteadyCounts DEF Steady
<1>3. CASE op.kind = "free"
  <2>1. StartFree(op)
    BY <1>3 DEF Start
  <2> QED
    BY <1>3, <2>1, StartFreeCounts
<1>4. CASE op.kind = "realloc" /\ IsMmapped(op.mem)
  <2>1. ReallocMapped(op)
    BY <1>4 DEF Start
  <2> QED
    BY <1>4, <2>1, ReallocMappedCounts
<1>5. CASE op.kind = "realloc" /\ ~IsMmapped(op.mem)
  <2>1. UNCHANGED <<mp, mmapped>>
    BY <1>5 DEF Start, ReallocInArena
  <2> QED
    BY <2>1, SteadyCounts DEF Steady
<1> QED
  BY <1>1, <1>2, <1>3, <1>4, <1>5 DEF Kinds

LEMMA BegunCounts ==
  ASSUME NEW op, Begun(op), Counted, Alive', Holding'
  PROVE  Counted'
<1>1. CASE av.tcache = NULL /\ WantsTcache(op)
  <2>1. UNCHANGED <<mp, mmapped>>
    BY <1>1 DEF Begun, StartWithTcache
  <2> QED
    BY <2>1, SteadyCounts DEF Steady
<1>2. CASE Start(op)
  BY <1>2, StartCounts DEF Begun
<1> QED
  BY <1>1, <1>2 DEF Begun, StartWithTcache

LEMMA DeliversCounts == ASSUME GoesOn, Delivers, Counted, Holding' PROVE Counted'
<1>1. At("got") /\ UNCHANGED mp
  BY DEF Delivers
<1>2. call.op \in Ops /\ (call.init \/ call.op.kind # "free")
  BY <1>1, GotIs DEF GoesOn
<1>3. CASE UNCHANGED mmapped
  BY <1>1, <1>3, SteadyCounts DEF Steady
<1>4. CASE call.init
  BY <1>3, <1>4 DEF Delivers
<1>5. CASE ~call.init
  <2>1. Deliver(call.op, call.p)
    BY <1>5 DEF Delivers
  <2>2. CASE call.op.kind \in {"malloc", "calloc"}
    BY <1>3, <2>1, <2>2 DEF Deliver, DeliverMalloc
  <2>3. CASE call.op.kind = "realloc"
    BY <1>3, <2>1, <2>3 DEF Deliver, DeliverRealloc
  <2>4. CASE call.op.kind = "copy"
    BY <1>3, <2>1, <2>4 DEF Deliver, DeliverCopy
  <2>5. CASE call.op.kind = "memalign"
    <3>1. DeliverMemalign(call.op, call.p)
      BY <2>1, <2>5 DEF Deliver
    <3> QED
      BY <1>1, <1>5, <2>5, <3>1, MemalignCounts
  <2> QED
    BY <1>2, <1>5, <2>2, <2>3, <2>4, <2>5 DEF Ops, Kinds
<1> QED
  BY <1>4, <1>5

\* mp_ may change, but not its counters.
LEMMA OthersSteady ==
  ASSUME mp \in Params, UNCHANGED mmapped,
         \/ UNCHANGED mp
         \/ \E b : mp' = FirstBreak(b)
         \/ \E o \in Options : Mallopt(o)
  PROVE  Steady
<1>1. CASE UNCHANGED mp
  BY <1>1 DEF Steady
<1>2. ASSUME NEW b, mp' = FirstBreak(b) PROVE Steady
  BY <1>2 DEF FirstBreak, Params, Steady
<1>3. ASSUME NEW o \in Options, Mallopt(o) PROVE Steady
  <2>1. o.param \notin {"n_mmaps", "mmapped_mem"}
    BY MallocAssumption
  <2>0. CASE ~Accepts(o)
    BY <1>3, <2>0 DEF Mallopt, Steady
  <2>2. CASE Accepts(o) /\ o.param = "max_fast"
    BY <1>3, <2>2 DEF Mallopt, Params, Steady
  <2>3. CASE Accepts(o) /\ o.param # "max_fast"
    <3>1. mp' = [mp EXCEPT ![o.param] = o.value, !.no_dyn_threshold = TRUE]
      BY <1>3, <2>3 DEF Mallopt
    <3>2. mp'.n_mmaps = mp.n_mmaps /\ mp'.mmapped_mem = mp.mmapped_mem
      BY <2>1, <3>1 DEF Params
    <3> QED
      BY <3>2 DEF Steady
  <2> QED
    BY <2>0, <2>2, <2>3
<1> QED
  BY <1>1, <1>2, <1>3

LEMMA NextCounts == ASSUME GoesOn, Next, Counted, Holding' PROVE Counted'
<1>0. mp \in Params /\ Alive' /\ ~av.died
  BY DEF GoesOn, Going, Alive
<1>1. CASE UNCHANGED <<mp, mmapped>>
  BY <1>1, SteadyCounts DEF Steady
<1>2. CASE FastbinServes \/ SmallbinServes \/ EntersLoop
  BY <1>1, <1>2 DEF FastbinServes, SmallbinServes, EntersLoop
<1>3. CASE LastRemainderServes \/ ExactFitCached \/ ExactFitServes \/ UnfitGoesToBin
  BY <1>1, <1>3 DEF LastRemainderServes, ExactFitCached, ExactFitServes, UnfitGoesToBin
<1>4. CASE CachedServes \/ LargeBinServes \/ BinServes \/ TopServes \/ ConsolidatesAgain
  BY <1>1, <1>4 DEF CachedServes, LargeBinServes, BinServes, TopServes, ConsolidatesAgain
<1>5. CASE MapsRequest
  BY <1>5, MapsRequestCounts
<1>6. CASE MapIsRefused \/ SysmallocAborts \/ TopGrows \/ NoMemory
  BY <1>1, <1>6 DEF MapIsRefused, SysmallocAborts, TopGrows, NoMemory
<1>7. CASE TopMoves \/ TopMovesApart \/ TopIsMapped
  <2>1. UNCHANGED mmapped /\ \E b : mp' = FirstBreak(b)
    BY <1>7 DEF TopMoves, TopMovesApart, TopIsMapped
  <2> QED
    BY <1>0, <2>1, OthersSteady, SteadyCounts
<1>8. CASE Delivers
  BY <1>8, DeliversCounts
<1>9. CASE Resumes
  <2>1. CanStart(call.op) /\ Start(call.op)
    BY <1>9, ResumesWith DEF Resumes
  <2> QED
    BY <1>0, <2>1, StartCounts
<1>10. CASE UnmapsOld
  BY <1>10, UnmapsOldCounts
<1>11. CASE Calling
  <2>1. PICK op : Begun(op)
    BY <1>11, CallsStart
  <2> QED
    BY <1>0, <2>1, BegunCounts
<1>12. CASE \/ \E pad \in TrimPads : MallocTrim(pad)
            \/ \E n \in ForeignSizes : ForeignSbrk(n)
  BY <1>1, <1>12 DEF MallocTrim, ForeignSbrk
<1>13. CASE \E o \in Options : Mallopt(o)
  <2>1. UNCHANGED mmapped
    BY <1>13 DEF Mallopt
  <2> QED
    BY <1>0, <1>13, <2>1, OthersSteady, SteadyCounts
<1>14. ~Dead
  BY <1>0 DEF Dead
<1> QED
  BY <1>2, <1>3, <1>4, <1>5, <1>6, <1>7, <1>8, <1>9, <1>10, <1>11, <1>12, <1>13, <1>14 DEF Next, Calling

LEMMA StartsCounted == Init => Counted
<1> SUFFICES ASSUME Init PROVE Counted
  OBVIOUS
<1>1. mmapped = << >> /\ mp.n_mmaps = 0 /\ mp.mmapped_mem = 0
  BY DEF Init
<1>2. DOMAIN mmapped = {} /\ AllPages(mmapped) = {}
  BY <1>1 DEF AllPages
<1>3. IsFiniteSet({}) /\ Cardinality({}) = 0
  BY FS_EmptySet
<1>4. 0 * PageSize = 0
  BY Sizes
<1> QED
  BY <1>1, <1>2, <1>3, <1>4 DEF Counted, Tally

\* The arena's pages are those in which its chunks lie.
LEMMA ArenaPagesAre ==
  ASSUME Alive, Holding
  PROVE  ArenaPages = (UNION {PagesOf(p, chunksize(av, p)) : p \in Chunks}) \cap MapPages
<1> DEFINE arena == (UNION {PagesOf(p, chunksize(av, p)) : p \in Chunks}) \cap MapPages
<1>1. /\ av \in Fit /\ Stock(av, Held \cup Tops(av), Env) /\ Backed(av, Env)
      /\ Blocks /\ Chunks = DOMAIN av.hdr
  BY DEF Alive, Holding, Owned, Stock, Chunks
<1> DEFINE In(k) == \E p \in Chunks : k \in PagesOf(p, chunksize(av, p))
<1>0. \A k : k \in arena <=> In(k) /\ k \in MapPages
  OBVIOUS
<1> HIDE DEF arena
<1>2. ASSUME NEW k \in ArenaPages PROVE k \in arena
  <2>1. Covered(av, k)
    BY <1>1, EnvIs DEF Backed
  <2>2. k \in MapPages
    BY <1>1 DEF ArenaPages, Blocks
  <2> QED
    BY <1>0, <1>1, <2>1, <2>2 DEF Covered
<1>3. ASSUME NEW p \in Chunks, NEW k \in PagesOf(p, chunksize(av, p)), k \in MapPages
      PROVE  k \in ArenaPages
  <2> DEFINE n == chunksize(av, p)
  <2>1. p \in Nat \ {0} /\ n \in Nat \ {0}
    BY <1>1, StockChunks
  <2>2. Within(av, p, n, Env)
    BY <1>1 DEF Backed
  <2>3. ~(p + n <= av.brk)
    <3> SUFFICES ASSUME p + n <= av.brk PROVE FALSE
      OBVIOUS
    <3>1. PICK e : e = [pages |-> MapPages, full |-> {k}]
      OBVIOUS
    <3>2. e.pages = MapPages /\ e.full = {k}
      BY <3>1
    <3>3. Backed(av, e)
      <4>1. Covered(av, k)
        BY <1>1 DEF Covered
      <4>2. \A q \in DOMAIN av.hdr : Within(av, q, chunksize(av, q), e)
        BY <1>1, <3>2 DEF Backed, Within
      <4> QED
        BY <1>1, <1>3, <3>2, <4>1, <4>2 DEF Backed
    <3>4. n \in Int /\ n > 0 /\ p \in Int /\ k \in PagesOf(p, n)
      BY <2>1
    <3> HIDE DEF n
    <3> QED
      BY <3>2, <3>3, <3>4, NoMapPage
  <2>4. PagesOf(p, n) \subseteq Env.pages
    BY <2>2, <2>3 DEF Within
  <2> QED
    BY <1>3, <2>4, EnvIs
<1>4. \A k : k \in ArenaPages <=> k \in arena
  BY <1>0, <1>2, <1>3
<1> QED
  BY <1>4 DEF arena

\* What is mapped is a mapped chunk's or the arena's, and it is counted.
LEMMA HoldingAccounts ==
  ASSUME Alive, Holding, Counted
  PROVE  MapsAccounted
<1>1. Blocks /\ Tally(mmapped, mp.n_mmaps, mp.mmapped_mem)
  BY DEF Holding, Counted
<1> DEFINE all == UNION {PagesOf(BlockStart(p), BlockSize(p)) : p \in DOMAIN mmapped}
<1>2. \A p \in DOMAIN mmapped : /\ PagesIn(mmapped, p) = PagesOf(BlockStart(p), BlockSize(p))
                               /\ BlockPages(p) = PagesOf(BlockStart(p), BlockSize(p))
  BY DEF PagesIn, BlockStart, BlockSize, BlockPages
<1>3. AllPages(mmapped) = all /\ ArenaPages = maps \ all /\ all \subseteq maps
  BY <1>1, <1>2 DEF AllPages, ArenaPages, Blocks, IsBlock
<1>4. all \cap ArenaPages = {} /\ maps = all \cup ArenaPages
  BY <1>3
<1>5. \A p, q \in DOMAIN mmapped : p # q =>
        PagesOf(BlockStart(p), BlockSize(p)) \cap PagesOf(BlockStart(q), BlockSize(q)) = {}
  BY <1>1, <1>2 DEF Blocks
<1>6. mp.n_mmaps = Cardinality(DOMAIN mmapped) /\ mp.mmapped_mem = Cardinality(all) * PageSize
  BY <1>1, <1>3 DEF Tally
<1> QED
  BY <1>4, <1>5, <1>6, ArenaPagesAre DEF MapsAccounted

CInv == av.died \/ Counted

LEMMA CountsStep == MInv /\ OInv /\ CInv /\ [Next]_vars => CInv'
<1> SUFFICES ASSUME MInv, OInv, CInv, [Next]_vars PROVE CInv'
  OBVIOUS
<1>1. CASE av'.died
  BY <1>1 DEF CInv
<1>2. CASE UNCHANGED vars
  BY <1>2, SteadyCounts DEF vars, CInv, Steady
<1>3. CASE Next /\ ~av'.died
  <2>1. ~av.died
    BY <1>3, DeathLasts
  <2>2. MInv' /\ OInv'
    BY <1>3, OwnsStep
  <2>3. GoesOn /\ Counted /\ Holding'
    BY <1>3, <2>1, <2>2 DEF GoesOn, Going, MInv, OInv, CInv
  <2> QED
    BY <1>3, <2>3, NextCounts DEF CInv
<1> QED
  BY <1>1, <1>2, <1>3

\* What mmap has handed out is exactly what the mapped chunks and the arena lie in,
\* each page in one of them, and n_mmaps and mmapped_mem of mp_ count the former.
THEOREM MappingsAccounted == Spec => []MapsAccounted
<1>1. Init => MInv /\ OInv /\ CInv
  BY StartsAlive, StartsOwned, StartsCounted DEF OInv, CInv
<1>2. MInv /\ OInv /\ CInv => MapsAccounted
  <2>1. av.died => MapsAccounted
    BY DEF MapsAccounted
  <2> QED
    BY <2>1, HoldingAccounts DEF MInv, OInv, CInv
<1> QED
  BY <1>1, <1>2, OwnsStep, CountsStep, PTL DEF Spec
=============================================================================
