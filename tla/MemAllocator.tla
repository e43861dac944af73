---------------------------- MODULE MemAllocator ----------------------------
(***************************************************************************)
(* The allocator of labs/assignment-4-memory-allocator/src/mem.c: a heap   *)
(* of regions obtained with mmap, cut into blocks whose headers form a     *)
(* linked list.  heap_init, heap_term, _malloc and _free are calls of one  *)
(* single-threaded client; every iteration of a loop of theirs is a step   *)
(* of its own, so that "the list is finite" is something to check.         *)
(*                                                                         *)
(* Memory is a range of byte addresses.  A block header is one record at   *)
(* the address of its block and stands for the HEADER bytes there, so the  *)
(* headers of the heap are a function hdr whose domain is the set of       *)
(* addresses where the code has written a header that is still in use.     *)
(* Contents are never looked at.  A dereference of an address outside      *)
(* DOMAIN hdr is undefined behaviour: the call goes "wild" and stays so.   *)
(***************************************************************************)
EXTENDS Integers

CONSTANTS
  HEADER,              \* offsetof(struct block_header, contents)
  BLOCK_MIN_CAPACITY,
  REGION_MIN_SIZE,
  HEAP_START,
  PAGE,                \* getpagesize()
  MemSize,             \* the end of the user's address space
  SIZE_MOD,            \* number of values of a size_t
  Queries,             \* sizes the client asks of _malloc
  InitSizes,           \* sizes the client asks of heap_init
  OtherPages           \* pages the rest of the process maps for itself

NULL == 0
Addr == 1 .. MemSize - 1

\* The layout constants: the values of the source satisfy these.
ASSUME LayoutAssumption ==
  /\ HEADER \in Nat \ {0}
  /\ BLOCK_MIN_CAPACITY \in Nat \ {0}
  /\ PAGE \in Nat \ {0}
  /\ REGION_MIN_SIZE \in Nat
  /\ REGION_MIN_SIZE % PAGE = 0
  /\ HEADER + BLOCK_MIN_CAPACITY <= REGION_MIN_SIZE

\* Addresses and sizes: a size_t is wider than the address space of a process
\* by more than a header and a minimal block, and holds a whole number of pages.
ASSUME SpaceAssumption ==
  /\ MemSize \in Nat
  /\ SIZE_MOD \in Nat
  /\ MemSize + HEADER + BLOCK_MIN_CAPACITY <= SIZE_MOD
  /\ SIZE_MOD % PAGE = 0
  /\ REGION_MIN_SIZE < SIZE_MOD
  /\ HEAP_START \in Addr
  /\ HEAP_START % PAGE = 0

\* What the client and the rest of the process do.
ASSUME ClientAssumption ==
  /\ Queries \subseteq 0 .. SIZE_MOD - 1
  /\ InitSizes \subseteq 0 .. SIZE_MOD - 1
  /\ OtherPages \subseteq Addr

VARIABLES
  hdr,          \* address of a block |-> its header
  heapMem,      \* bytes mapped by alloc_region and not unmapped
  otherMem,     \* bytes mapped by the rest of the process
  start,        \* what heap_init returned; NULL when no heap is in use
  live,         \* pointer the client holds |-> bytes it asked for
  degraded,     \* a region is out of reach: heap_init was given an address
                \* other than HEAP_START, or a munmap failed
  pc,           \* what the client's current call does next
  query,        \* _malloc: the bytes asked for
  block,        \* the block a loop is at
  grown,        \* _malloc: the heap has been grown for this query
  regionStart,  \* heap_term: region_start
  regionSize    \* heap_term: region_size

heapVars == <<hdr, heapMem, otherMem>>
clientVars == <<start, live, degraded>>
locals == <<query, block, grown, regionStart, regionSize>>
vars == <<heapVars, clientVars, pc, locals>>

-----------------------------------------------------------------------------
(* size_t arithmetic and sizes *)

Wrap(n) == n % SIZE_MOD

pages_count(mem) == (mem \div PAGE) + (IF mem % PAGE # 0 THEN 1 ELSE 0)

round_pages(mem) == Wrap(PAGE * pages_count(mem))

size_from_capacity(cap) == Wrap(cap + HEADER)
capacity_from_size(sz) == Wrap(sz - HEADER)

region_actual_size(q) ==
  IF round_pages(q) >= REGION_MIN_SIZE THEN round_pages(q) ELSE REGION_MIN_SIZE

normalize_query(q) == IF q < BLOCK_MIN_CAPACITY THEN BLOCK_MIN_CAPACITY ELSE q

\* Variant: the header is not counted in the length.
region_size_for_no_header(q) == region_actual_size(q)

\* The length alloc_region asks mmap for.
region_size_for(q) == region_actual_size(size_from_capacity(q))

-----------------------------------------------------------------------------
(* Blocks *)

Bytes(a, n) == a .. a + n - 1

block_size(b) == size_from_capacity(hdr[b].capacity)

\* Where block b ends when the headers are h.
block_end(h, b) == b + HEADER + h[b].capacity

block_after(b) == block_end(hdr, b)

\* Variant: block_init marks the block taken.
NewHeader_taken(sz, nxt) ==
  [next |-> nxt, capacity |-> capacity_from_size(sz), is_free |-> FALSE]

\* A header as block_init writes it for sz bytes, which include the header.
NewHeader(sz, nxt) ==
  [next |-> nxt, capacity |-> capacity_from_size(sz), is_free |-> TRUE]

\* block_get_header, and the contents pointer handed to the client.
block_get_header(p) == p - HEADER
contents(b) == b + HEADER

\* Variant: the state of the next block is not looked at.
mergeable_any(h, b) ==
  h[b].next # NULL /\ h[b].is_free /\ h[b].next = block_end(h, b)

\* try_merge_with_next succeeds.
mergeable(h, b) ==
  /\ h[b].next # NULL
  /\ h[b].is_free
  /\ h[h[b].next].is_free
  /\ h[b].next = block_end(h, b)

\* The headers after block b has swallowed the next one and links to nxt.
MergeInto(h, b, nxt) ==
  LET s == h[b].next
  IN  [a \in DOMAIN h \ {s} |->
         IF a = b
         THEN [h[b] EXCEPT !.capacity = Wrap(@ + size_from_capacity(h[s].capacity)),
                           !.next = nxt]
         ELSE h[a]]

\* Variant: the link of the swallowed block is not taken over.
Merge_keeps_next(h, b) == MergeInto(h, b, h[b].next)

Merge(h, b) == MergeInto(h, b, h[h[b].next].next)

block_splittable(b, q) ==
  hdr[b].is_free /\ Wrap(q + HEADER + BLOCK_MIN_CAPACITY) <= hdr[b].capacity

\* The headers after block b has been cut to capacity q and a block of sz bytes,
\* linked to nxt, has been made of its rest.
SplitInto(b, q, sz, nxt) ==
  LET new == contents(b) + q
  IN  [a \in DOMAIN hdr \union {new} |->
         CASE a = new -> NewHeader(sz, nxt)
           [] a = b   -> [hdr[b] EXCEPT !.next = new, !.capacity = q]
           [] OTHER   -> hdr[a]]

\* Variants: the new block is linked to nothing; its header is taken off twice.
Split_drops_tail(b, q) == SplitInto(b, q, hdr[b].capacity - q, NULL)
Split_shrinks(b, q) == SplitInto(b, q, hdr[b].capacity - q - HEADER, hdr[b].next)

\* split_if_too_big for a block that is splittable.
Split(b, q) == SplitInto(b, q, hdr[b].capacity - q, hdr[b].next)

\* Reading block b, or the successor its merge test looks at, is undefined.
Dangling(b) ==
  b \in DOMAIN hdr
    => hdr[b].is_free /\ hdr[b].next \notin DOMAIN hdr \union {NULL}

-----------------------------------------------------------------------------
(* The kernel's mmap and munmap *)

Available(a, n) ==
  /\ a + n <= MemSize
  /\ Bytes(a, n) \intersect (heapMem \union otherMem) = {}

\* Addresses alloc_region may get for n bytes: the wanted one if it is a free
\* page address (MAP_FIXED_NOREPLACE), else any the kernel picks.  Both calls
\* of mmap may also fail, which the callers treat as a case of their own.
Placements(wanted, n) ==
  IF wanted % PAGE = 0 /\ Available(wanted, n)
  THEN {wanted}
  ELSE {a \in Addr : a % PAGE = 0 /\ Available(a, n)}

\* The bytes munmap(a, n) takes away: n is rounded up to whole pages.
UnmapRange(a, n) == Bytes(a, PAGE * ((n + PAGE - 1) \div PAGE))

-----------------------------------------------------------------------------
Init ==
  /\ hdr = [a \in {} |-> NewHeader(HEADER, NULL)]
  /\ heapMem = {}
  /\ otherMem = {}
  /\ start = NULL
  /\ live = [p \in {} |-> 0]
  /\ degraded = FALSE
  /\ pc = "idle"
  /\ query = 0
  /\ block = NULL
  /\ grown = FALSE
  /\ regionStart = NULL
  /\ regionSize = 0

\* The call returns; its locals are gone.
Return ==
  /\ pc' = "idle"
  /\ query' = 0
  /\ block' = NULL
  /\ grown' = FALSE
  /\ regionStart' = NULL
  /\ regionSize' = 0

\* The call reads memory that is no block header.
Wild ==
  /\ pc' = "wild"
  /\ UNCHANGED <<heapVars, clientVars, locals>>

(* heap_init *)

\* The client starts a heap only when none is in use.  A region that cannot be
\* at HEAP_START is accepted wherever it is.  alloc_region writes its header.
HeapInit(q) ==
  /\ pc = "idle"
  /\ start = NULL
  /\ \E r \in Placements(HEAP_START, region_size_for(q)) :
       /\ hdr' = [a \in DOMAIN hdr \union {r} |->
                    IF a = r THEN NewHeader(region_size_for(q), NULL) ELSE hdr[a]]
       /\ heapMem' = heapMem \union Bytes(r, region_size_for(q))
       /\ start' = r
       /\ degraded' = (degraded \/ r # HEAP_START)
  /\ UNCHANGED <<otherMem, live, pc, locals>>

\* Both calls of mmap fail: heap_init returns NULL.
HeapInitFails ==
  /\ pc = "idle"
  /\ start = NULL
  /\ UNCHANGED vars

(* _malloc: find_good_or_last, grow_heap, find_good_or_last again *)

MallocCall(q) ==
  /\ pc = "idle"
  /\ start # NULL
  /\ pc' = "find"
  /\ query' = q
  /\ block' = HEAP_START
  /\ UNCHANGED <<heapVars, clientVars, grown, regionStart, regionSize>>

\* What the search does with a block it may read.
Searching == pc = "find" /\ ~Dangling(block)

SearchWild ==
  /\ pc = "find"
  /\ Dangling(block)
  /\ Wild

\* while (try_merge_with_next(block))
SearchMerge ==
  /\ Searching
  /\ mergeable(hdr, block)
  /\ hdr' = Merge(hdr, block)
  /\ UNCHANGED <<heapMem, otherMem, clientVars, pc, locals>>

\* Variant: the size of the block is compared, not its capacity.
Good_by_size(b) == hdr[b].is_free /\ block_size(b) >= normalize_query(query)

Good(b) == hdr[b].is_free /\ hdr[b].capacity >= normalize_query(query)

\* A good block: split it, take it, return its contents.
SearchTakes ==
  /\ Searching
  /\ ~mergeable(hdr, block)
  /\ Good(block)
  /\ LET q == normalize_query(query)
         h == IF block_splittable(block, q) THEN Split(block, q) ELSE hdr
     IN  hdr' = [h EXCEPT ![block].is_free = FALSE]
  /\ live' = [p \in DOMAIN live \union {contents(block)} |->
                IF p = contents(block) THEN query ELSE live[p]]
  /\ Return
  /\ UNCHANGED <<heapMem, otherMem, start, degraded>>

\* Variant: the block is judged before its free neighbours are merged.
SearchPasses_unmerged == Searching /\ ~Good(block)

SearchPasses == Searching /\ ~mergeable(hdr, block) /\ ~Good(block)

\* Variant: the loop does not move on.
SearchAdvances_stays == SearchPasses /\ hdr[block].next # NULL /\ UNCHANGED vars

SearchAdvances ==
  /\ SearchPasses
  /\ hdr[block].next # NULL
  /\ block' = hdr[block].next
  /\ UNCHANGED <<heapVars, clientVars, pc, query, grown, regionStart, regionSize>>

\* BSR_REACHED_END_NOT_FOUND the first time: block is the last one.
SearchExhausted ==
  /\ SearchPasses
  /\ hdr[block].next = NULL
  /\ ~grown
  /\ pc' = "grow"
  /\ UNCHANGED <<heapVars, clientVars, locals>>

\* The second time memalloc returns NULL.
SearchGivesUp ==
  /\ SearchPasses
  /\ hdr[block].next = NULL
  /\ grown
  /\ Return
  /\ UNCHANGED <<heapVars, clientVars>>

\* The headers after a region of n bytes at r has been linked behind block b.
Linked(b, r, n) ==
  [a \in DOMAIN hdr \union {r} |->
     CASE a = r -> NewHeader(n, NULL)
       [] a = b -> [hdr[b] EXCEPT !.next = r]
       [] OTHER -> hdr[a]]

\* grow_heap: a region behind the last block, merged into it when both are free
\* and it is contiguous; the second search starts at the block that holds it.
GrowHeap ==
  /\ pc = "grow"
  /\ LET n == region_size_for(normalize_query(query))
     IN  \E r \in Placements(block_after(block), n) :
           /\ heapMem' = heapMem \union Bytes(r, n)
           /\ IF mergeable(Linked(block, r, n), block)
              THEN /\ hdr' = Merge(Linked(block, r, n), block)
                   /\ block' = block
              ELSE /\ hdr' = Linked(block, r, n)
                   /\ block' = r
  /\ grown' = TRUE
  /\ pc' = "find"
  /\ UNCHANGED <<otherMem, clientVars, query, regionStart, regionSize>>

\* Both calls of mmap fail: _malloc returns NULL.
GrowFails ==
  /\ pc = "grow"
  /\ Return
  /\ UNCHANGED <<heapVars, clientVars>>

(* _free *)

\* The client frees a pointer it holds; _free(NULL) returns at once.
FreeCall(p) ==
  /\ pc = "idle"
  /\ p \in DOMAIN live
  /\ live' = [r \in DOMAIN live \ {p} |-> live[r]]
  /\ hdr' = [hdr EXCEPT ![block_get_header(p)].is_free = TRUE]
  /\ block' = block_get_header(p)
  /\ pc' = "free"
  /\ UNCHANGED <<heapMem, otherMem, start, degraded, query, grown,
                 regionStart, regionSize>>

\* The loop never meets a dangling link (FreeReadsHeaders), so it has no step
\* that goes wild.
FreeMerge ==
  /\ pc = "free"
  /\ ~Dangling(block)
  /\ mergeable(hdr, block)
  /\ hdr' = Merge(hdr, block)
  /\ UNCHANGED <<heapMem, otherMem, clientVars, pc, locals>>

FreeReturns ==
  /\ pc = "free"
  /\ ~Dangling(block)
  /\ ~mergeable(hdr, block)
  /\ Return
  /\ UNCHANGED <<heapVars, clientVars>>

(* heap_term *)

\* The client ends the heap it started; its pointers die.
TermCall ==
  /\ pc = "idle"
  /\ start # NULL
  /\ start' = NULL
  /\ live' = [p \in {} |-> 0]
  /\ block' = HEAP_START
  /\ pc' = "term"
  /\ UNCHANGED <<heapVars, degraded, query, grown, regionStart, regionSize>>

TermWild ==
  /\ \/ pc = "term" /\ block # NULL /\ block \notin DOMAIN hdr
     \/ pc = "span" /\ hdr[block].next \notin DOMAIN hdr
                     /\ hdr[block].next = block_after(block)
  /\ Wild

TermEnters ==
  /\ pc = "term"
  /\ block \in DOMAIN hdr
  /\ regionStart' = block
  /\ regionSize' = block_size(block)
  /\ pc' = "span"
  /\ UNCHANGED <<heapVars, clientVars, query, block, grown>>

\* The next block follows at once: one munmap covers both.
SpanExtendsBy(n) ==
  /\ pc = "span"
  /\ hdr[block].next \in DOMAIN hdr
  /\ hdr[block].next = block_after(block)
  /\ block' = hdr[block].next
  /\ regionSize' = Wrap(regionSize + n)
  /\ UNCHANGED <<heapVars, clientVars, pc, query, grown, regionStart>>

\* Variant: the size of the next block is not added.
SpanExtends_unmeasured == SpanExtendsBy(0)

SpanExtends == SpanExtendsBy(block_size(hdr[block].next))

\* The span ends here and the walk goes on at next, read before the munmap.
SpanEndsTo(next) ==
  /\ pc = "span"
  /\ hdr[block].next # block_after(block)
  /\ block' = next
  /\ pc' = "term"
  /\ regionStart' = NULL
  /\ regionSize' = 0
  /\ UNCHANGED <<start, live, query, grown>>

\* Variant: only the first span is visited.
SpanEnds_last == SpanEndsTo(NULL)

SpanEnds == SpanEndsTo(hdr[block].next)

SpanUnmaps ==
  /\ SpanEnds
  /\ regionStart % PAGE = 0
  /\ LET gone == UnmapRange(regionStart, regionSize)
     IN  /\ hdr' = [a \in DOMAIN hdr \ gone |-> hdr[a]]
         /\ heapMem' = heapMem \ gone
         /\ otherMem' = otherMem \ gone
  /\ UNCHANGED degraded

\* munmap fails: a message on stderr and on to the next region.
SpanStaysMapped ==
  /\ SpanEnds
  /\ degraded' = TRUE
  /\ UNCHANGED heapVars

TermReturns ==
  /\ pc = "term"
  /\ block = NULL
  /\ Return
  /\ UNCHANGED <<heapVars, clientVars>>

(* Between calls the rest of the process maps and unmaps pages of its own,   *)
(* as the guard range of main.c does.                                        *)

OtherMaps(a) ==
  /\ pc = "idle"
  /\ Available(a, PAGE)
  /\ otherMem' = otherMem \union Bytes(a, PAGE)
  /\ UNCHANGED <<hdr, heapMem, clientVars, pc, locals>>

OtherUnmaps(a) ==
  /\ pc = "idle"
  /\ Bytes(a, PAGE) \subseteq otherMem
  /\ otherMem' = otherMem \ Bytes(a, PAGE)
  /\ UNCHANGED <<hdr, heapMem, clientVars, pc, locals>>

\* After undefined behaviour nothing is said of the program.
Undefined == pc = "wild" /\ UNCHANGED vars

-----------------------------------------------------------------------------
\* The steps the allocator takes by itself once it has been called.
Step ==
  \/ SearchWild \/ SearchMerge \/ SearchTakes \/ SearchAdvances
  \/ SearchExhausted \/ SearchGivesUp \/ GrowHeap \/ GrowFails
  \/ FreeMerge \/ FreeReturns
  \/ TermWild \/ TermEnters \/ SpanExtends \/ SpanUnmaps \/ SpanStaysMapped
  \/ TermReturns

\* The calls of the client.
Call ==
  \/ \E q \in InitSizes : HeapInit(q)
  \/ HeapInitFails
  \/ \E q \in Queries : MallocCall(q)
  \/ \E p \in DOMAIN live : FreeCall(p)
  \/ TermCall

Other == \E a \in OtherPages : OtherMaps(a) \/ OtherUnmaps(a)

Next == Step \/ Call \/ Other \/ Undefined

Spec == Init /\ [][Next]_vars

\* A call that has begun keeps running: the client waits for it.
FairSpec == Spec /\ WF_vars(Step)
-----------------------------------------------------------------------------
(* What must hold *)

Header == [next : Addr \union {NULL}, capacity : 0 .. SIZE_MOD - 1, is_free : BOOLEAN]

TypeOK ==
  /\ DOMAIN hdr \subseteq Addr
  /\ hdr \in [DOMAIN hdr -> Header]
  /\ heapMem \subseteq Addr
  /\ otherMem \subseteq Addr
  /\ start \in Addr \union {NULL}
  /\ DOMAIN live \subseteq Addr
  /\ live \in [DOMAIN live -> Queries]
  /\ degraded \in BOOLEAN
  /\ pc \in {"idle", "find", "grow", "free", "term", "span", "wild"}
  /\ query \in 0 .. SIZE_MOD - 1
  /\ block \in Addr \union {NULL}
  /\ grown \in BOOLEAN
  /\ regionStart \in Addr \union {NULL}
  /\ regionSize \in 0 .. SIZE_MOD - 1

\* Blocks never overlap, and with their headers they are exactly the mapped
\* memory of the heap: no split, merge, growth or munmap loses or doubles a
\* byte, and no page of another owner is part of a block.
BlocksTileHeap ==
  /\ \A a, b \in DOMAIN hdr : a < b => block_after(a) <= b
  /\ \A x \in Addr : x \in heapMem
                      <=> \E b \in DOMAIN hdr : b <= x /\ x < block_after(b)
  /\ heapMem \intersect otherMem = {}

\* A pointer the client holds is the contents of a block that is marked taken
\* and has room for what was asked, whatever was split, merged or freed around
\* it since; no block is below the minimum the README asks for.
LivePointersBacked ==
  /\ \A p \in DOMAIN live :
        /\ block_get_header(p) \in DOMAIN hdr
        /\ ~hdr[block_get_header(p)].is_free
        /\ hdr[block_get_header(p)].capacity >= live[p]
  /\ \A b \in DOMAIN hdr : hdr[b].capacity >= BLOCK_MIN_CAPACITY

\* No memory is lost: a block marked taken is one the client can still free.
NoLostBlock ==
  pc \in {"idle", "find", "grow", "free"} /\ ~degraded
    => \A b \in DOMAIN hdr : ~hdr[b].is_free => contents(b) \in DOMAIN live

\* The size mmap is asked for still fits a size_t after rounding.
NoWrap(q) == normalize_query(q) + HEADER + PAGE <= SIZE_MOD

\* The search that follows growing the heap finds the query satisfied at the
\* first block it looks at, so that memalloc never maps memory in vain.
GrowthSuffices ==
  pc = "find" /\ grown /\ NoWrap(query) => block \in DOMAIN hdr /\ Good(block)

\* The allocator reads only headers, as long as heap_init got HEAP_START and
\* every munmap succeeded: no merge, split or munmap leaves a pointer to a
\* block that is gone.
WildOnlyWhenDegraded == pc = "wild" => degraded

\* _free reads only headers, even in a heap that holds links to a region that
\* is gone: whatever _malloc handed out, its search had first followed the link
\* of, and so had that of every free neighbour the merges of _free can swallow.
FreeReadsHeaders == pc = "free" => ~Dangling(block)

\* A heap that has ended leaves nothing mapped.
TermReleasesAll == pc = "idle" /\ start = NULL /\ ~degraded => heapMem = {}

\* munmap is only ever given whole pages of the heap: the span heap_term has
\* measured is made of regions, not of a part of one or of foreign pages.
UnmapsWholePages ==
  [][SpanEnds => /\ regionStart % PAGE = 0
                 /\ regionSize % PAGE = 0
                 /\ Bytes(regionStart, regionSize) \subseteq heapMem]_vars

\* What heap_init returned without failing is a heap the client can use.
SuccessfulInitIsUsable == start # NULL => pc # "wild"

\* Every call returns, or has gone astray.
CallsReturn == pc # "idle" ~> pc \in {"idle", "wild"}

-----------------------------------------------------------------------------
(* The invariant the proofs in MemAllocatorProofs go by induction on *)

\* A block ends where the next one of the list begins, or else both places are
\* page boundaries: they are the edges of regions.
RegionEdges ==
  \A b \in DOMAIN hdr : hdr[b].next # block_after(b)
                         => block_after(b) % PAGE = 0 /\ hdr[b].next % PAGE = 0

\* What a call in progress relies on between two of its steps.
CallState ==
  /\ pc = "idle" => ~grown
  /\ pc \in {"find", "grow"} => query \in Queries
  /\ pc \in {"grow", "free", "span"} => block \in DOMAIN hdr
  /\ pc = "grow" => hdr[block].next = NULL
  /\ pc \in {"term", "span"} => live = [p \in {} |-> 0]
  /\ pc = "term" => block % PAGE = 0
  /\ pc = "span" => /\ regionStart \in DOMAIN hdr
                    /\ regionStart % PAGE = 0
                    /\ regionStart <= block
                    /\ regionStart + regionSize = block_after(block)
                    /\ Bytes(regionStart, regionSize) \subseteq heapMem

\* The heap is well formed at every step of every call.
IInv ==
  /\ TypeOK
  /\ BlocksTileHeap
  /\ \A b \in DOMAIN hdr : block_after(b) <= MemSize
  /\ LivePointersBacked
  /\ GrowthSuffices
  /\ RegionEdges
  /\ CallState

\* Links lead to blocks, no two to the same one, none to the first block.
Links(h) ==
  \A b \in DOMAIN h :
    /\ h[b].next \in DOMAIN h \union {NULL}
    /\ h[b].next # HEAP_START
    /\ \A a \in DOMAIN h : h[a].next = h[b].next /\ h[a].next # NULL => a = b

\* While nothing has degraded the heap, following links from where a call starts
\* leads to blocks only.  heap_term depends on more: the first block of what is
\* left has no predecessor left, and a span is a chain from its first block, so
\* that unmapping it takes away no block another one links to.
LinkInv ==
  ~degraded =>
    /\ pc # "wild"
    /\ Links(hdr)
    /\ start # NULL => HEAP_START \in DOMAIN hdr
    /\ start = NULL => live = [p \in {} |-> 0]
    /\ pc \in {"find", "grow", "free"} => start # NULL
    /\ pc \in {"term", "span"} => start = NULL
    /\ pc = "find" => block \in DOMAIN hdr
    /\ pc = "term" => /\ block \in DOMAIN hdr \union {NULL}
                      /\ \A a \in DOMAIN hdr : hdr[a].next = block => block = NULL
    /\ pc = "span" =>
         \A b \in DOMAIN hdr :
           /\ hdr[b].next # regionStart
           /\ regionStart < b /\ b <= block
                => \E a \in DOMAIN hdr : regionStart <= a /\ a < b /\ hdr[a].next = b

-----------------------------------------------------------------------------
\* The promise to the client and to the rest of the process.
Heap == INSTANCE HeapSpec
          WITH mem <- heapMem, others <- otherMem, Sizes <- Queries

HeapPromise == Heap!Spec
=============================================================================
