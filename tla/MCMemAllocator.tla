--------------------------- MODULE MCMemAllocator ---------------------------
(***************************************************************************)
(* MemAllocator on small memories, and the properties that need to walk    *)
(* the list of blocks from its start.                                      *)
(***************************************************************************)
EXTENDS MemAllocator, FiniteSets

\* Where the code gets after following i next pointers from HEAP_START.
Walk ==
  LET at[i \in 0 .. Cardinality(DOMAIN hdr)] ==
        IF i = 0 THEN HEAP_START
        ELSE IF at[i - 1] \in DOMAIN hdr THEN hdr[at[i - 1]].next ELSE NULL
  IN  at

\* The list from HEAP_START reaches every block of the heap and ends: a block
\* that is off the list is never reused, merged or unmapped.
HeapListComplete ==
  pc \in {"idle", "find", "grow", "free"} /\ start # NULL /\ ~degraded
    => /\ DOMAIN hdr \subseteq {Walk[i] : i \in DOMAIN Walk}
       /\ Walk[Cardinality(DOMAIN hdr)] = NULL

\* The blocks the search has been past.
Passed ==
  CASE pc = "grow" -> DOMAIN hdr
    [] pc = "find" /\ ~grown ->
         {Walk[i] : i \in {j \in DOMAIN Walk :
                             \A k \in 0 .. j : Walk[k] \notin {NULL, block}}}
    [] OTHER -> {}

\* The search is first fit over coalesced blocks: it passes a block only if it
\* is taken, or free, not followed by a free neighbour and too small.  At
\* "grow" this holds of all blocks: the heap grows only when no run of free
\* neighbours could have held the query.
SearchPassesOnlyUnfit ==
  ~degraded =>
    \A b \in Passed :
      hdr[b].is_free => ~mergeable(hdr, b) /\ hdr[b].capacity < normalize_query(query)
=============================================================================
