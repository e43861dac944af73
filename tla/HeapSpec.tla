------------------------------ MODULE HeapSpec ------------------------------
(***************************************************************************)
(* What the allocator of labs/assignment-4-memory-allocator promises to    *)
(* its client and to the rest of the process, with no blocks, headers or   *)
(* lists: it owns a set of bytes obtained from the kernel, it lends        *)
(* disjoint intervals of those bytes, and it never changes a page that is  *)
(* not its own.  MemAllocator implements this specification.               *)
(***************************************************************************)
EXTENDS Naturals

CONSTANTS Addr,         \* every address a byte of the process can have
          Sizes         \* every size a client may request

VARIABLES mem,          \* bytes the allocator has mapped and not unmapped
          others,       \* bytes mapped by the rest of the process
          live          \* pointer lent to the client |-> bytes requested

vars == <<mem, others, live>>

\* The n bytes from address a.
Bytes(a, n) == {x \in Addr : a <= x /\ x < a + n}

TypeOK == /\ mem \subseteq Addr
          /\ others \subseteq Addr
          /\ live \in [DOMAIN live -> Sizes]

-----------------------------------------------------------------------------
Init == /\ mem = {}
        /\ others = {}
        /\ live = [p \in {} |-> 0]

\* The kernel gives the allocator bytes nobody has mapped.
Grow == /\ mem \subseteq mem'
        /\ mem' \subseteq Addr \ others
        /\ UNCHANGED <<others, live>>

\* A request for n bytes is answered with an interval of owned bytes that no
\* live pointer covers; the pointer itself is new even when n is 0.
Allocate(p, n) ==
  /\ p \notin DOMAIN live
  /\ live' = [r \in DOMAIN live \union {p} |-> IF r = p THEN n ELSE live[r]]
  /\ Bytes(p, n) \subseteq mem
  /\ \A r \in DOMAIN live : Bytes(p, n) \intersect Bytes(r, live[r]) = {}
  /\ UNCHANGED <<mem, others>>

Release(p) == /\ p \in DOMAIN live
              /\ live' = [r \in DOMAIN live \ {p} |-> live[r]]
              /\ UNCHANGED <<mem, others>>

\* The heap ends: every pointer dies with it.
Terminate == /\ live' = [p \in {} |-> 0]
             /\ UNCHANGED <<mem, others>>

\* Bytes go back to the kernel only when no pointer is live.
Shrink == /\ live = [p \in {} |-> 0]
          /\ mem' \subseteq mem
          /\ UNCHANGED <<others, live>>

\* The rest of the process maps and unmaps its own pages.
OtherMapping == /\ others' \subseteq Addr \ mem
                /\ UNCHANGED <<mem, live>>

Next == \/ Grow
        \/ \E p \in Addr, n \in Sizes : Allocate(p, n)
        \/ \E p \in DOMAIN live : Release(p)
        \/ Terminate
        \/ Shrink
        \/ OtherMapping

Spec == Init /\ [][Next]_vars
=============================================================================
