------------------------------ MODULE PtThreads ------------------------------
(***************************************************************************)
(* The threads of labs/assignment-4-memory-allocator/docs/malloc-impl.c    *)
(* and what they share: the main arena behind its mutex, and one of its    *)
(* fast bins, a linked list that free pushes to without the mutex.  Every  *)
(* read and write of shared memory that another thread may interleave with *)
(* is a step; what a thread does to its own tcache happens at once.        *)
(*                                                                         *)
(* Chunks all have the size of the fast bin.  Those that malloc would find *)
(* in the bins or cut from top are the set `arena': PtMalloc has that      *)
(* search.  The kernel has nothing more to give.  fd is the word of a      *)
(* chunk that the lists use: while nobody's list holds the chunk, the word *)
(* is somebody's data (Junk).  Any thread may free a block that another    *)
(* thread was given.                                                       *)
(***************************************************************************)
EXTENDS Integers, Sequences, SequencesExt

CONSTANTS
  Threads, Chunks, NULL, Junk,
  TCACHE_COUNT,
  BorderChunk,       \* the chunk that borders on top
  MaxCalls           \* calls the client makes

\* There are finitely many chunks; neither a null pointer nor data is one, and no
\* thread is taken for nobody.
ASSUME ChunkAssumption ==
  /\ IsFiniteSet(Chunks) /\ NULL \notin Chunks /\ Junk \notin Chunks /\ NULL # Junk
  /\ NULL \notin Threads

VARIABLES
  fb,                \* the fast bin: its first chunk
  fd,                \* chunk |-> the next one
  have_fastchunks,
  mutex,             \* of the arena: its owner
  arena,             \* free chunks of the arena
  system_mem, top_size,
  held,              \* chunks the client has
  tcache,            \* thread |-> its tcache
  th,                \* thread |-> where it is
  calls, died

vars == <<fb, fd, have_fastchunks, mutex, arena, system_mem, top_size, held, tcache, th,
          calls, died>>
bin == <<fb, have_fastchunks>>
memory == <<system_mem, top_size>>

\* job: the call; init: whether it is in tcache_init; p: the chunk it frees; got:
\* the chunk it has found; old, next: chunks of the fast bin; todo: the entries a
\* shutdown still has to free.
Start(job, p) == [pc |-> "start", job |-> job, init |-> FALSE, p |-> p, got |-> NULL,
                  old |-> NULL, next |-> NULL, seen |-> 0, todo |-> <<>>]
Idle == [Start("none", NULL) EXCEPT !.pc = "idle"]

\* The link of a chunk; what a junk pointer leads to is junk.
LinkOf(c) == IF c \in Chunks THEN fd[c] ELSE Junk

At(t, pc) == ~died /\ th[t].pc = pc
Goto(t, pc) == th' = [th EXCEPT ![t].pc = pc]

Init ==
  /\ fb = NULL /\ fd = [c \in Chunks |-> Junk] /\ have_fastchunks = FALSE
  /\ mutex = NULL /\ arena = Chunks /\ system_mem = 2 /\ top_size = 1
  /\ held = {} /\ died = FALSE /\ calls = 0
  /\ tcache = [t \in Threads |-> [mem |-> NULL, entries |-> <<>>, shutting_down |-> FALSE]]
  /\ th = [t \in Threads |-> Idle]

----------------------------------------------------------------------------
\* Calls.

Calls(t, job, p) ==
  /\ At(t, "idle") /\ calls < MaxCalls
  /\ calls' = calls + 1
  /\ th' = [th EXCEPT ![t] = Start(job, p)]

Malloc(t) ==
  /\ Calls(t, "malloc", NULL)
  /\ UNCHANGED <<bin, fd, mutex, arena, memory, held, tcache, died>>

Free(t, c) ==
  /\ Calls(t, "free", c)
  /\ held' = held \ {c}
  /\ UNCHANGED <<bin, fd, mutex, arena, memory, tcache, died>>

MallocTrim(t) ==
  /\ Calls(t, "trim", NULL)
  /\ UNCHANGED <<bin, fd, mutex, arena, memory, held, tcache, died>>

\* tcache_thread_shutdown: without a tcache there is nothing to do; else marks
\* says that the shutdown has begun.
Exits(t, marks) ==
  /\ At(t, "idle")
  /\ IF tcache[t].mem = NULL
     THEN th' = [th EXCEPT ![t].pc = "exited"] /\ UNCHANGED tcache
     ELSE /\ th' = [th EXCEPT ![t] = [Start("exit", NULL) EXCEPT
                                        !.pc = "shutdown", !.got = tcache[t].mem,
                                        !.todo = tcache[t].entries]]
          /\ tcache' = [tcache EXCEPT ![t] = [mem |-> NULL, entries |-> <<>>,
                                              shutting_down |-> marks]]
  /\ UNCHANGED <<bin, fd, mutex, arena, memory, held, calls, died>>
ExitUnmarked(t) == Exits(t, FALSE)    \* a slip
Exit(t) == Exits(t, TRUE)

\* The next entry is freed like any block, in the end the tcache itself.
ShutdownFrees(t) ==
  /\ At(t, "shutdown")
  /\ th' = [th EXCEPT ![t] =
              IF @.todo = <<>> THEN [@ EXCEPT !.pc = "lock"]
              ELSE [@ EXCEPT !.pc = "start", !.p = Head(th[t].todo),
                                       !.todo = Tail(th[t].todo)]]
  /\ UNCHANGED <<bin, fd, mutex, arena, memory, held, tcache, calls, died>>

NeedsTcache(t) == tcache[t].mem = NULL /\ ~tcache[t].shutting_down
HasRoom(t) == tcache[t].mem # NULL /\ Len(tcache[t].entries) < TCACHE_COUNT

\* MAYBE_INIT_TCACHE takes the mutex for a search of its own.
InitsTcache(t) ==
  /\ At(t, "start") /\ th[t].job # "trim" /\ NeedsTcache(t)
  /\ th' = [th EXCEPT ![t].pc = "lock", ![t].init = TRUE]
  /\ UNCHANGED <<bin, fd, mutex, arena, memory, held, tcache, calls, died>>

\* With a tcache, or without after all.
Ready(t) ==
  \/ At(t, "start") /\ (th[t].job = "trim" \/ ~NeedsTcache(t))
  \/ At(t, "ready")

TcacheServes(t) ==
  /\ Ready(t) /\ th[t].job = "malloc" /\ tcache[t].entries # <<>>
  /\ tcache' = [tcache EXCEPT ![t].entries = Tail(@)]
  /\ held' = held \cup {Head(tcache[t].entries)}
  /\ th' = [th EXCEPT ![t] = Idle]
  /\ UNCHANGED <<bin, fd, mutex, arena, memory, calls, died>>

TcacheTakes(t) ==
  /\ Ready(t) /\ th[t].job \in {"free", "exit"} /\ HasRoom(t)
  /\ tcache' = [tcache EXCEPT ![t].entries = <<th[t].p>> \o @]
  /\ th' = [th EXCEPT ![t] = IF @.job = "free" THEN Idle
                             ELSE [@ EXCEPT !.pc = "shutdown", !.p = NULL]]
  /\ UNCHANGED <<bin, fd, mutex, arena, memory, held, calls, died>>

WantsMutex(t) ==
  /\ Ready(t)
  /\ th[t].job = "trim" \/ (th[t].job = "malloc" /\ tcache[t].entries = <<>>)
  /\ Goto(t, "lock")
  /\ UNCHANGED <<bin, fd, mutex, arena, memory, held, tcache, calls, died>>

----------------------------------------------------------------------------
\* _int_free for a fast bin, without the mutex.

\* The size of the chunk behind is looked at first; only top changes it.
ReadsNextSize(t) ==
  /\ Ready(t) /\ th[t].job \in {"free", "exit"} /\ ~HasRoom(t)
  /\ th' = [th EXCEPT ![t].seen = IF th[t].p = BorderChunk THEN top_size ELSE 0, ![t].pc = "check"]
  /\ UNCHANGED <<bin, fd, mutex, arena, memory, held, tcache, calls, died>>

ChecksNextSize(t) ==
  /\ At(t, "check")
  /\ Goto(t, IF th[t].seen >= system_mem THEN "recheck" ELSE "flag")
  /\ UNCHANGED <<bin, fd, mutex, arena, memory, held, tcache, calls, died>>

NotRedone == TRUE                     \* a slip
StillTooLarge == top_size >= system_mem

\* "Redo the test after getting the lock."
ChecksWithMutex(t) ==
  /\ At(t, "recheck") /\ mutex = NULL
  /\ died' = StillTooLarge
  /\ Goto(t, "flag")
  /\ UNCHANGED <<bin, fd, mutex, arena, memory, held, tcache, calls>>

SetsFlag(t) ==
  /\ At(t, "flag")
  /\ have_fastchunks' = TRUE
  /\ Goto(t, "link")
  /\ UNCHANGED <<fb, fd, mutex, arena, memory, held, tcache, calls, died>>

Links(t) ==
  /\ At(t, "link")
  /\ died' = (fb = th[t].p)
  /\ fd' = [fd EXCEPT ![th[t].p] = fb]
  /\ Goto(t, "push")
  /\ UNCHANGED <<bin, mutex, arena, memory, held, tcache, calls>>

\* The compare-and-exchange: another chunk at the front is linked to instead.
Pushes(t) ==
  /\ At(t, "push")
  /\ LET p == th[t].p
     IN  IF fb = LinkOf(p)
         THEN /\ fb' = p
              /\ th' = [th EXCEPT ![t] = IF @.job = "free" THEN Idle
                                         ELSE [@ EXCEPT !.pc = "shutdown", !.p = NULL]]
              /\ UNCHANGED <<fd, died>>
         ELSE /\ died' = (fb = p)
              /\ fd' = [fd EXCEPT ![p] = fb]
              /\ UNCHANGED <<fb, th>>
  /\ UNCHANGED <<have_fastchunks, mutex, arena, memory, held, tcache, calls>>

----------------------------------------------------------------------------
\* What happens with the mutex.

\* The tcache is too large for the fast bins and small enough for the small bins.
Locks(t) ==
  /\ At(t, "lock") /\ mutex = NULL
  /\ mutex' = t
  /\ Goto(t, CASE th[t].init -> "search"
               [] ~th[t].init /\ th[t].job = "malloc" -> "first"
               [] ~th[t].init /\ th[t].job = "exit" -> "release"
               [] ~th[t].init /\ th[t].job = "trim" -> "clear")
  /\ UNCHANGED <<bin, fd, arena, memory, held, tcache, calls, died>>

\* REMOVE_FB: read the first chunk, read its link, exchange.
ReadsFirst(t) ==
  /\ At(t, "first")
  /\ th' = [th EXCEPT ![t].old = fb, ![t].pc = IF fb = NULL THEN "search" ELSE "second"]
  /\ UNCHANGED <<bin, fd, mutex, arena, memory, held, tcache, calls, died>>

ReadsSecond(t) ==
  /\ At(t, "second")
  /\ th' = [th EXCEPT ![t].next = LinkOf(th[t].old), ![t].pc = "pop"]
  /\ UNCHANGED <<bin, fd, mutex, arena, memory, held, tcache, calls, died>>

\* The first chunk popped is the caller's, the next ones go to the tcache.  The
\* plain store is for a single thread; here the first chunk is compared again.
PopsPlainly(t) ==
  /\ At(t, "pop")
  /\ fb' = th[t].next
  /\ fd' = [fd EXCEPT ![th[t].old] = Junk]
  /\ IF th[t].got = NULL
     THEN th' = [th EXCEPT ![t].got = th[t].old, ![t].pc = "more"] /\ UNCHANGED tcache
     ELSE Goto(t, "more") /\ tcache' = [tcache EXCEPT ![t].entries = <<th[t].old>> \o @]
  /\ UNCHANGED <<have_fastchunks, mutex, arena, memory, held, calls, died>>
Pops(t) == fb = th[t].old /\ PopsPlainly(t)

\* The bin has changed: once more with what is first now, if there is something.
PopFails(t) ==
  /\ At(t, "pop") /\ fb # th[t].old
  /\ th' = [th EXCEPT ![t].old = fb, ![t].pc = IF fb # NULL THEN "second"
                                               ELSE IF th[t].got = NULL THEN "search" ELSE "unlock"]
  /\ UNCHANGED <<bin, fd, mutex, arena, memory, held, tcache, calls, died>>

StashesMore(t) ==
  /\ At(t, "more")
  /\ th' = [th EXCEPT ![t] = IF HasRoom(t) /\ fb # NULL
                             THEN [@ EXCEPT !.old = fb, !.pc = "second"]
                             ELSE [@ EXCEPT !.pc = "unlock"]]
  /\ UNCHANGED <<bin, fd, mutex, arena, memory, held, tcache, calls, died>>

ArenaServes(t) ==
  /\ At(t, "search")
  /\ \E c \in arena :
       /\ arena' = arena \ {c}
       /\ th' = [th EXCEPT ![t].got = c, ![t].pc = "unlock"]
  /\ UNCHANGED <<bin, fd, mutex, memory, held, tcache, calls, died>>

ArenaIsEmpty(t) ==
  /\ At(t, "search") /\ arena = {}
  /\ Goto(t, IF have_fastchunks THEN "clear" ELSE "unlock")
  /\ UNCHANGED <<bin, fd, mutex, arena, memory, held, tcache, calls, died>>

\* malloc_consolidate: the flag, the whole list, then chunk by chunk.
ClearsFlag(t) ==
  /\ At(t, "clear")
  /\ have_fastchunks' = FALSE
  /\ Goto(t, "swap")
  /\ UNCHANGED <<fb, fd, mutex, arena, memory, held, tcache, calls, died>>

TakesList(t) ==
  /\ At(t, "swap")
  /\ fb' = NULL
  /\ th' = [th EXCEPT ![t].old = fb, ![t].pc = "walk"]
  /\ UNCHANGED <<have_fastchunks, fd, mutex, arena, memory, held, tcache, calls, died>>

Consolidates(t) ==
  /\ At(t, "walk") /\ th[t].old # NULL
  /\ arena' = arena \cup {th[t].old}
  /\ th' = [th EXCEPT ![t].old = LinkOf(@)]
  /\ fd' = [fd EXCEPT ![th[t].old] = Junk]
  /\ UNCHANGED <<bin, mutex, memory, held, tcache, calls, died>>

HasConsolidated(t) ==
  /\ At(t, "walk") /\ th[t].old = NULL
  /\ Goto(t, IF th[t].job \in {"trim", "exit"} THEN "trim" ELSE "search")
  /\ UNCHANGED <<bin, fd, mutex, arena, memory, held, tcache, calls, died>>

\* systrim gives memory back: system_mem is lowered first, then top.
LowersSystemMem(t) ==
  /\ At(t, "trim") /\ top_size > 0
  /\ system_mem' = system_mem - 1
  /\ Goto(t, "top")
  /\ UNCHANGED <<bin, fd, mutex, arena, top_size, held, tcache, calls, died>>

\* There is nothing to give back, the break is not at the end of top or stays, or
\* a free finds top small.
KeepsTop(t) ==
  /\ At(t, "trim")
  /\ Goto(t, "unlock")
  /\ UNCHANGED <<bin, fd, mutex, arena, memory, held, tcache, calls, died>>

LowersTop(t) ==
  /\ At(t, "top")
  /\ top_size' = top_size - 1
  /\ Goto(t, "unlock")
  /\ UNCHANGED <<bin, fd, mutex, arena, system_mem, held, tcache, calls, died>>

\* The memory of a tcache goes back to the arena.  When the chunk it has become part
\* of is large, the fast bins are consolidated and top is trimmed.
Releases(t) ==
  /\ At(t, "release")
  /\ arena' = arena \cup {th[t].got}
  /\ \E pc \in {"unlock", IF have_fastchunks THEN "clear" ELSE "trim"} :
       th' = [th EXCEPT ![t].got = NULL, ![t].pc = pc]
  /\ UNCHANGED <<bin, fd, mutex, memory, held, tcache, calls, died>>

KeepsUnlessFound(t) == IF th[t].init /\ th[t].got = NULL THEN mutex ELSE NULL   \* a slip
FreesMutex(t) == NULL

\* The call ends, or goes on with the tcache it has, or without one.
Unlocks(t) ==
  /\ At(t, "unlock")
  /\ mutex' = FreesMutex(t)
  /\ IF th[t].init
     THEN /\ tcache' = [tcache EXCEPT ![t].mem = th[t].got]
          /\ th' = [th EXCEPT ![t].init = FALSE, ![t].got = NULL, ![t].pc = "ready"]
          /\ UNCHANGED held
     ELSE /\ th' = [th EXCEPT ![t] = IF @.job = "exit" THEN [Idle EXCEPT !.pc = "exited"] ELSE Idle]
          /\ held' = held \cup ({th[t].got} \ {NULL})
          /\ UNCHANGED tcache
  /\ UNCHANGED <<bin, fd, arena, memory, calls, died>>

----------------------------------------------------------------------------
Step(t) ==
  \/ ShutdownFrees(t) \/ InitsTcache(t) \/ TcacheServes(t) \/ TcacheTakes(t) \/ WantsMutex(t)
  \/ ReadsNextSize(t) \/ ChecksNextSize(t) \/ ChecksWithMutex(t) \/ SetsFlag(t)
  \/ Links(t) \/ Pushes(t) \/ Locks(t) \/ ReadsFirst(t) \/ ReadsSecond(t) \/ Pops(t) \/ PopFails(t)
  \/ StashesMore(t) \/ ArenaServes(t) \/ ArenaIsEmpty(t) \/ ClearsFlag(t)
  \/ TakesList(t) \/ Consolidates(t) \/ HasConsolidated(t) \/ LowersSystemMem(t) \/ KeepsTop(t)
  \/ LowersTop(t) \/ Releases(t) \/ Unlocks(t)

Next ==
  \E t \in Threads :
    \/ Malloc(t) \/ MallocTrim(t) \/ Exit(t)
    \/ \E c \in held : Free(t, c)
    \/ Step(t)

Spec == Init /\ [][Next]_vars

\* A thread goes on with the call it has made.
FairSpec == Spec /\ \A t \in Threads : WF_vars(Step(t))
----------------------------------------------------------------------------
\* Properties.

\* The chunks of the list that starts at c, in order, with what ends it.
Chain(c) ==
  LET n == Cardinality(Chunks)
      at[k \in 0 .. n] == IF k = 0 THEN c ELSE IF at[k - 1] \in Chunks THEN fd[at[k - 1]] ELSE NULL
  IN  [k \in 1 .. n + 1 |-> at[k - 1]]
Ends(c) == NULL \in Range(Chain(c)) /\ Junk \notin Range(Chain(c))

\* The places where chunk c is.
Places(c) ==
  LET inList(name, s) == {<<name, k>> : k \in {j \in DOMAIN s : s[j] = c}}
      ofThread(t) ==
        {<<t, f>> : f \in {g \in {"p", "got"} : th[t][g] = c}}
          \cup {<<t, x>> : x \in inList("todo", th[t].todo)}
          \cup {<<t, x>> : x \in inList("entries", tcache[t].entries)}
          \cup (IF tcache[t].mem = c THEN {<<t, "mem">>} ELSE {})
          \cup (IF th[t].pc = "walk" THEN {<<t, x>> : x \in inList("walk", Chain(th[t].old))} ELSE {})
  IN  (IF c \in arena THEN {<<"arena">>} ELSE {}) \cup (IF c \in held THEN {<<"held">>} ELSE {})
        \cup inList("fast", Chain(fb)) \cup UNION {ofThread(t) : t \in Threads}

\* However frees race with allocations, consolidations and exits, every chunk is
\* in one place: no block is given to two callers, none is lost, and the fast bin
\* is a list that ends.
OneOwner ==
  /\ \A c \in Chunks : Cardinality(Places(c)) = 1
  /\ Ends(fb)
  /\ \A t \in Threads : th[t].pc = "walk" => Ends(th[t].old)

\* A thread that has exited keeps no chunk: what shutdown frees does not come back
\* into a new tcache.
ExitKeepsNothing ==
  \A t \in Threads :
    th[t].pc = "exited" => tcache[t].mem = NULL /\ tcache[t].entries = <<>>

\* No free of a correct client is taken for a corruption, though it looks at sizes
\* another thread is changing.
NeverAborts == ~died

\* Every call returns once the client makes no more calls that get in its way.
CallsReturn == \A t \in Threads : th[t].pc # "idle" ~> th[t].pc \in {"idle", "exited"}
=============================================================================
