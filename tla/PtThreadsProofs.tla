-------------------------- MODULE PtThreadsProofs --------------------------
(***************************************************************************)
(* Proofs about the threads of malloc-impl.c, for any number of threads,   *)
(* chunks and entries of a tcache: one that has exited keeps no chunk      *)
(* (ThreadsInvariant); every chunk has one owner and no free aborts        *)
(* (ThreadsOwn), where the owner of a chunk is the arena, the client, the  *)
(* fast bin, the list being consolidated, or a field of one thread.        *)
(***************************************************************************)
EXTENDS PtThreads, Induction, TLAPS

\* Whatever a pointer of the program may hold.
Value == Chunks \cup {NULL, Junk}

Pc == {"idle", "start", "ready", "shutdown", "exited", "lock", "check", "recheck", "flag",
       "link", "push", "first", "second", "pop", "more", "clear", "swap", "walk",
       "search", "trim", "top", "release", "unlock"}
Job == {"none", "malloc", "free", "trim", "exit"}

Thread == [pc : Pc, job : Job, init : BOOLEAN, p : Value, got : Value,
           old : Value, next : Value, seen : Int, todo : Seq(Value)]
Tcache == [mem : Value, entries : Seq(Value), shutting_down : BOOLEAN]

TypeOK ==
  /\ fb \in Value /\ fd \in [Chunks -> Value]
  /\ arena \in SUBSET Value /\ held \in SUBSET Value
  /\ system_mem \in Int /\ top_size \in Int
  /\ th \in [Threads -> Thread]
  /\ tcache \in [Threads -> Tcache]

\* What is known of a thread from its own record r and its own tcache k.
Fine(r, k) ==
  /\ k.mem = NULL => k.entries = <<>>
  /\ r.pc = "exited" \/ r.job = "exit" => k.mem = NULL
  /\ r.job = "exit" => k.shutting_down
  /\ r.init => k.mem = NULL /\ ~k.shutting_down
  /\ r.pc = "shutdown" => r.job = "exit"
  /\ r.pc = "lock" /\ ~r.init => r.job \in {"malloc", "trim", "exit"}
  /\ r.pc \in {"check", "recheck", "flag", "link", "push"} => r.job \in {"free", "exit"}
  /\ r.pc \in {"first", "second", "pop", "more"} => r.job = "malloc" /\ ~r.init
  /\ r.pc \in {"start", "ready", "lock", "first"} /\ r.job = "malloc" => r.got = NULL
  /\ r.pc \in {"second", "pop"} /\ r.got # NULL => k.mem # NULL

\* The inductive invariant.
IInv == TypeOK /\ \A t \in Threads : Fine(th[t], tcache[t])

LEMMA StartIsThread ==
  ASSUME NEW job \in Job, NEW p \in Value
  PROVE  /\ Start(job, p) \in Thread
         /\ Start(job, p).pc = "start" /\ Start(job, p).job = job
         /\ ~Start(job, p).init /\ Start(job, p).got = NULL
<1>1. "start" \in Pc /\ 0 \in Int /\ <<>> \in Seq(Value)
  BY DEF Pc
<1>2. NULL \in Value
  BY DEF Value
<1>3. FALSE \in BOOLEAN
  OBVIOUS
<1>4. Start(job, p) \in Thread
  BY <1>1, <1>2, <1>3, Zenon DEF Start, Thread
<1> QED
  BY <1>4 DEF Start

LEMMA IdleIsThread ==
  Idle \in Thread /\ Idle.pc = "idle" /\ Idle.job = "none" /\ ~Idle.init
<1> DEFINE r == Start("none", NULL)
<1>1. r \in Thread /\ r.job = "none" /\ ~r.init
  BY StartIsThread DEF Value, Job
<1>2. Idle = [r EXCEPT !.pc = "idle"]
  BY DEF Idle
<1> HIDE DEF r
<1> QED
  BY <1>1, <1>2 DEF Thread, Pc

LEMMA InitFine == Init => IInv
<1> SUFFICES ASSUME Init PROVE IInv
  OBVIOUS
<1>1. TypeOK
  BY IdleIsThread DEF Init, TypeOK, Tcache, Value
<1>2. ASSUME NEW t \in Threads PROVE Fine(th[t], tcache[t])
  BY IdleIsThread DEF Init, Fine
<1> QED
  BY <1>1, <1>2 DEF IInv

LEMMA LinkType == ASSUME TypeOK, NEW c PROVE LinkOf(c) \in Value
  BY DEF LinkOf, TypeOK, Value

\* The variables that all threads share.
SharedOK ==
  /\ fb \in Value /\ fd \in [Chunks -> Value]
  /\ arena \in SUBSET Value /\ held \in SUBSET Value
  /\ system_mem \in Int /\ top_size \in Int

\* Only the thread that takes the step changes.
LEMMA OneMoves ==
  ASSUME IInv, SharedOK', NEW t \in Threads,
         NEW q \in Thread, th' = [th EXCEPT ![t] = q],
         NEW k \in Tcache, tcache' = [tcache EXCEPT ![t] = k],
         Fine(q, k)
  PROVE  IInv'
<1>1. th \in [Threads -> Thread] /\ tcache \in [Threads -> Tcache]
  BY DEF IInv, TypeOK
<1>2. TypeOK'
  BY <1>1 DEF TypeOK, SharedOK
<1>3. ASSUME NEW s \in Threads PROVE Fine(th'[s], tcache'[s])
  <2>1. CASE s = t
    BY <1>1, <2>1
  <2>2. CASE s # t
    BY <1>1, <2>2 DEF IInv
  <2> QED
    BY <2>1, <2>2
<1> QED
  BY <1>2, <1>3 DEF IInv

LEMMA Before ==
  ASSUME IInv, NEW t \in Threads
  PROVE  /\ th[t] \in Thread /\ tcache[t] \in Tcache /\ Fine(th[t], tcache[t])
         /\ SharedOK /\ TypeOK
         /\ tcache = [tcache EXCEPT ![t] = tcache[t]] /\ th = [th EXCEPT ![t] = th[t]]
  BY DEF IInv, TypeOK, SharedOK

\* A thread goes to another place with nothing else of its own changed.
LEMMA Goes ==
  ASSUME IInv, SharedOK', NEW t \in Threads, NEW pc \in Pc, Goto(t, pc), UNCHANGED tcache,
         pc \notin {"exited", "shutdown", "start", "ready"},
         pc \in {"check", "recheck", "flag", "link", "push"} => th[t].job \in {"free", "exit"},
         pc = "lock" /\ ~th[t].init => th[t].job \in {"malloc", "trim", "exit"},
         pc \in {"first", "second", "pop", "more"} => th[t].job = "malloc" /\ ~th[t].init,
         pc \in {"lock", "first"} /\ th[t].job = "malloc" => th[t].got = NULL,
         pc \in {"second", "pop"} /\ th[t].got # NULL => tcache[t].mem # NULL
  PROVE  IInv'
<1> DEFINE r == th[t]
           q == [r EXCEPT !.pc = pc]
<1>1. r \in Thread /\ tcache[t] \in Tcache /\ Fine(r, tcache[t])
  BY Before
<1>2. th' = [th EXCEPT ![t] = q]
  BY DEF Goto
<1>3. r.job = th[t].job /\ (r.init <=> th[t].init) /\ r.got = th[t].got
  OBVIOUS
<1> HIDE DEF r
<1>4. q \in Thread /\ q.pc = pc /\ q.job = r.job /\ (q.init <=> r.init) /\ q.got = r.got
  BY <1>1 DEF Thread, Pc
<1> HIDE DEF q
<1>5. Fine(q, tcache[t])
  BY <1>1, <1>3, <1>4 DEF Fine
<1> QED
  BY <1>1, <1>2, <1>4, <1>5, Before, OneMoves

LEMMA CallsKeep ==
  ASSUME IInv, NEW t \in Threads, NEW job \in {"malloc", "free", "trim"}, NEW p \in Value,
         Calls(t, job, p), SharedOK', UNCHANGED tcache
  PROVE  IInv'
<1> DEFINE q == Start(job, p)
<1>1. th' = [th EXCEPT ![t] = q] /\ th[t].pc = "idle"
  BY DEF Calls, At
<1>2. /\ q \in Thread /\ q.pc = "start" /\ q.job = job /\ ~q.init /\ q.got = NULL
  BY StartIsThread DEF Job
<1> HIDE DEF q
<1>3. Fine(q, tcache[t])
  BY <1>2, Before DEF Fine
<1> QED
  BY <1>1, <1>2, <1>3, Before, OneMoves

LEMMA ExitKeeps ==
  ASSUME IInv, NEW t \in Threads, Exit(t)
  PROVE  IInv'
<1>1. SharedOK'
  BY Before DEF Exit, Exits, SharedOK, bin, memory
<1>2. CASE tcache[t].mem = NULL
  <2> DEFINE r == th[t]
             q == [r EXCEPT !.pc = "exited"]
  <2>1. th' = [th EXCEPT ![t] = q] /\ tcache' = tcache
    BY <1>2 DEF Exit, Exits
  <2>2. r \in Thread /\ tcache[t] \in Tcache /\ Fine(r, tcache[t])
    BY Before
  <2> HIDE DEF r
  <2>3. q \in Thread /\ q.pc = "exited" /\ q.job = r.job /\ (q.init <=> r.init) /\ q.got = r.got
    BY <2>2 DEF Thread, Pc
  <2> HIDE DEF q
  <2>4. Fine(q, tcache[t])
    BY <1>2, <2>2, <2>3 DEF Fine
  <2> QED
    BY <1>1, <2>1, <2>2, <2>3, <2>4, Before, OneMoves
<1>3. CASE tcache[t].mem # NULL
  <2> DEFINE r == Start("exit", NULL)
             m == tcache[t].mem
             e == tcache[t].entries
             q == [r EXCEPT !.pc = "shutdown", !.got = m, !.todo = e]
             k == [mem |-> NULL, entries |-> <<>>, shutting_down |-> TRUE]
  <2>1. th' = [th EXCEPT ![t] = q] /\ tcache' = [tcache EXCEPT ![t] = k]
    BY <1>3 DEF Exit, Exits
  <2>2. r \in Thread /\ r.job = "exit" /\ ~r.init
    BY StartIsThread DEF Value, Job
  <2>3. m \in Value /\ e \in Seq(Value)
    BY Before DEF Tcache
  <2> HIDE DEF r, m, e
  <2>4. q \in Thread /\ q.pc = "shutdown" /\ q.job = "exit" /\ ~q.init
    BY <2>2, <2>3 DEF Thread, Pc
  <2>5. k \in Tcache /\ k.mem = NULL /\ k.entries = <<>> /\ k.shutting_down
    BY DEF Tcache, Value
  <2> HIDE DEF q, k
  <2>6. Fine(q, k)
    BY <2>4, <2>5 DEF Fine
  <2> QED
    BY <1>1, <2>1, <2>4, <2>5, <2>6, OneMoves
<1> QED
  BY <1>2, <1>3

----------------------------------------------------------------------------
\* The steps that change nothing of a thread but where it is.

LEMMA GotosKeep ==
  ASSUME IInv, NEW t \in Threads,
         \/ WantsMutex(t) \/ ChecksNextSize(t) \/ ChecksWithMutex(t) \/ SetsFlag(t) \/ Links(t)
         \/ Locks(t) \/ ArenaIsEmpty(t) \/ ClearsFlag(t) \/ HasConsolidated(t)
         \/ LowersSystemMem(t) \/ KeepsTop(t) \/ LowersTop(t)
  PROVE  IInv'
<1>1. Fine(th[t], tcache[t]) /\ SharedOK /\ (th[t].init <=> th[t].init)
  BY Before
<1>2. CASE WantsMutex(t)
  <2>1. SharedOK'
    BY <1>1, <1>2 DEF WantsMutex, SharedOK, bin, memory
  <2>2. th[t].pc \in {"start", "ready"} /\ th[t].job \in {"malloc", "trim"}
        /\ Goto(t, "lock") /\ tcache' = tcache
    BY <1>2 DEF WantsMutex, Ready, At
  <2>3. th[t].job = "malloc" => th[t].got = NULL
    BY <1>1, <2>2 DEF Fine
  <2> QED
    BY <2>1, <2>2, <2>3, Goes DEF Pc
<1>3. CASE ChecksNextSize(t)
  <2>1. SharedOK'
    BY <1>1, <1>3 DEF ChecksNextSize, SharedOK, bin, memory
  <2>2. PICK pc \in {"recheck", "flag"} : Goto(t, pc)
    BY <1>3 DEF ChecksNextSize
  <2>3. th[t].job \in {"free", "exit"} /\ tcache' = tcache
    BY <1>1, <1>3 DEF ChecksNextSize, At, Fine
  <2> QED
    BY <2>1, <2>2, <2>3, Goes DEF Pc
<1>4. CASE ChecksWithMutex(t)
  <2>1. SharedOK'
    BY <1>1, <1>4 DEF ChecksWithMutex, SharedOK, bin, memory
  <2>2. th[t].job \in {"free", "exit"} /\ tcache' = tcache /\ Goto(t, "flag")
    BY <1>1, <1>4 DEF ChecksWithMutex, At, Fine
  <2> QED
    BY <2>1, <2>2, Goes DEF Pc
<1>5. CASE SetsFlag(t)
  <2>1. SharedOK'
    BY <1>1, <1>5 DEF SetsFlag, SharedOK, memory
  <2>2. th[t].job \in {"free", "exit"} /\ tcache' = tcache /\ Goto(t, "link")
    BY <1>1, <1>5 DEF SetsFlag, At, Fine
  <2> QED
    BY <2>1, <2>2, Goes DEF Pc
<1>6. CASE Links(t)
  <2>1. SharedOK'
    BY <1>1, <1>6 DEF Links, SharedOK, bin, memory
  <2>2. th[t].job \in {"free", "exit"} /\ tcache' = tcache /\ Goto(t, "push")
    BY <1>1, <1>6 DEF Links, At, Fine
  <2> QED
    BY <2>1, <2>2, Goes DEF Pc
<1>7. CASE Locks(t)
  <2>1. SharedOK' /\ tcache' = tcache
    BY <1>1, <1>7 DEF Locks, SharedOK, bin, memory
  <2>2. CASE th[t].init
    BY <1>7, <2>1, <2>2, Goes DEF Locks, Pc
  <2>3. CASE ~th[t].init
    <3>1. th[t].pc = "lock" /\ th[t].job \in {"malloc", "trim", "exit"}
          /\ (th[t].job = "malloc" => th[t].got = NULL)
      BY <1>1, <1>7, <2>3 DEF Locks, At, Fine
    <3>2. CASE th[t].job = "malloc"
      BY <1>7, <2>1, <2>3, <3>1, <3>2, Goes DEF Locks, Pc
    <3>3. CASE th[t].job = "exit"
      BY <1>7, <2>1, <2>3, <3>3, Goes DEF Locks, Pc
    <3>4. CASE th[t].job = "trim"
      BY <1>7, <2>1, <2>3, <3>4, Goes DEF Locks, Pc
    <3> QED
      BY <3>1, <3>2, <3>3, <3>4
  <2> QED
    BY <2>2, <2>3
<1>8. CASE KeepsTop(t)
  <2>1. SharedOK' /\ tcache' = tcache /\ Goto(t, "unlock")
    BY <1>1, <1>8 DEF KeepsTop, SharedOK, bin, memory
  <2> QED
    BY <2>1, Goes DEF Pc
<1>9. CASE ArenaIsEmpty(t)
  <2>1. SharedOK' /\ tcache' = tcache
    BY <1>1, <1>9 DEF ArenaIsEmpty, SharedOK, bin, memory
  <2>2. PICK pc \in {"clear", "unlock"} : Goto(t, pc)
    BY <1>9 DEF ArenaIsEmpty
  <2> QED
    BY <2>1, <2>2, Goes DEF Pc
<1>10. CASE ClearsFlag(t)
  <2>1. SharedOK' /\ tcache' = tcache /\ Goto(t, "swap")
    BY <1>1, <1>10 DEF ClearsFlag, SharedOK, memory
  <2> QED
    BY <2>1, Goes DEF Pc
<1>11. CASE HasConsolidated(t)
  <2>1. SharedOK' /\ tcache' = tcache
    BY <1>1, <1>11 DEF HasConsolidated, SharedOK, bin, memory
  <2>2. PICK pc \in {"trim", "search"} : Goto(t, pc)
    BY <1>11 DEF HasConsolidated
  <2> QED
    BY <2>1, <2>2, Goes DEF Pc
<1>12. CASE LowersSystemMem(t)
  <2>1. SharedOK' /\ tcache' = tcache /\ Goto(t, "top")
    BY <1>1, <1>12 DEF LowersSystemMem, SharedOK, bin
  <2> QED
    BY <2>1, Goes DEF Pc
<1>13. CASE LowersTop(t)
  <2>1. SharedOK' /\ tcache' = tcache /\ Goto(t, "unlock")
    BY <1>1, <1>13 DEF LowersTop, SharedOK, bin
  <2> QED
    BY <2>1, Goes DEF Pc
<1> QED
  BY <1>2, <1>3, <1>4, <1>5, <1>6, <1>7, <1>8, <1>9, <1>10, <1>11, <1>12, <1>13

----------------------------------------------------------------------------
\* The steps that change something else of the thread.  r is the thread before the
\* step, q after it.

LEMMA ShutdownKeeps ==
  ASSUME IInv, NEW t \in Threads, ShutdownFrees(t)
  PROVE  IInv'
<1> DEFINE r == th[t]
           todo == r.todo
           head == Head(todo)
           tail == Tail(todo)
<1>1. r \in Thread /\ tcache[t] \in Tcache /\ Fine(r, tcache[t]) /\ r.pc = "shutdown" /\ SharedOK'
  BY Before DEF ShutdownFrees, At, SharedOK, bin, memory
<1>2. todo \in Seq(Value) /\ (todo # <<>> => head \in Value /\ tail \in Seq(Value))
  <2>1. todo \in Seq(Value)
    BY <1>1 DEF Thread
  <2> HIDE DEF todo
  <2> QED
    BY <2>1
<1>3. CASE todo = <<>>
  <2> DEFINE q == [r EXCEPT !.pc = "lock"]
  <2>1. th' = [th EXCEPT ![t] = q] /\ tcache' = tcache
    BY <1>3 DEF ShutdownFrees
  <2> HIDE DEF r
  <2>2. q \in Thread /\ q.pc = "lock" /\ q.job = r.job /\ (q.init <=> r.init)
    BY <1>1 DEF Thread, Pc
  <2> HIDE DEF q
  <2>3. Fine(q, tcache[t])
    BY <1>1, <2>2 DEF Fine
  <2> QED
    BY <1>1, <2>1, <2>2, <2>3, Before, OneMoves
<1>4. CASE todo # <<>>
  <2> DEFINE q == [r EXCEPT !.pc = "start", !.p = head, !.todo = tail]
  <2>1. th' = [th EXCEPT ![t] = q] /\ tcache' = tcache
    BY <1>4 DEF ShutdownFrees
  <2> HIDE DEF r, head, tail
  <2>2. q \in Thread /\ q.pc = "start" /\ q.job = r.job /\ (q.init <=> r.init)
    BY <1>1, <1>2, <1>4 DEF Thread, Pc
  <2> HIDE DEF q
  <2>3. Fine(q, tcache[t])
    BY <1>1, <2>2 DEF Fine
  <2> QED
    BY <1>1, <2>1, <2>2, <2>3, Before, OneMoves
<1> QED
  BY <1>3, <1>4

LEMMA InitsTcacheKeeps ==
  ASSUME IInv, NEW t \in Threads, InitsTcache(t)
  PROVE  IInv'
<1> DEFINE r == th[t]
           q == [r EXCEPT !.pc = "lock", !.init = TRUE]
<1>1. /\ r \in Thread /\ tcache[t] \in Tcache /\ Fine(r, tcache[t]) /\ r.pc = "start" /\ SharedOK'
      /\ tcache[t].mem = NULL /\ ~tcache[t].shutting_down
  BY Before DEF InitsTcache, NeedsTcache, At, SharedOK, bin, memory
<1>2. th' = [th EXCEPT ![t] = q] /\ tcache' = tcache
  BY DEF InitsTcache
<1> HIDE DEF r
<1>3. q \in Thread /\ q.pc = "lock" /\ q.job = r.job /\ q.init /\ q.got = r.got
  BY <1>1 DEF Thread, Pc
<1> HIDE DEF q
<1>4. Fine(q, tcache[t])
  BY <1>1, <1>3 DEF Fine
<1> QED
  BY <1>1, <1>2, <1>3, <1>4, Before, OneMoves

LEMMA TcacheServesKeeps ==
  ASSUME IInv, NEW t \in Threads, TcacheServes(t)
  PROVE  IInv'
<1> DEFINE c == tcache[t]
           entries == c.entries
           tail == Tail(entries)
           k == [c EXCEPT !.entries = tail]
<1>1. c \in Tcache /\ Fine(th[t], c) /\ entries # <<>>
  BY Before DEF TcacheServes
<1>2. entries \in Seq(Value)
  BY <1>1 DEF Tcache
<1>3. Head(entries) \in Value /\ tail \in Seq(Value)
  <2> HIDE DEF entries
  <2> QED
    BY <1>1, <1>2
<1>4. SharedOK'
  BY <1>3, Before DEF TcacheServes, SharedOK, bin, memory
<1>5. th' = [th EXCEPT ![t] = Idle] /\ tcache' = [tcache EXCEPT ![t] = k]
  BY DEF TcacheServes
<1> HIDE DEF c, tail
<1>6. k \in Tcache /\ k.mem = c.mem /\ (k.shutting_down <=> c.shutting_down)
  BY <1>1, <1>3 DEF Tcache
<1> HIDE DEF k
<1>7. Fine(Idle, k)
  BY <1>1, <1>6, IdleIsThread DEF Fine
<1> QED
  BY <1>4, <1>5, <1>6, <1>7, IdleIsThread, OneMoves

LEMMA TcacheTakesKeeps ==
  ASSUME IInv, NEW t \in Threads, TcacheTakes(t)
  PROVE  IInv'
<1> DEFINE r == th[t]
           c == tcache[t]
           p == r.p
           longer == <<p>> \o c.entries
           k == [c EXCEPT !.entries = longer]
<1>1. /\ c \in Tcache /\ r \in Thread /\ Fine(r, c) /\ SharedOK'
      /\ c.mem # NULL /\ r.job \in {"free", "exit"}
  BY Before DEF TcacheTakes, HasRoom, SharedOK, bin, memory
<1>2. r.job = "free"
  BY <1>1 DEF Fine
<1>3. p \in Value /\ c.entries \in Seq(Value)
  BY <1>1 DEF Tcache, Thread
<1>4. longer \in Seq(Value)
  <2> HIDE DEF p, c
  <2> QED
    BY <1>3
<1>5. th' = [th EXCEPT ![t] = Idle] /\ tcache' = [tcache EXCEPT ![t] = k]
  BY <1>2 DEF TcacheTakes
<1> HIDE DEF r, c, longer
<1>6. k \in Tcache /\ k.mem = c.mem /\ (k.shutting_down <=> c.shutting_down)
  BY <1>1, <1>4 DEF Tcache
<1> HIDE DEF k
<1>7. Fine(Idle, k)
  BY <1>1, <1>6, IdleIsThread DEF Fine
<1> QED
  BY <1>1, <1>5, <1>6, <1>7, IdleIsThread, OneMoves

LEMMA ReadsNextSizeKeeps ==
  ASSUME IInv, NEW t \in Threads, ReadsNextSize(t)
  PROVE  IInv'
<1> DEFINE r == th[t]
           size == IF r.p = BorderChunk THEN top_size ELSE 0
           q == [r EXCEPT !.seen = size, !.pc = "check"]
<1>1. /\ r \in Thread /\ tcache[t] \in Tcache /\ Fine(r, tcache[t]) /\ SharedOK /\ SharedOK'
      /\ r.job \in {"free", "exit"} /\ r.pc \in {"start", "ready"}
  BY Before DEF ReadsNextSize, Ready, At, SharedOK, bin, memory
<1>2. th' = [th EXCEPT ![t] = q] /\ tcache' = tcache
  BY DEF ReadsNextSize
<1>3. size \in Int
  BY <1>1 DEF SharedOK
<1> HIDE DEF r, size
<1>4. q \in Thread /\ q.pc = "check" /\ q.job = r.job /\ (q.init <=> r.init) /\ q.got = r.got
  BY <1>1, <1>3 DEF Thread, Pc
<1> HIDE DEF q
<1>5. Fine(q, tcache[t])
  BY <1>1, <1>4 DEF Fine
<1> QED
  BY <1>1, <1>2, <1>4, <1>5, Before, OneMoves

LEMMA PushesKeeps ==
  ASSUME IInv, NEW t \in Threads, Pushes(t)
  PROVE  IInv'
<1> DEFINE r == th[t]
           q == [r EXCEPT !.pc = "shutdown", !.p = NULL]
<1>1. /\ r \in Thread /\ tcache[t] \in Tcache /\ Fine(r, tcache[t]) /\ tcache' = tcache
      /\ r.pc = "push" /\ r.job \in {"free", "exit"} /\ r.p \in Value /\ SharedOK
  BY Before DEF Pushes, At, Fine, Thread
<1>2. SharedOK'
  BY <1>1 DEF Pushes, SharedOK, memory
<1>3. CASE th' = th
  BY <1>1, <1>2, <1>3, Before, OneMoves
<1>4. CASE th' = [th EXCEPT ![t] = Idle]
  <2>1. Fine(Idle, tcache[t])
    BY <1>1, IdleIsThread DEF Fine
  <2> QED
    BY <1>1, <1>2, <1>4, <2>1, IdleIsThread, Before, OneMoves
<1>5. CASE r.job = "exit" /\ th' = [th EXCEPT ![t] = q]
  <2>1. NULL \in Value
    BY DEF Value
  <2> HIDE DEF r
  <2>2. q \in Thread /\ q.pc = "shutdown" /\ q.job = r.job /\ (q.init <=> r.init)
    BY <1>1, <2>1 DEF Thread, Pc
  <2> HIDE DEF q
  <2>3. Fine(q, tcache[t])
    BY <1>1, <1>5, <2>2 DEF Fine
  <2> QED
    BY <1>1, <1>2, <1>5, <2>2, <2>3, Before, OneMoves
<1> QED
  BY <1>1, <1>3, <1>4, <1>5 DEF Pushes

LEMMA ReadsSecondKeeps ==
  ASSUME IInv, NEW t \in Threads, ReadsSecond(t)
  PROVE  IInv'
<1> DEFINE r == th[t]
           next == LinkOf(r.old)
           q == [r EXCEPT !.next = next, !.pc = "pop"]
<1>1. /\ r \in Thread /\ tcache[t] \in Tcache /\ Fine(r, tcache[t]) /\ r.pc = "second"
      /\ SharedOK /\ SharedOK'
  BY Before, LinkType, Before DEF ReadsSecond, At, SharedOK, bin, memory
<1>2. th' = [th EXCEPT ![t] = q] /\ tcache' = tcache
  BY DEF ReadsSecond
<1>3. next \in Value
  BY <1>1, LinkType, Before DEF SharedOK, Value, Thread, Fine
<1> HIDE DEF r, next
<1>4. q \in Thread /\ q.pc = "pop" /\ q.job = r.job /\ (q.init <=> r.init) /\ q.got = r.got
  BY <1>1, <1>3 DEF Thread, Pc
<1> HIDE DEF q
<1>5. Fine(q, tcache[t])
  BY <1>1, <1>4 DEF Fine
<1> QED
  BY <1>1, <1>2, <1>4, <1>5, Before, OneMoves

LEMMA PopFailsKeeps ==
  ASSUME IInv, NEW t \in Threads, PopFails(t)
  PROVE  IInv'
<1> DEFINE r == th[t]
           to == IF fb # NULL THEN "second" ELSE IF r.got = NULL THEN "search" ELSE "unlock"
           q == [r EXCEPT !.old = fb, !.pc = to]
<1>1. /\ r \in Thread /\ tcache[t] \in Tcache /\ Fine(r, tcache[t]) /\ r.pc = "pop" /\ fb \in Value
      /\ SharedOK /\ SharedOK'
  BY Before DEF PopFails, At, SharedOK, bin, memory
<1>2. th' = [th EXCEPT ![t] = q] /\ tcache' = tcache
  BY DEF PopFails
<1>5. to \in {"second", "search", "unlock"}
  OBVIOUS
<1> HIDE DEF r, to
<1>3. q \in Thread /\ q.pc = to /\ q.job = r.job /\ (q.init <=> r.init) /\ q.got = r.got
  BY <1>1, <1>5 DEF Thread, Pc
<1> HIDE DEF q
<1>4. Fine(q, tcache[t])
  BY <1>1, <1>3, <1>5 DEF Fine
<1> QED
  BY <1>1, <1>2, <1>3, <1>4, Before, OneMoves

LEMMA TakesListKeeps ==
  ASSUME IInv, NEW t \in Threads, TakesList(t)
  PROVE  IInv'
<1> DEFINE r == th[t]
           q == [r EXCEPT !.old = fb, !.pc = "walk"]
<1>1. /\ r \in Thread /\ tcache[t] \in Tcache /\ Fine(r, tcache[t]) /\ r.pc = "swap" /\ fb \in Value
      /\ SharedOK /\ SharedOK'
  BY Before DEF TakesList, At, SharedOK, memory, Value
<1>2. th' = [th EXCEPT ![t] = q] /\ tcache' = tcache
  BY DEF TakesList
<1> HIDE DEF r
<1>3. q \in Thread /\ q.pc = "walk" /\ q.job = r.job /\ (q.init <=> r.init) /\ q.got = r.got
  BY <1>1 DEF Thread, Pc
<1> HIDE DEF q
<1>4. Fine(q, tcache[t])
  BY <1>1, <1>3 DEF Fine
<1> QED
  BY <1>1, <1>2, <1>3, <1>4, Before, OneMoves

LEMMA ConsolidatesKeeps ==
  ASSUME IInv, NEW t \in Threads, Consolidates(t)
  PROVE  IInv'
<1> DEFINE r == th[t]
           next == LinkOf(r.old)
           q == [r EXCEPT !.old = next]
<1>1. /\ r \in Thread /\ tcache[t] \in Tcache /\ Fine(r, tcache[t]) /\ r.pc = "walk" /\ r.old \in Value
      /\ SharedOK /\ SharedOK'
  BY Before, LinkType, Before DEF Consolidates, At, SharedOK, bin, memory, Thread, Value
<1>2. th' = [th EXCEPT ![t] = q] /\ tcache' = tcache
  BY DEF Consolidates
<1>3. next \in Value
  BY <1>1, LinkType, Before DEF SharedOK, Value, Thread, Fine
<1> HIDE DEF r, next
<1>4. q \in Thread /\ q.pc = r.pc /\ q.job = r.job /\ (q.init <=> r.init) /\ q.got = r.got
  BY <1>1, <1>3 DEF Thread, Pc
<1> HIDE DEF q
<1>5. Fine(q, tcache[t])
  BY <1>1, <1>4 DEF Fine
<1> QED
  BY <1>1, <1>2, <1>4, <1>5, Before, OneMoves

LEMMA ReleasesKeeps ==
  ASSUME IInv, NEW t \in Threads, Releases(t)
  PROVE  IInv'
<1>0. PICK pc \in {"unlock", "clear", "trim"} : th' = [th EXCEPT ![t].got = NULL, ![t].pc = pc]
  BY DEF Releases
<1> DEFINE r == th[t]
           q == [r EXCEPT !.got = NULL, !.pc = pc]
<1>1. /\ r \in Thread /\ tcache[t] \in Tcache /\ Fine(r, tcache[t]) /\ r.pc = "release" /\ r.got \in Value /\ NULL \in Value
      /\ SharedOK /\ SharedOK'
  BY Before DEF Releases, At, SharedOK, bin, memory, Thread, Value
<1>2. th' = [th EXCEPT ![t] = q] /\ tcache' = tcache
  BY <1>0 DEF Releases
<1> HIDE DEF r
<1>3. q \in Thread /\ q.pc = pc /\ q.job = r.job /\ (q.init <=> r.init)
  BY <1>1 DEF Thread, Pc
<1> HIDE DEF q
<1>4. Fine(q, tcache[t])
  BY <1>1, <1>3 DEF Fine
<1> QED
  BY <1>1, <1>2, <1>3, <1>4, Before, OneMoves

LEMMA ReadsFirstKeeps ==
  ASSUME IInv, NEW t \in Threads, ReadsFirst(t)
  PROVE  IInv'
<1> DEFINE r == th[t]
           pc == IF fb = NULL THEN "search" ELSE "second"
           q == [r EXCEPT !.old = fb, !.pc = pc]
<1>1. /\ r \in Thread /\ tcache[t] \in Tcache /\ Fine(r, tcache[t]) /\ r.pc = "first"
      /\ fb \in Value /\ SharedOK'
  BY Before DEF ReadsFirst, At, SharedOK, bin, memory
<1>2. th' = [th EXCEPT ![t] = q] /\ tcache' = tcache
  BY DEF ReadsFirst
<1>3. pc \in {"search", "second"}
  OBVIOUS
<1> HIDE DEF r, pc
<1>4. q \in Thread /\ q.pc = pc /\ q.job = r.job /\ (q.init <=> r.init) /\ q.got = r.got
  BY <1>1, <1>3 DEF Thread, Pc
<1> HIDE DEF q
<1>5. Fine(q, tcache[t])
  BY <1>1, <1>3, <1>4 DEF Fine
<1> QED
  BY <1>1, <1>2, <1>4, <1>5, Before, OneMoves

LEMMA StashesMoreKeeps ==
  ASSUME IInv, NEW t \in Threads, StashesMore(t)
  PROVE  IInv'
<1> DEFINE r == th[t]
           q == [r EXCEPT !.old = fb, !.pc = "second"]
<1>1. /\ r \in Thread /\ tcache[t] \in Tcache /\ Fine(r, tcache[t]) /\ r.pc = "more"
      /\ fb \in Value /\ SharedOK' /\ tcache' = tcache
  BY Before DEF StashesMore, At, SharedOK, bin, memory
<1>2. CASE HasRoom(t) /\ fb # NULL
  <2>1. th' = [th EXCEPT ![t] = q] /\ tcache[t].mem # NULL
    BY <1>2 DEF StashesMore, HasRoom
  <2> HIDE DEF r
  <2>2. q \in Thread /\ q.pc = "second" /\ q.job = r.job /\ (q.init <=> r.init) /\ q.got = r.got
    BY <1>1 DEF Thread, Pc
  <2> HIDE DEF q
  <2>3. Fine(q, tcache[t])
    BY <1>1, <2>1, <2>2 DEF Fine
  <2> QED
    BY <1>1, <2>1, <2>2, <2>3, Before, OneMoves
<1>3. CASE ~(HasRoom(t) /\ fb # NULL)
  <2>1. Goto(t, "unlock")
    BY <1>3 DEF StashesMore, Goto
  <2> QED
    BY <1>1, <2>1, Goes DEF Pc
<1> QED
  BY <1>2, <1>3

LEMMA ArenaServesKeeps ==
  ASSUME IInv, NEW t \in Threads, ArenaServes(t)
  PROVE  IInv'
<1>1. PICK c \in arena : arena' = arena \ {c} /\ th' = [th EXCEPT ![t].got = c, ![t].pc = "unlock"]
  BY DEF ArenaServes
<1> DEFINE r == th[t]
           q == [r EXCEPT !.got = c, !.pc = "unlock"]
<1>2. /\ r \in Thread /\ tcache[t] \in Tcache /\ Fine(r, tcache[t]) /\ r.pc = "search"
      /\ c \in Value /\ SharedOK' /\ tcache' = tcache
  BY <1>1, Before DEF ArenaServes, At, SharedOK, bin, memory
<1>3. th' = [th EXCEPT ![t] = q]
  BY <1>1
<1> HIDE DEF r
<1>4. q \in Thread /\ q.pc = "unlock" /\ q.job = r.job /\ (q.init <=> r.init)
  BY <1>2 DEF Thread, Pc
<1> HIDE DEF q
<1>5. Fine(q, tcache[t])
  BY <1>2, <1>4 DEF Fine
<1> QED
  BY <1>2, <1>3, <1>4, <1>5, Before, OneMoves

\* A chunk for the caller, or one for the tcache, which then exists.
LEMMA PopsKeeps ==
  ASSUME IInv, NEW t \in Threads, Pops(t)
  PROVE  IInv'
<1> DEFINE r == th[t]
           c == tcache[t]
           old == r.old
<1>1. /\ r \in Thread /\ c \in Tcache /\ Fine(r, c) /\ r.pc = "pop" /\ r.next \in Value
      /\ old \in Value /\ SharedOK
  BY Before DEF Pops, PopsPlainly, At, Thread
<1>2. SharedOK'
  BY <1>1 DEF Pops, PopsPlainly, SharedOK, Value, memory
<1>3. CASE r.got = NULL
  <2> DEFINE q == [r EXCEPT !.got = old, !.pc = "more"]
  <2>1. th' = [th EXCEPT ![t] = q] /\ tcache' = tcache
    BY <1>3 DEF Pops, PopsPlainly
  <2> HIDE DEF r, old
  <2>2. q \in Thread /\ q.pc = "more" /\ q.job = r.job /\ (q.init <=> r.init)
    BY <1>1 DEF Thread, Pc
  <2> HIDE DEF q
  <2>3. Fine(q, c)
    BY <1>1, <2>2 DEF Fine
  <2> QED
    BY <1>1, <1>2, <2>1, <2>2, <2>3, Before, OneMoves
<1>4. CASE r.got # NULL
  <2> DEFINE q == [r EXCEPT !.pc = "more"]
             longer == <<old>> \o c.entries
             k == [c EXCEPT !.entries = longer]
  <2>1. th' = [th EXCEPT ![t] = q] /\ tcache' = [tcache EXCEPT ![t] = k]
    BY <1>4 DEF Pops, PopsPlainly, Goto
  <2>2. c.mem # NULL /\ c.entries \in Seq(Value)
    BY <1>1, <1>4 DEF Fine, Tcache
  <2>3. longer \in Seq(Value)
    <3> HIDE DEF old, c
    <3> QED
      BY <1>1, <2>2
  <2> HIDE DEF r, c, longer
  <2>4. q \in Thread /\ q.pc = "more" /\ q.job = r.job /\ (q.init <=> r.init) /\ q.got = r.got
    BY <1>1 DEF Thread, Pc
  <2>5. k \in Tcache /\ k.mem = c.mem /\ (k.shutting_down <=> c.shutting_down)
    BY <1>1, <2>3 DEF Tcache
  <2> HIDE DEF q, k
  <2>6. Fine(q, k)
    BY <1>1, <2>2, <2>4, <2>5 DEF Fine
  <2> QED
    BY <1>2, <2>1, <2>4, <2>5, <2>6, OneMoves
<1> QED
  BY <1>3, <1>4

\* The tcache comes into being, or the call ends; a thread that shuts down never
\* comes here for a new tcache.
LEMMA UnlocksKeeps ==
  ASSUME IInv, NEW t \in Threads, Unlocks(t)
  PROVE  IInv'
<1> DEFINE r == th[t]
           c == tcache[t]
           got == r.got
<1>1. /\ r \in Thread /\ c \in Tcache /\ Fine(r, c) /\ r.pc = "unlock" /\ SharedOK
      /\ got \in Value /\ NULL \in Value
  BY Before DEF Unlocks, At, Thread, Value
<1>2. SharedOK'
  BY <1>1 DEF Unlocks, SharedOK, bin, memory
<1>3. CASE r.init
  <2> DEFINE q == [r EXCEPT !.init = FALSE, !.got = NULL, !.pc = "ready"]
             k == [c EXCEPT !.mem = got]
  <2>1. th' = [th EXCEPT ![t] = q] /\ tcache' = [tcache EXCEPT ![t] = k]
    BY <1>3 DEF Unlocks
  <2>2. c.mem = NULL /\ ~c.shutting_down /\ c.entries = <<>> /\ r.job # "exit"
    BY <1>1, <1>3 DEF Fine
  <2> HIDE DEF r, c, got
  <2>3. q \in Thread /\ q.pc = "ready" /\ q.job = r.job /\ ~q.init /\ q.got = NULL
    BY <1>1 DEF Thread, Pc
  <2>4. k \in Tcache /\ k.entries = c.entries
    BY <1>1 DEF Tcache
  <2> HIDE DEF q, k
  <2>5. Fine(q, k)
    BY <2>2, <2>3, <2>4 DEF Fine
  <2> QED
    BY <1>2, <2>1, <2>3, <2>4, <2>5, OneMoves
<1>4. CASE ~r.init /\ r.job = "exit"
  <2> DEFINE q == [Idle EXCEPT !.pc = "exited"]
  <2>1. th' = [th EXCEPT ![t] = q] /\ tcache' = tcache
    BY <1>4 DEF Unlocks
  <2>2. q \in Thread /\ q.pc = "exited" /\ q.job = "none" /\ ~q.init
    BY IdleIsThread DEF Thread, Pc
  <2>3. Fine(q, c)
    <3>1. c.mem = NULL /\ c.entries = <<>>
      BY <1>1, <1>4 DEF Fine
    <3> HIDE DEF q, c
    <3> QED
      BY <2>2, <3>1 DEF Fine
  <2> HIDE DEF q
  <2> QED
    BY <1>1, <1>2, <2>1, <2>2, <2>3, Before, OneMoves
<1>5. CASE ~r.init /\ r.job # "exit"
  <2>1. th' = [th EXCEPT ![t] = Idle] /\ tcache' = tcache
    BY <1>5 DEF Unlocks
  <2>2. Fine(Idle, c)
    BY <1>1, IdleIsThread DEF Fine
  <2> QED
    BY <1>1, <1>2, <2>1, <2>2, IdleIsThread, Before, OneMoves
<1> QED
  BY <1>3, <1>4, <1>5

----------------------------------------------------------------------------
LEMMA NextKeeps ==
  IInv /\ [Next]_vars => IInv'
<1> SUFFICES ASSUME IInv, [Next]_vars PROVE IInv'
  OBVIOUS
<1>1. CASE UNCHANGED vars
  BY <1>1 DEF vars, bin, memory, IInv, TypeOK
<1>2. ASSUME NEW t \in Threads, Malloc(t) \/ MallocTrim(t)
      PROVE  IInv'
  <2>1. NULL \in Value /\ SharedOK'
    BY <1>2, Before DEF Malloc, MallocTrim, SharedOK, Value, bin, memory
  <2>2. tcache' = tcache /\ (Calls(t, "malloc", NULL) \/ Calls(t, "trim", NULL))
    BY <1>2 DEF Malloc, MallocTrim
  <2> QED
    BY <2>1, <2>2, CallsKeep
<1>3. ASSUME NEW t \in Threads, NEW c \in held, Free(t, c)
      PROVE  IInv'
  <2>1. c \in Value /\ SharedOK' /\ tcache' = tcache /\ Calls(t, "free", c)
    BY <1>3, Before DEF Free, SharedOK, bin, memory
  <2> QED
    BY <2>1, CallsKeep
<1>4. ASSUME NEW t \in Threads, Step(t)
      PROVE  IInv'
  BY <1>4, GotosKeep, ShutdownKeeps, InitsTcacheKeeps, TcacheServesKeeps, TcacheTakesKeeps,
     ReadsNextSizeKeeps, PushesKeeps, ReadsFirstKeeps, ReadsSecondKeeps, PopsKeeps, PopFailsKeeps,
     StashesMoreKeeps, ArenaServesKeeps, TakesListKeeps, ConsolidatesKeeps, ReleasesKeeps,
     UnlocksKeeps DEF Step
<1> QED
  BY <1>1, <1>2, <1>3, <1>4, ExitKeeps DEF Next

\* The values all variables have, and what each thread knows of its own tcache.
THEOREM ThreadsInvariant == Spec => []IInv
  BY InitFine, NextKeeps, PTL DEF Spec

\* A thread that has exited has neither a tcache nor entries, though the shutdown of
\* its tcache frees chunks through the same code that sets tcaches up.
THEOREM ExitedThreadKeepsNothing == Spec => []ExitKeepsNothing
<1>1. IInv => ExitKeepsNothing
  BY DEF IInv, Fine, ExitKeepsNothing
<1> QED
  BY <1>1, ThreadsInvariant, PTL
-----------------------------------------------------------------------------
(* Sequences of chunks *)

\* What a chunk put in front does to a sequence without repetitions, and taking
\* the first one away.
LEMMA PutInFront ==
  ASSUME NEW s \in Seq(Chunks), IsInjective(s), NEW x \in Chunks, x \notin Range(s)
  PROVE  /\ <<x>> \o s \in Seq(Chunks) /\ IsInjective(<<x>> \o s)
         /\ \A c : c \in Range(<<x>> \o s) <=> c = x \/ c \in Range(s)
<1> DEFINE l == <<x>> \o s
<1>1. /\ l \in Seq(Chunks) /\ Len(l) = Len(s) + 1 /\ DOMAIN l = 1 .. Len(s) + 1
      /\ l[1] = x /\ \A i \in 1 .. Len(s) : l[i + 1] = s[i]
  OBVIOUS
<1>2. DOMAIN s = 1 .. Len(s) /\ Len(s) \in Nat
  OBVIOUS
<1> HIDE DEF l
<1>3. \A i \in DOMAIN l : i = 1 \/ (i - 1 \in DOMAIN s /\ l[i] = s[i - 1])
  <2> TAKE i \in DOMAIN l
  <2>1. CASE i # 1
    <3>1. i - 1 \in 1 .. Len(s) /\ (i - 1) + 1 = i
      BY <1>1, <1>2, <2>1
    <3> QED
      BY <1>1, <1>2, <3>1
  <2> QED
    BY <2>1
<1>4. \A c : c \in Range(l) <=> c = x \/ c \in Range(s)
  <2> TAKE c
  <2>1. ASSUME c \in Range(s) PROVE c \in Range(l)
    <3>1. PICK i \in DOMAIN s : c = s[i]
      BY <2>1 DEF Range
    <3>2. i + 1 \in DOMAIN l /\ l[i + 1] = c
      BY <1>1, <1>2, <3>1
    <3> QED
      BY <3>2 DEF Range
  <2>2. x \in Range(l)
    <3>1. 1 \in DOMAIN l
      BY <1>1, <1>2
    <3> QED
      BY <1>1, <3>1 DEF Range
  <2>3. ASSUME c \in Range(l) PROVE c = x \/ c \in Range(s)
    BY <1>1, <1>3, <2>3 DEF Range
  <2> QED
    BY <2>1, <2>2, <2>3
<1>5. IsInjective(l)
  <2> SUFFICES ASSUME NEW i \in DOMAIN l, NEW j \in DOMAIN l, l[i] = l[j]
               PROVE  i = j
    BY DEF IsInjective
  <2>1. \A k \in DOMAIN s : s[k] # x
    BY DEF Range
  <2>2. i \in Int /\ j \in Int
    BY <1>1, <1>2
  <2>3. CASE i = 1 \/ j = 1
    BY <1>1, <1>3, <2>1, <2>3
  <2>4. CASE i # 1 /\ j # 1
    <3>1. i - 1 \in DOMAIN s /\ j - 1 \in DOMAIN s /\ s[i - 1] = s[j - 1]
      BY <1>3, <2>4
    <3>2. i - 1 = j - 1
      BY <3>1 DEF IsInjective
    <3> QED
      BY <2>2, <3>2
  <2> QED
    BY <2>3, <2>4
<1> QED
  BY <1>1, <1>4, <1>5 DEF l

LEMMA TakeFirst ==
  ASSUME NEW s \in Seq(Chunks), IsInjective(s), s # <<>>
  PROVE  /\ Head(s) = s[1] /\ Head(s) \in Chunks /\ Head(s) \in Range(s)
         /\ Tail(s) \in Seq(Chunks) /\ IsInjective(Tail(s))
         /\ \A c : c \in Range(Tail(s)) <=> c \in Range(s) /\ c # Head(s)
<1> DEFINE l == Tail(s)
           h == Head(s)
<1>1. /\ l \in Seq(Chunks) /\ h = s[1] /\ h \in Chunks /\ Len(s) \in Nat /\ Len(s) >= 1
      /\ DOMAIN l = 1 .. Len(s) - 1 /\ DOMAIN s = 1 .. Len(s)
      /\ \A i \in 1 .. Len(s) - 1 : l[i] = s[i + 1]
  OBVIOUS
<1> HIDE DEF l, h
<1>2. 1 \in DOMAIN s /\ h \in Range(s)
  BY <1>1 DEF Range
<1>3. \A i \in DOMAIN l : i + 1 \in DOMAIN s /\ l[i] = s[i + 1] /\ i + 1 # 1
  BY <1>1
<1>4. \A c : c \in Range(l) <=> c \in Range(s) /\ c # h
  <2> TAKE c
  <2>1. ASSUME c \in Range(s), c # h PROVE c \in Range(l)
    <3>1. PICK i \in DOMAIN s : c = s[i]
      BY <2>1 DEF Range
    <3>2. i - 1 \in DOMAIN l /\ l[i - 1] = s[(i - 1) + 1] /\ (i - 1) + 1 = i
      BY <1>1, <2>1, <3>1
    <3> QED
      BY <3>1, <3>2 DEF Range
  <2>2. ASSUME c \in Range(l) PROVE c \in Range(s) /\ c # h
    <3>1. PICK i \in DOMAIN l : c = l[i]
      BY <2>2 DEF Range
    <3>2. i + 1 \in DOMAIN s /\ c = s[i + 1] /\ i + 1 # 1
      BY <1>3, <3>1
    <3>3. c # s[1]
      BY <1>2, <3>2 DEF IsInjective
    <3> QED
      BY <1>1, <3>2, <3>3 DEF Range
  <2> QED
    BY <2>1, <2>2
<1>5. IsInjective(l)
  <2> SUFFICES ASSUME NEW i \in DOMAIN l, NEW j \in DOMAIN l, l[i] = l[j]
               PROVE  i = j
    BY DEF IsInjective
  <2>1. i + 1 \in DOMAIN s /\ j + 1 \in DOMAIN s /\ s[i + 1] = s[j + 1]
    BY <1>3
  <2>2. i + 1 = j + 1
    BY <2>1 DEF IsInjective
  <2>3. i \in Int /\ j \in Int
    BY <1>1
  <2> QED
    BY <2>2, <2>3
<1> QED
  BY <1>1, <1>2, <1>4, <1>5 DEF l, h

LEMMA NothingThere == <<>> \in Seq(Chunks) /\ IsInjective(<<>>) /\ \A c : c \notin Range(<<>>)
  BY DEF IsInjective, Range

\* s are the chunks of the list that starts at c when f has the links.
IsList(s, c, f) ==
  /\ s \in Seq(Chunks) /\ IsInjective(s)
  /\ c = IF s = <<>> THEN NULL ELSE s[1]
  /\ \A i \in 1 .. Len(s) : f[s[i]] = IF i = Len(s) THEN NULL ELSE s[i + 1]

LEMMA EmptyList == ASSUME NEW f PROVE IsList(<<>>, NULL, f)
  BY NothingThere DEF IsList

LEMMA ListStart ==
  ASSUME NEW s, NEW c, NEW f, IsList(s, c, f)
  PROVE  /\ s \in Seq(Chunks) /\ IsInjective(s)
         /\ c = NULL <=> s = <<>>
         /\ c # NULL => c \in Chunks /\ c \in Range(s) /\ c = Head(s)
<1>1. s \in Seq(Chunks) /\ IsInjective(s)
  BY DEF IsList
<1>2. CASE s = <<>>
  BY <1>1, <1>2 DEF IsList
<1>3. CASE s # <<>>
  BY <1>1, <1>3, TakeFirst, ChunkAssumption DEF IsList
<1> QED
  BY <1>2, <1>3

\* Links of chunks that are not in the list do not matter.
LEMMA ListKept ==
  ASSUME NEW s, NEW c, NEW f, IsList(s, c, f), NEW g, \A x \in Range(s) : g[x] = f[x]
  PROVE  IsList(s, c, g)
<1>1. s \in Seq(Chunks)
  BY DEF IsList
<1>2. \A i \in 1 .. Len(s) : s[i] \in Range(s)
  BY <1>1 DEF Range
<1> QED
  BY <1>2 DEF IsList

LEMMA ListPush ==
  ASSUME NEW s, NEW c, NEW f, IsList(s, c, f), NEW x \in Chunks, x \notin Range(s), f[x] = c
  PROVE  IsList(<<x>> \o s, x, f)
<1> DEFINE l == <<x>> \o s
<1>1. s \in Seq(Chunks) /\ Len(s) \in Nat
  BY DEF IsList
<1>2. l \in Seq(Chunks) /\ IsInjective(l)
  BY <1>1, PutInFront DEF IsList
<1>3. /\ Len(l) = Len(s) + 1 /\ l[1] = x /\ l # <<>>
      /\ \A i \in 1 .. Len(s) : l[i + 1] = s[i]
  BY <1>1
<1> HIDE DEF l
<1>4. ASSUME NEW i \in 1 .. Len(l)
      PROVE  f[l[i]] = IF i = Len(l) THEN NULL ELSE l[i + 1]
  <2>1. CASE i = 1 /\ Len(s) = 0
    <3>1. s = <<>>
      BY <1>1, <2>1
    <3> QED
      BY <1>3, <2>1, <3>1 DEF IsList
  <2>2. CASE i = 1 /\ Len(s) # 0
    <3>1. s # <<>> /\ 1 \in 1 .. Len(s)
      BY <1>1, <2>2
    <3>2. l[1 + 1] = s[1]
      BY <1>3, <3>1
    <3> QED
      BY <1>1, <1>3, <2>2, <3>1, <3>2 DEF IsList
  <2>3. CASE i # 1
    <3>1. PICK j \in 1 .. Len(s) : i = j + 1
      <4>1. i - 1 \in 1 .. Len(s) /\ i = (i - 1) + 1
        BY <1>1, <1>3, <2>3
      <4> QED
        BY <4>1
    <3>2. f[s[j]] = IF j = Len(s) THEN NULL ELSE s[j + 1]
      BY DEF IsList
    <3>3. l[i] = s[j] /\ (i = Len(l) <=> j = Len(s))
      BY <1>1, <1>3, <3>1
    <3>4. j # Len(s) => l[i + 1] = s[j + 1]
      BY <1>1, <1>3, <3>1
    <3> QED
      BY <3>2, <3>3, <3>4
  <2> QED
    BY <2>1, <2>2, <2>3
<1> QED
  BY <1>2, <1>3, <1>4 DEF IsList, l

LEMMA ListPop ==
  ASSUME NEW s, NEW c, NEW f, IsList(s, c, f), c # NULL
  PROVE  /\ c \in Chunks /\ c \in Range(s)
         /\ IsList(Tail(s), f[c], f)
         /\ \A x : x \in Range(Tail(s)) <=> x \in Range(s) /\ x # c
<1> DEFINE l == Tail(s)
<1>1. s \in Seq(Chunks) /\ IsInjective(s) /\ s # <<>> /\ c = Head(s) /\ c \in Chunks /\ c \in Range(s)
  BY ListStart
<1>2. /\ l \in Seq(Chunks) /\ IsInjective(l)
      /\ \A x : x \in Range(l) <=> x \in Range(s) /\ x # c
  BY <1>1, TakeFirst
<1>3. /\ Len(s) \in Nat /\ Len(s) >= 1 /\ Len(l) = Len(s) - 1 /\ c = s[1]
      /\ \A i \in 1 .. Len(l) : l[i] = s[i + 1]
      /\ (l = <<>> <=> Len(s) = 1)
  <2>1. Len(s) \in Nat /\ Len(s) >= 1
    BY <1>1
  <2>2. c = s[1]
    BY <1>1
  <2>3. Len(l) = Len(s) - 1 /\ \A i \in 1 .. Len(l) : l[i] = s[i + 1]
    BY <1>1
  <2>4. l = <<>> <=> Len(l) = 0
    <3>1. \A x \in Seq(Chunks) : x = <<>> <=> Len(x) = 0
      OBVIOUS
    <3> HIDE DEF l
    <3> QED
      BY <1>2, <3>1
  <2> QED
    BY <2>1, <2>2, <2>3, <2>4
<1> HIDE DEF l
<1>4. f[c] = IF Len(s) = 1 THEN NULL ELSE s[2]
  BY <1>3 DEF IsList
<1>5. f[c] = IF l = <<>> THEN NULL ELSE l[1]
  BY <1>3, <1>4
<1>6. ASSUME NEW i \in 1 .. Len(l)
      PROVE  f[l[i]] = IF i = Len(l) THEN NULL ELSE l[i + 1]
  <2>1. i + 1 \in 1 .. Len(s) /\ l[i] = s[i + 1] /\ (i = Len(l) <=> i + 1 = Len(s))
    BY <1>3
  <2>2. f[s[i + 1]] = IF i + 1 = Len(s) THEN NULL ELSE s[(i + 1) + 1]
    BY <2>1 DEF IsList
  <2>3. i # Len(l) => l[i + 1] = s[(i + 1) + 1]
    BY <1>3
  <2> QED
    BY <2>1, <2>2, <2>3
<1> QED
  BY <1>1, <1>2, <1>5, <1>6 DEF IsList, l

-----------------------------------------------------------------------------
(* Who has which chunk *)

\* Places of a thread that frees into the fast bin, and those it comes to with the
\* mutex only.
FreePc == {"check", "recheck", "flag", "link", "push"}
Locked == {"first", "second", "pop", "more", "clear", "swap", "walk", "search",
           "trim", "top", "release", "unlock"}

\* Where a free with the mutex goes on once the chunk is in the arena.
Trimming == {"clear", "swap", "walk", "trim", "top", "unlock"}

\* The thread has a chunk to free.
Frees(r) == r.job = "free" \/ (r.job = "exit" /\ r.pc \in FreePc \cup {"start", "ready"})

\* What thread t, whose record is r, holds at each place when m has the mutex.
Known(t, r, m) ==
  /\ r.pc \in Locked => m = t
  /\ r.pc \in {"idle", "exited"} => r.job = "none"
  /\ r.job = "exit" => r.pc \in FreePc \cup Trimming \cup {"shutdown", "start", "ready", "lock", "release"}
  /\ r.pc = "release" => r.job = "exit"
  /\ r.pc = "shutdown" => r.job = "exit"
  /\ r.pc \in Locked /\ ~r.init => r.job # "free"
  /\ IF Frees(r) THEN r.p \in Chunks ELSE r.p = NULL
  /\ r.got \in Chunks \cup {NULL}
  /\ r.job = "exit" => (r.got = NULL <=> r.pc \in Trimming)
  /\ r.job # "exit" /\ r.got # NULL => r.pc \in {"second", "pop", "more", "unlock"}
  /\ r.todo \in Seq(Chunks)
  /\ r.todo # <<>> => r.job = "exit" /\ r.pc \in FreePc \cup {"shutdown", "start", "ready"}

Knows == \A t \in Threads : Known(t, th[t], mutex)

\* top is smaller than all the memory of the arena, but for a moment of systrim.
Room ==
  \/ top_size < system_mem
  \/ top_size = system_mem /\ \E t \in Threads : th[t].pc = "top"

\* The kinds of places a chunk can be at; the first four belong to no thread.
Common == {"arena", "held", "fast", "walk"}
Kind == Common \cup {"p", "got", "mem", "todo", "entries"}

\* What thread t has, with record r and tcache k, is what kind and by say it has.
Sits(kind, by, t, r, k) ==
  /\ IsInjective(r.todo) /\ IsInjective(k.entries)
  /\ k.mem \in Chunks \cup {NULL} /\ k.entries \in Seq(Chunks)
  /\ \A c \in Chunks :
       /\ (kind[c] = "p" /\ by[c] = t) <=> c = r.p
       /\ (kind[c] = "got" /\ by[c] = t) <=> c = r.got
       /\ (kind[c] = "mem" /\ by[c] = t) <=> c = k.mem
       /\ (kind[c] = "todo" /\ by[c] = t) <=> c \in Range(r.todo)
       /\ (kind[c] = "entries" /\ by[c] = t) <=> c \in Range(k.entries)

\* A thread that removes from the fast bin knows a chunk of it, and its link; one
\* that consolidates has the rest of the list it took.
Looks(r, f, fast, walk) ==
  /\ r.pc \in {"second", "pop"} => r.old \in Range(fast)
  /\ r.pc = "pop" => r.next = f[r.old]
  /\ r.pc = "walk" => IsList(walk, r.old, f)

\* What no thread has to itself.
SharedOwned(kind, fast, walk) ==
  /\ arena \subseteq Chunks /\ held \subseteq Chunks
  /\ IsList(fast, fb, fd)
  /\ walk \in Seq(Chunks) /\ IsInjective(walk)
  /\ \A c \in Chunks :
       /\ kind[c] = "arena" <=> c \in arena
       /\ kind[c] = "held" <=> c \in held
       /\ kind[c] = "fast" <=> c \in Range(fast)
       /\ kind[c] = "walk" <=> c \in Range(walk)

Owner(kind, by) ==
  /\ kind \in [Chunks -> Kind] /\ by \in [Chunks -> Threads \cup {NULL}]
  /\ \A c \in Chunks : by[c] = NULL <=> kind[c] \in Common

Owners(kind, by, fast, walk) ==
  /\ Owner(kind, by)
  /\ SharedOwned(kind, fast, walk)
  /\ \A t \in Threads : /\ Sits(kind, by, t, th[t], tcache[t])
                        /\ Looks(th[t], fd, fast, walk)
  /\ walk # <<>> => \E t \in Threads : th[t].pc = "walk"

\* The inductive invariant: every chunk has one owner.
Owned == \E kind, by, fast, walk : Owners(kind, by, fast, walk)
OInv == Knows /\ Room /\ ~died /\ Owned

-----------------------------------------------------------------------------
(* Steps of one thread *)

LEMMA KnowsMoves ==
  ASSUME IInv, Knows, NEW t \in Threads, NEW q, th' = [th EXCEPT ![t] = q],
         Known(t, q, mutex'), mutex' = mutex \/ mutex \in {NULL, t}
  PROVE  Knows'
<1>1. th \in [Threads -> Thread]
  BY DEF IInv, TypeOK
<1>2. th'[t] = q /\ \A s \in Threads : s # t => th'[s] = th[s]
  BY <1>1
<1>3. ASSUME NEW s \in Threads PROVE Known(s, th'[s], mutex')
  <2>1. CASE s = t
    BY <1>2, <2>1
  <2>2. CASE s # t
    <3>1. Known(s, th[s], mutex) /\ th'[s] = th[s]
      BY <1>2, <2>2 DEF Knows
    <3>2. th[s].pc \in Locked => mutex' = s
      BY <2>2, <3>1, ChunkAssumption DEF Known
    <3> QED
      BY <3>1, <3>2 DEF Known
  <2> QED
    BY <2>1, <2>2
<1> QED
  BY <1>3 DEF Knows

LEMMA RoomStays ==
  ASSUME IInv, Room, NEW t \in Threads, NEW q, th' = [th EXCEPT ![t] = q], UNCHANGED memory,
         th[t].pc # "top"
  PROVE  Room'
<1>1. \A s \in Threads : s # t => th'[s] = th[s]
  BY DEF IInv, TypeOK
<1> QED
  BY <1>1 DEF Room, memory

\* From kind and by to kind2 and by2, chunks move between t and what is shared.
Exchange(t, kind, by, kind2, by2) ==
  \A c \in Chunks : \/ (kind2[c] = kind[c] /\ by2[c] = by[c])
                    \/ (by[c] \in {t, NULL} /\ by2[c] \in {t, NULL})

OthersWalk(t) == \E s \in Threads : s # t /\ th[s].pc = "walk"
OthersLook(t, f, fast, walk) == \A s \in Threads : s # t => Looks(th[s], f, fast, walk)

LEMMA OwnersMove ==
  ASSUME IInv, NEW kind, NEW by, NEW fast, NEW walk, Owners(kind, by, fast, walk),
         NEW kind2, NEW by2, NEW fast2, NEW walk2, Owner(kind2, by2),
         NEW t \in Threads,
         Exchange(t, kind, by, kind2, by2),
         SharedOwned(kind2, fast2, walk2)',
         NEW q, th' = [th EXCEPT ![t] = q], NEW k, tcache' = [tcache EXCEPT ![t] = k],
         Sits(kind2, by2, t, q, k), Looks(q, fd', fast2, walk2),
         OthersLook(t, fd', fast2, walk2),
         walk2 # <<>> => q.pc = "walk" \/ OthersWalk(t)
  PROVE  Owners(kind2, by2, fast2, walk2)'
<1>1. th \in [Threads -> Thread] /\ tcache \in [Threads -> Tcache]
  BY DEF IInv, TypeOK
<1>2. /\ th'[t] = q /\ \A s \in Threads : s # t => th'[s] = th[s]
      /\ tcache'[t] = k /\ \A s \in Threads : s # t => tcache'[s] = tcache[s]
  BY <1>1
<1>3. ASSUME NEW s \in Threads
      PROVE  Sits(kind2, by2, s, th'[s], tcache'[s]) /\ Looks(th'[s], fd', fast2, walk2)
  <2>1. CASE s = t
    BY <1>2, <2>1
  <2>2. CASE s # t
    <3>1. Sits(kind, by, s, th[s], tcache[s])
      BY DEF Owners
    <3>2. s # NULL
      BY ChunkAssumption
    <3>3. Sits(kind2, by2, s, th[s], tcache[s])
      <4>1. PICK r, j : r = th[s] /\ j = tcache[s]
        OBVIOUS
      <4>2. ASSUME NEW c \in Chunks
            PROVE  /\ (kind2[c] = "p" /\ by2[c] = s) <=> c = r.p
                   /\ (kind2[c] = "got" /\ by2[c] = s) <=> c = r.got
                   /\ (kind2[c] = "mem" /\ by2[c] = s) <=> c = j.mem
                   /\ (kind2[c] = "todo" /\ by2[c] = s) <=> c \in Range(r.todo)
                   /\ (kind2[c] = "entries" /\ by2[c] = s) <=> c \in Range(j.entries)
        <5>1. (kind2[c] = kind[c] /\ by2[c] = by[c]) \/ (by2[c] # s /\ by[c] # s)
          BY <2>2, <3>2 DEF Exchange
        <5>2. Sits(kind, by, s, r, j)
          BY <3>1, <4>1
        <5> QED
          BY <5>1, <5>2 DEF Sits
      <4> QED
        BY <3>1, <4>1, <4>2 DEF Sits
    <3> QED
      BY <1>2, <2>2, <3>3 DEF OthersLook
  <2> QED
    BY <2>1, <2>2
<1>4. walk2 # <<>> => \E s \in Threads : th'[s].pc = "walk"
  BY <1>2 DEF OthersWalk
<1> QED
  BY <1>3, <1>4 DEF Owners, Owner

\* Nothing changes hands.
LEMMA OwnersStay ==
  ASSUME IInv, Owned, NEW t \in Threads, NEW q, th' = [th EXCEPT ![t] = q],
         UNCHANGED <<tcache, fb, fd, arena, held>>,
         q.p = th[t].p, q.got = th[t].got, q.todo = th[t].todo,
         q.pc \in {"second", "pop"} => \/ q.old = fb /\ fb # NULL
                                       \/ q.old = th[t].old /\ th[t].pc \in {"second", "pop"},
         q.pc = "pop" => q.next = fd[q.old],
         q.pc # "walk", th[t].pc = "walk" => th[t].old = NULL
  PROVE  Owned'
<1>1. PICK kind, by, fast, walk : Owners(kind, by, fast, walk)
  BY DEF Owned
<1>2. PICK k : k = tcache[t]
  OBVIOUS
<1>3. tcache' = [tcache EXCEPT ![t] = k]
  BY <1>2, Before
<1>4. SharedOwned(kind, fast, walk)'
  BY <1>1 DEF Owners, SharedOwned
<1>5. Sits(kind, by, t, q, k)
  BY <1>1, <1>2 DEF Owners, Sits
<1>6. Looks(q, fd', fast, walk)
  BY <1>1, ListStart DEF Owners, SharedOwned, Looks
<1>7. OthersLook(t, fd', fast, walk)
  BY <1>1 DEF Owners, OthersLook
<1>8. walk # <<>> => q.pc = "walk" \/ OthersWalk(t)
  BY <1>1, ListStart DEF Owners, Looks, OthersWalk
<1>9. Owner(kind, by)
  BY <1>1 DEF Owners
<1>10. Exchange(t, kind, by, kind, by)
  BY DEF Exchange
<1>11. Owners(kind, by, fast, walk)'
  BY <1>1, <1>3, <1>4, <1>5, <1>6, <1>7, <1>8, <1>9, <1>10, OwnersMove
<1> QED
  BY <1>11 DEF Owned

\* What is known before a step of t.
LEMMA Facts ==
  ASSUME IInv, OInv, NEW t \in Threads
  PROVE  /\ th[t] \in Thread /\ tcache[t] \in Tcache /\ Fine(th[t], tcache[t])
         /\ Known(t, th[t], mutex) /\ TypeOK /\ SharedOK
         /\ Knows /\ Room /\ ~died /\ Owned
         /\ th = [th EXCEPT ![t] = th[t]] /\ tcache = [tcache EXCEPT ![t] = tcache[t]]
  BY Before DEF OInv, Knows

\* A step that moves no chunk.
LEMMA Stays ==
  ASSUME IInv, OInv, NEW t \in Threads, NEW q, th' = [th EXCEPT ![t] = q],
         UNCHANGED <<tcache, fb, fd, arena, held, memory>>, ~died',
         Known(t, q, mutex'), mutex' = mutex \/ mutex \in {NULL, t},
         q.p = th[t].p, q.got = th[t].got, q.todo = th[t].todo, th[t].pc # "top",
         q.pc \in {"second", "pop"} => \/ q.old = fb /\ fb # NULL
                                       \/ q.old = th[t].old /\ th[t].pc \in {"second", "pop"},
         q.pc = "pop" => q.next = fd[q.old],
         q.pc # "walk", th[t].pc = "walk" => th[t].old = NULL
  PROVE  OInv'
<1>1. Knows'
  BY KnowsMoves DEF OInv
<1>2. Room'
  BY RoomStays DEF OInv
<1>3. Owned'
  BY OwnersStay DEF OInv
<1> QED
  BY <1>1, <1>2, <1>3 DEF OInv

\* The same for a step that only goes to another place.
LEMMA GoesOn ==
  ASSUME IInv, OInv, NEW t \in Threads, NEW pc \in Pc, Goto(t, pc),
         UNCHANGED <<tcache, fb, fd, arena, held, memory>>, ~died',
         mutex' = mutex \/ mutex \in {NULL, t},
         pc \in Locked => mutex' = t /\ (~th[t].init => th[t].job # "free"),
         th[t].job = "none" => pc \notin {"shutdown", "release"},
         pc \notin {"idle", "exited", "shutdown", "second", "pop", "walk"},
         pc = "release" => th[t].job = "exit",
         th[t].job = "exit" =>
           \/ pc \in FreePc /\ th[t].pc \in FreePc \cup {"start", "ready"}
           \/ pc \in {"lock", "release"} /\ th[t].pc \in {"shutdown", "lock"} /\ th[t].todo = <<>>
           \/ pc \in Trimming /\ th[t].pc \in Trimming,
         th[t].job # "exit" => th[t].got = NULL,
         th[t].pc # "top", th[t].pc = "walk" => th[t].old = NULL
  PROVE  OInv'
<1> DEFINE r == th[t]
           q == [r EXCEPT !.pc = pc]
<1>1. r \in Thread /\ Known(t, r, mutex)
  BY Facts
<1>2. th' = [th EXCEPT ![t] = q]
  BY DEF Goto
<1>3. PICK x : x = r
  OBVIOUS
<1>4. PICK y : y = [x EXCEPT !.pc = pc]
  OBVIOUS
<1>5. y.pc = pc /\ y.job = x.job /\ (y.init <=> x.init) /\ y.p = x.p /\ y.got = x.got /\ y.todo = x.todo
  BY <1>1, <1>3, <1>4 DEF Thread, Pc
<1>6. y = q
  BY <1>3, <1>4
<1> HIDE DEF q
<1>7. Known(t, y, mutex')
  <2>1. Frees(x) <=> Frees(y)
    BY <1>1, <1>3, <1>5 DEF Frees, Known, FreePc, Trimming
  <2> QED
    BY <1>1, <1>3, <1>5, <2>1 DEF Known, FreePc, Locked, Trimming
<1> QED
  BY <1>2, <1>3, <1>5, <1>6, <1>7, Stays

-----------------------------------------------------------------------------
(* Steps that move no chunk *)

LEMMA GotosOwn ==
  ASSUME IInv, OInv, NEW t \in Threads,
         \/ WantsMutex(t) \/ ChecksNextSize(t) \/ ChecksWithMutex(t) \/ SetsFlag(t)
         \/ Locks(t) \/ KeepsTop(t) \/ ArenaIsEmpty(t) \/ ClearsFlag(t) \/ HasConsolidated(t)
  PROVE  OInv'
<1>1. /\ th[t] \in Thread /\ Fine(th[t], tcache[t]) /\ Known(t, th[t], mutex) /\ ~died /\ Room /\ Knows
  BY Facts
<1>2. CASE WantsMutex(t)
  <2>1. /\ th[t].pc \in {"start", "ready"} /\ th[t].job \in {"malloc", "trim"} /\ ~died'
        /\ Goto(t, "lock") /\ UNCHANGED <<tcache, fb, fd, arena, held, memory, mutex>>
    BY <1>1, <1>2 DEF WantsMutex, Ready, At, bin
  <2> QED
    BY <1>1, <2>1, GoesOn DEF Pc, Known, Locked, FreePc, Trimming
<1>3. CASE ChecksNextSize(t)
  <2>1. /\ th[t].pc = "check" /\ ~died' /\ (Goto(t, "recheck") \/ Goto(t, "flag"))
        /\ UNCHANGED <<tcache, fb, fd, arena, held, memory, mutex>>
    BY <1>1, <1>3 DEF ChecksNextSize, At, bin
  <2> QED
    BY <1>1, <2>1, GoesOn DEF Pc, Known, Locked, FreePc, Trimming
<1>4. CASE ChecksWithMutex(t)
  <2>1. /\ th[t].pc = "recheck" /\ Goto(t, "flag") /\ mutex = NULL /\ died' = StillTooLarge
        /\ UNCHANGED <<tcache, fb, fd, arena, held, memory, mutex>>
    BY <1>1, <1>4 DEF ChecksWithMutex, At, bin
  <2>2. \A s \in Threads : th[s].pc # "top"
    BY <1>1, <2>1, ChunkAssumption DEF Knows, Known, Locked
  <2>3. top_size < system_mem /\ top_size \in Int /\ system_mem \in Int
    BY <1>1, <2>2, Facts DEF Room, SharedOK
  <2>4. ~died'
    <3>1. ~StillTooLarge
      BY <2>3 DEF StillTooLarge
    <3> QED
      BY <2>1, <3>1, Zenon
  <2> QED
    BY <1>1, <2>1, <2>4, GoesOn DEF Pc, Known, Locked, FreePc, Trimming
<1>5. CASE SetsFlag(t)
  <2>1. /\ th[t].pc = "flag" /\ ~died' /\ Goto(t, "link")
        /\ UNCHANGED <<tcache, fb, fd, arena, held, memory, mutex>>
    BY <1>1, <1>5 DEF SetsFlag, At, bin
  <2> QED
    BY <1>1, <2>1, GoesOn DEF Pc, Known, Locked, FreePc, Trimming
<1>6. CASE Locks(t)
  <2>1. /\ th[t].pc = "lock" /\ ~died' /\ mutex = NULL /\ mutex' = t
        /\ UNCHANGED <<tcache, fb, fd, arena, held, memory>>
    BY <1>1, <1>6 DEF Locks, At, bin
  <2>2. th[t].todo = <<>>
    BY <1>1, <2>1 DEF Known, FreePc, Trimming
  <2>3. CASE th[t].init
    <3>1. Goto(t, "search") /\ th[t].job # "exit"
      BY <1>1, <1>6, <2>3 DEF Locks, Fine
    <3> QED
      BY <1>1, <2>1, <2>3, <3>1, GoesOn DEF Pc, Known, Locked, FreePc, Trimming
  <2>4. CASE ~th[t].init
    <3>1. th[t].job \in {"malloc", "trim", "exit"}
      BY <1>1, <2>1, <2>4 DEF Fine
    <3>2. CASE th[t].job = "malloc"
      <4>1. Goto(t, "first")
        BY <1>6, <2>4, <3>2 DEF Locks
      <4> QED
        BY <1>1, <2>1, <3>2, <4>1, GoesOn DEF Pc, Known, Locked, FreePc, Trimming
    <3>3. CASE th[t].job = "trim"
      <4>1. Goto(t, "clear")
        BY <1>6, <2>4, <3>3 DEF Locks
      <4> QED
        BY <1>1, <2>1, <3>3, <4>1, GoesOn DEF Pc, Known, Locked, FreePc, Trimming
    <3>4. CASE th[t].job = "exit"
      <4>1. Goto(t, "release")
        BY <1>6, <2>4, <3>4 DEF Locks
      <4> QED
        BY <1>1, <2>1, <2>2, <3>4, <4>1, GoesOn DEF Pc, Known, Locked, FreePc, Trimming
    <3> QED
      BY <3>1, <3>2, <3>3, <3>4
  <2> QED
    BY <2>3, <2>4
<1>7. CASE KeepsTop(t)
  <2>1. /\ th[t].pc = "trim" /\ ~died' /\ Goto(t, "unlock")
        /\ UNCHANGED <<tcache, fb, fd, arena, held, memory, mutex>>
    BY <1>1, <1>7 DEF KeepsTop, At, bin
  <2> QED
    BY <1>1, <2>1, GoesOn DEF Pc, Known, Locked, FreePc, Trimming
<1>8. CASE ArenaIsEmpty(t)
  <2>1. /\ th[t].pc = "search" /\ ~died' /\ (Goto(t, "clear") \/ Goto(t, "unlock"))
        /\ UNCHANGED <<tcache, fb, fd, arena, held, memory, mutex>>
    BY <1>1, <1>8 DEF ArenaIsEmpty, At, bin
  <2> QED
    BY <1>1, <2>1, GoesOn DEF Pc, Known, Locked, FreePc, Trimming
<1>9. CASE ClearsFlag(t)
  <2>1. /\ th[t].pc = "clear" /\ ~died' /\ Goto(t, "swap")
        /\ UNCHANGED <<tcache, fb, fd, arena, held, memory, mutex>>
    BY <1>1, <1>9 DEF ClearsFlag, At
  <2> QED
    BY <1>1, <2>1, GoesOn DEF Pc, Known, Locked, FreePc, Trimming
<1>10. CASE HasConsolidated(t)
  <2>1. /\ th[t].pc = "walk" /\ th[t].old = NULL /\ ~died'
        /\ IF th[t].job \in {"trim", "exit"} THEN Goto(t, "trim") ELSE Goto(t, "search")
        /\ UNCHANGED <<tcache, fb, fd, arena, held, memory, mutex>>
    BY <1>1, <1>10 DEF HasConsolidated, At, bin
  <2> QED
    BY <1>1, <2>1, GoesOn DEF Pc, Known, Locked, FreePc, Trimming
<1> QED
  BY <1>2, <1>3, <1>4, <1>5, <1>6, <1>7, <1>8, <1>9, <1>10

\* systrim lowers system_mem before top, so the two are equal in between.
LEMMA TrimsOwn ==
  ASSUME IInv, OInv, NEW t \in Threads, LowersSystemMem(t) \/ LowersTop(t)
  PROVE  OInv'
<1> DEFINE pc == IF LowersTop(t) THEN "unlock" ELSE "top"
           r == th[t]
           q == [r EXCEPT !.pc = pc]
<1>1. /\ r \in Thread /\ Known(t, r, mutex) /\ ~died /\ Room /\ Knows
      /\ top_size \in Int /\ system_mem \in Int
  BY Facts DEF SharedOK
<1>2. /\ r.pc \in {"trim", "top"} /\ ~died' /\ UNCHANGED <<tcache, fb, fd, arena, held, mutex>>
      /\ th' = [th EXCEPT ![t] = q]
  BY <1>1 DEF LowersSystemMem, LowersTop, At, bin, Goto
<1>3. pc \in {"unlock", "top"} /\ (pc = "top" <=> ~LowersTop(t))
  OBVIOUS
<1>4. PICK x, y, to : x = r /\ y = q /\ to = pc
  OBVIOUS
<1> HIDE DEF pc
<1>5. /\ y.pc = to /\ y.job = x.job /\ (y.init <=> x.init) /\ y.p = x.p /\ y.got = x.got /\ y.todo = x.todo
  BY <1>1, <1>3, <1>4 DEF Thread, Pc
<1> HIDE DEF q
<1>6. Known(t, y, mutex')
  <2>1. to \in {"unlock", "top"} /\ x.pc \in {"trim", "top"} /\ mutex' = mutex /\ Known(t, x, mutex)
    BY <1>1, <1>2, <1>3, <1>4
  <2>2. Frees(x) <=> Frees(y)
    BY <1>5, <2>1 DEF Frees, FreePc
  <2> QED
    BY <1>5, <2>1, <2>2 DEF Known, FreePc, Locked, Trimming
<1>7. Knows'
  BY <1>1, <1>2, <1>4, <1>6, KnowsMoves
<1>8. Room'
  <2>1. th'[t].pc = pc
    BY <1>2, <1>4, <1>5 DEF IInv, TypeOK
  <2>2. \A s \in Threads : th[s].pc = "top" => s = t
    BY <1>1, <1>2 DEF Knows, Known, Locked
  <2>3. CASE LowersTop(t)
    BY <1>1, <2>3 DEF LowersTop, Room
  <2>4. CASE LowersSystemMem(t) /\ ~LowersTop(t)
    <3>1. r.pc = "trim" /\ top_size' = top_size /\ system_mem' = system_mem - 1
      BY <2>4 DEF LowersSystemMem, At
    <3>2. top_size < system_mem
      BY <1>1, <2>2, <3>1 DEF Room
    <3> QED
      BY <1>1, <1>3, <2>1, <2>4, <3>1, <3>2 DEF Room
  <2> QED
    BY <2>3, <2>4
<1>9. Owned'
  BY <1>1, <1>2, <1>3, <1>4, <1>5, Facts, OwnersStay
<1> QED
  BY <1>2, <1>7, <1>8, <1>9 DEF OInv

\* Once more with the fields of the next record.
LEMMA SameHands ==
  ASSUME IInv, OInv, NEW t \in Threads, NEW q, th' = [th EXCEPT ![t] = q],
         UNCHANGED <<tcache, fb, fd, arena, held, memory, mutex>>, ~died',
         q.job = th[t].job, q.p = th[t].p, q.got = th[t].got, q.todo = th[t].todo,
         q.pc \in Locked => th[t].pc \in Locked /\ (q.init <=> th[t].init),
         q.pc \notin {"idle", "exited", "shutdown", "release", "walk"},
         th[t].job = "exit" => q.pc \in FreePc /\ th[t].pc \in FreePc \cup {"start", "ready"},
         th[t].job # "exit" /\ th[t].got # NULL => q.pc \in {"second", "pop", "more", "unlock"},
         th[t].pc \notin {"top", "walk"},
         q.pc \in {"second", "pop"} => \/ q.old = fb /\ fb # NULL
                                       \/ q.old = th[t].old /\ th[t].pc \in {"second", "pop"},
         q.pc = "pop" => q.next = fd[q.old]
  PROVE  OInv'
<1>1. PICK x : x = th[t]
  OBVIOUS
<1>2. Known(t, x, mutex)
  BY <1>1, Facts
<1>3. Frees(x) <=> Frees(q)
  BY <1>1 DEF Frees
<1>4. Known(t, q, mutex')
  BY <1>1, <1>2, <1>3 DEF Known, FreePc, Locked, Trimming
<1> QED
  BY <1>4, Stays

LEMMA ReadsFirstOwns ==
  ASSUME IInv, OInv, NEW t \in Threads, ReadsFirst(t)
  PROVE  OInv'
<1> DEFINE to == IF fb = NULL THEN "search" ELSE "second"
<1>1. PICK x, pc, f : x = th[t] /\ pc = to /\ f = fb
  OBVIOUS
<1>2. PICK q : q = [x EXCEPT !.old = f, !.pc = pc]
  OBVIOUS
<1>3. /\ x \in Thread /\ x.pc = "first" /\ Known(t, x, mutex) /\ ~died' /\ Fine(x, tcache[t])
      /\ UNCHANGED <<tcache, fb, fd, arena, held, memory, mutex>>
      /\ th' = [th EXCEPT ![t] = q]
  BY <1>1, <1>2, Facts DEF ReadsFirst, At, bin
<1>4. /\ q.pc = pc /\ q.old = f /\ q.job = x.job /\ (q.init <=> x.init) /\ q.p = x.p /\ q.got = x.got
      /\ q.todo = x.todo
  BY <1>2, <1>3 DEF Thread
<1>5. pc \in {"search", "second"} /\ (pc = "second" => fb # NULL)
  BY <1>1
<1>6. x.job = "malloc" /\ x.got = NULL
  BY <1>3 DEF Fine
<1> QED
  BY <1>1, <1>3, <1>4, <1>5, <1>6, SameHands DEF Locked

LEMMA ReadsSecondOwns ==
  ASSUME IInv, OInv, NEW t \in Threads, ReadsSecond(t)
  PROVE  OInv'
<1>1. PICK x, next : x = th[t] /\ next = LinkOf(x.old)
  OBVIOUS
<1>2. PICK q : q = [x EXCEPT !.next = next, !.pc = "pop"]
  OBVIOUS
<1>3. /\ x \in Thread /\ x.pc = "second" /\ Known(t, x, mutex) /\ ~died' /\ Fine(x, tcache[t])
      /\ UNCHANGED <<tcache, fb, fd, arena, held, memory, mutex>>
      /\ th' = [th EXCEPT ![t] = q]
  BY <1>1, <1>2, Facts DEF ReadsSecond, At, bin
<1>4. /\ q.pc = "pop" /\ q.next = next /\ q.old = x.old /\ q.job = x.job /\ (q.init <=> x.init)
      /\ q.p = x.p /\ q.got = x.got /\ q.todo = x.todo
  BY <1>2, <1>3 DEF Thread
<1>5. x.old \in Chunks
  <2>1. PICK kind, by, fast, walk : Owners(kind, by, fast, walk)
    BY Facts DEF Owned
  <2>2. x.old \in Range(fast) /\ fast \in Seq(Chunks)
    BY <1>1, <1>3, <2>1 DEF Owners, SharedOwned, IsList, Looks
  <2> QED
    BY <2>2 DEF Range
<1>6. next = fd[q.old]
  BY <1>1, <1>4, <1>5 DEF LinkOf
<1>7. x.job = "malloc"
  BY <1>3 DEF Fine
<1> QED
  BY <1>1, <1>3, <1>4, <1>6, <1>7, SameHands DEF Locked

LEMMA PopFailsOwns ==
  ASSUME IInv, OInv, NEW t \in Threads, PopFails(t)
  PROVE  OInv'
<1> DEFINE to == IF fb # NULL THEN "second" ELSE IF th[t].got = NULL THEN "search" ELSE "unlock"
<1>1. PICK x, pc, f : x = th[t] /\ pc = to /\ f = fb
  OBVIOUS
<1>2. PICK q : q = [x EXCEPT !.old = f, !.pc = pc]
  OBVIOUS
<1>3. /\ x \in Thread /\ x.pc = "pop" /\ Known(t, x, mutex) /\ ~died' /\ Fine(x, tcache[t])
      /\ UNCHANGED <<tcache, fb, fd, arena, held, memory, mutex>>
      /\ th' = [th EXCEPT ![t] = q]
  BY <1>1, <1>2, Facts DEF PopFails, At, bin
<1>4. /\ q.pc = pc /\ q.old = f /\ q.job = x.job /\ (q.init <=> x.init) /\ q.p = x.p /\ q.got = x.got
      /\ q.todo = x.todo
  BY <1>2, <1>3 DEF Thread
<1>5. /\ pc \in {"search", "second", "unlock"} /\ (pc = "second" => fb # NULL)
      /\ (x.got # NULL => pc \in {"second", "unlock"})
  BY <1>1
<1>6. x.job = "malloc"
  BY <1>3 DEF Fine
<1> QED
  BY <1>1, <1>3, <1>4, <1>5, <1>6, SameHands DEF Locked

LEMMA StashesMoreOwns ==
  ASSUME IInv, OInv, NEW t \in Threads, StashesMore(t)
  PROVE  OInv'
<1> DEFINE more == HasRoom(t) /\ fb # NULL
<1>1. PICK x, f : x = th[t] /\ f = fb
  OBVIOUS
<1>2. PICK q : q = IF more THEN [x EXCEPT !.old = f, !.pc = "second"] ELSE [x EXCEPT !.pc = "unlock"]
  OBVIOUS
<1>3. /\ x \in Thread /\ x.pc = "more" /\ Known(t, x, mutex) /\ ~died' /\ Fine(x, tcache[t])
      /\ UNCHANGED <<tcache, fb, fd, arena, held, memory, mutex>>
      /\ th' = [th EXCEPT ![t] = q]
  BY <1>1, <1>2, Facts DEF StashesMore, At, bin
<1>4. /\ q.job = x.job /\ (q.init <=> x.init) /\ q.p = x.p /\ q.got = x.got /\ q.todo = x.todo
      /\ (q.pc = "second" /\ q.old = f /\ f # NULL) \/ q.pc = "unlock"
  BY <1>1, <1>2, <1>3 DEF Thread
<1>5. x.job = "malloc"
  BY <1>3 DEF Fine
<1> QED
  BY <1>1, <1>3, <1>4, <1>5, SameHands DEF Locked

LEMMA ReadsNextSizeOwns ==
  ASSUME IInv, OInv, NEW t \in Threads, ReadsNextSize(t)
  PROVE  OInv'
<1> DEFINE size == IF th[t].p = BorderChunk THEN top_size ELSE 0
<1>1. PICK x, n : x = th[t] /\ n = size
  OBVIOUS
<1>2. PICK q : q = [x EXCEPT !.seen = n, !.pc = "check"]
  OBVIOUS
<1>3. /\ x \in Thread /\ x.pc \in {"start", "ready"} /\ x.job \in {"free", "exit"}
      /\ Known(t, x, mutex) /\ ~died'
      /\ UNCHANGED <<tcache, fb, fd, arena, held, memory, mutex>>
      /\ th' = [th EXCEPT ![t] = q]
  BY <1>1, <1>2, Facts DEF ReadsNextSize, Ready, At, bin
<1>4. /\ q.pc = "check" /\ q.job = x.job /\ q.p = x.p /\ q.got = x.got /\ q.todo = x.todo
  BY <1>2, <1>3 DEF Thread
<1>5. x.job # "exit" => x.got = NULL
  BY <1>3 DEF Known
<1> QED
  BY <1>1, <1>3, <1>4, <1>5, SameHands DEF Locked, FreePc

LEMMA InitsTcacheOwns ==
  ASSUME IInv, OInv, NEW t \in Threads, InitsTcache(t)
  PROVE  OInv'
<1>1. PICK x : x = th[t]
  OBVIOUS
<1>2. PICK q : q = [x EXCEPT !.pc = "lock", !.init = TRUE]
  OBVIOUS
<1>3. /\ x \in Thread /\ x.pc = "start" /\ Known(t, x, mutex) /\ ~died'
      /\ Fine(x, tcache[t]) /\ tcache[t].mem = NULL /\ ~tcache[t].shutting_down
      /\ UNCHANGED <<tcache, fb, fd, arena, held, memory, mutex>>
      /\ th' = [th EXCEPT ![t] = q]
  BY <1>1, <1>2, Facts DEF InitsTcache, NeedsTcache, At, bin
<1>4. /\ q.pc = "lock" /\ q.job = x.job /\ q.p = x.p /\ q.got = x.got /\ q.todo = x.todo
  BY <1>2, <1>3 DEF Thread
<1>5. x.job # "exit" /\ x.got = NULL
  BY <1>3 DEF Known, Fine
<1> QED
  BY <1>1, <1>3, <1>4, <1>5, SameHands DEF Locked, FreePc

-----------------------------------------------------------------------------
(* Steps that move a chunk *)

\* A call begins: malloc and trim have no chunk, free has one the client had.
LEMMA CallsOwn ==
  ASSUME IInv, OInv, NEW t \in Threads, Malloc(t) \/ MallocTrim(t)
  PROVE  OInv'
<1>1. PICK job \in {"malloc", "trim"} : Calls(t, job, NULL)
  BY DEF Malloc, MallocTrim
<1>2. PICK x, q : x = th[t] /\ q = Start(job, NULL)
  OBVIOUS
<1>3. /\ x \in Thread /\ x.pc = "idle" /\ Known(t, x, mutex) /\ ~died'
      /\ UNCHANGED <<tcache, fb, fd, arena, held, memory, mutex>>
      /\ th' = [th EXCEPT ![t] = q]
  BY <1>1, <1>2, Facts DEF Malloc, MallocTrim, Calls, At, bin
<1>4. /\ q.pc = "start" /\ q.job = job /\ q.p = NULL /\ q.got = NULL /\ q.todo = <<>>
  BY <1>2 DEF Start
<1>5. x.p = NULL /\ x.got = NULL /\ x.todo = <<>>
  BY <1>3 DEF Known, Frees
<1>6. Known(t, q, mutex')
  BY <1>4, NothingThere DEF Known, Frees, Locked, FreePc, Trimming
<1> QED
  BY <1>2, <1>3, <1>4, <1>5, <1>6, Stays DEF Locked

\* A chunk c gets into other hands: of t, or of none.
LEMMA Hands ==
  ASSUME NEW kind, NEW by, Owner(kind, by), NEW t \in Threads, NEW c \in Chunks, by[c] \in {t, NULL},
         NEW nk \in Kind, NEW nb \in {t, NULL}, nb = NULL <=> nk \in Common
  PROVE  \E kind2, by2 :
           /\ Owner(kind2, by2) /\ Exchange(t, kind, by, kind2, by2)
           /\ kind2[c] = nk /\ by2[c] = nb
           /\ \A d \in Chunks : d # c => kind2[d] = kind[d] /\ by2[d] = by[d]
<1> DEFINE kind2 == [kind EXCEPT ![c] = nk]
           by2 == [by EXCEPT ![c] = nb]
<1>1. /\ kind \in [Chunks -> Kind] /\ by \in [Chunks -> Threads \cup {NULL}]
      /\ \A d \in Chunks : by[d] = NULL <=> kind[d] \in Common
  BY DEF Owner
<1>2. kind2[c] = nk /\ by2[c] = nb /\ \A d \in Chunks : d # c => kind2[d] = kind[d] /\ by2[d] = by[d]
  BY <1>1
<1>3. kind2 \in [Chunks -> Kind] /\ by2 \in [Chunks -> Threads \cup {NULL}]
  BY <1>1
<1> HIDE DEF kind2, by2
<1>4. Owner(kind2, by2)
  BY <1>1, <1>2, <1>3 DEF Owner
<1>5. Exchange(t, kind, by, kind2, by2)
  BY <1>2 DEF Exchange
<1> QED
  BY <1>2, <1>4, <1>5

\* What a step that moves chunks has to show.
LEMMA MovesOwn ==
  ASSUME IInv, OInv, NEW kind, NEW by, NEW fast, NEW walk, Owners(kind, by, fast, walk),
         NEW kind2, NEW by2, NEW fast2, NEW walk2, Owner(kind2, by2),
         NEW t \in Threads, Exchange(t, kind, by, kind2, by2),
         SharedOwned(kind2, fast2, walk2)',
         NEW q, th' = [th EXCEPT ![t] = q], NEW k, tcache' = [tcache EXCEPT ![t] = k],
         Sits(kind2, by2, t, q, k), Looks(q, fd', fast2, walk2),
         OthersLook(t, fd', fast2, walk2),
         walk2 # <<>> => q.pc = "walk" \/ OthersWalk(t),
         Known(t, q, mutex'), mutex' = mutex \/ mutex \in {NULL, t},
         UNCHANGED memory, th[t].pc # "top", ~died'
  PROVE  OInv'
<1>1. Owners(kind2, by2, fast2, walk2)'
  BY OwnersMove
<1>2. Knows' /\ Room'
  BY Facts, KnowsMoves, RoomStays
<1> QED
  BY <1>1, <1>2 DEF OInv, Owned

\* With the mutex a thread is alone with the fast bin and its links.
LEMMA Alone ==
  ASSUME IInv, OInv, NEW t \in Threads, th[t].pc \in Locked
  PROVE  /\ \A f, fast, walk : OthersLook(t, f, fast, walk)
         /\ \A kind, by, fast, walk : Owners(kind, by, fast, walk) /\ th[t].pc # "walk" => walk = <<>>
<1>1. \A s \in Threads : s # t => th[s].pc \notin Locked
  BY Facts DEF Knows, Known
<1> QED
  BY <1>1 DEF OthersLook, Looks, Owners, Locked

LEMMA FreeOwns ==
  ASSUME IInv, OInv, NEW t \in Threads, NEW c \in held, Free(t, c)
  PROVE  OInv'
<1>1. PICK x, q, k : x = th[t] /\ q = Start("free", c) /\ k = tcache[t]
  OBVIOUS
<1>2. /\ x \in Thread /\ x.pc = "idle" /\ Known(t, x, mutex) /\ ~died' /\ held' = held \ {c}
      /\ UNCHANGED <<tcache, fb, fd, arena, memory, mutex>>
      /\ th' = [th EXCEPT ![t] = q] /\ tcache' = [tcache EXCEPT ![t] = k]
  BY <1>1, Facts DEF Free, Calls, At, bin
<1>3. /\ q.pc = "start" /\ q.job = "free" /\ q.p = c /\ q.got = NULL /\ q.todo = <<>>
  BY <1>1 DEF Start
<1>4. x.p = NULL /\ x.got = NULL /\ x.todo = <<>>
  BY <1>2 DEF Known, Frees
<1>5. PICK kind, by, fast, walk : Owners(kind, by, fast, walk)
  BY Facts DEF Owned
<1>6. c \in Chunks /\ NULL \notin Chunks /\ t # NULL /\ kind[c] = "held" /\ by[c] = NULL
  BY <1>5, ChunkAssumption DEF Owners, SharedOwned, Owner, Common
<1>7. PICK kind2, by2 :
        /\ Owner(kind2, by2) /\ Exchange(t, kind, by, kind2, by2)
        /\ kind2[c] = "p" /\ by2[c] = t
        /\ \A d \in Chunks : d # c => kind2[d] = kind[d] /\ by2[d] = by[d]
  <2>1. Owner(kind, by) /\ "p" \in Kind /\ "p" \notin Common
    BY <1>5 DEF Owners, Kind, Common
  <2> QED
    BY <1>6, <2>1, Hands
<1>8. Known(t, q, mutex')
  BY <1>3, <1>6, NothingThere DEF Known, Frees, Locked, FreePc, Trimming
<1>9. SharedOwned(kind2, fast, walk)'
  BY <1>2, <1>5, <1>6, <1>7 DEF Owners, SharedOwned
<1>10. Sits(kind2, by2, t, q, k)
  <2>1. Sits(kind, by, t, x, k)
    BY <1>1, <1>5 DEF Owners
  <2> QED
    BY <1>3, <1>4, <1>6, <1>7, <2>1 DEF Sits
<1>11. Looks(q, fd', fast, walk) /\ OthersLook(t, fd', fast, walk)
  BY <1>2, <1>3, <1>5 DEF Owners, Looks, OthersLook
<1>12. walk # <<>> => OthersWalk(t)
  BY <1>1, <1>2, <1>5 DEF Owners, OthersWalk
<1>13. th' = [th EXCEPT ![t] = q] /\ tcache' = [tcache EXCEPT ![t] = k] /\ mutex' = mutex
  BY <1>2
<1>14. UNCHANGED memory /\ ~died' /\ th[t].pc # "top" /\ Owner(kind2, by2)
       /\ Exchange(t, kind, by, kind2, by2)
  BY <1>1, <1>2, <1>7
<1> QED
  BY <1>5, <1>8, <1>9, <1>10, <1>11, <1>12, <1>13, <1>14, MovesOwn

\* A thread exits: its tcache and the entries of it are to be freed.
LEMMA ExitOwns ==
  ASSUME IInv, OInv, NEW t \in Threads, Exit(t)
  PROVE  OInv'
<1>1. PICK x, k : x = th[t] /\ k = tcache[t]
  OBVIOUS
<1>2. /\ x \in Thread /\ x.pc = "idle" /\ Known(t, x, mutex) /\ ~died' /\ k \in Tcache
      /\ UNCHANGED <<fb, fd, arena, held, memory, mutex>>
  BY <1>1, Facts DEF Exit, Exits, At, bin
<1>3. x.p = NULL /\ x.got = NULL /\ x.todo = <<>> /\ x.job = "none"
  BY <1>2 DEF Known, Frees
<1>4. CASE k.mem = NULL
  <2>1. PICK q : q = [x EXCEPT !.pc = "exited"]
    OBVIOUS
  <2>2. th' = [th EXCEPT ![t] = q] /\ tcache' = tcache
    BY <1>1, <1>4, <2>1 DEF Exit, Exits
  <2>3. /\ q.pc = "exited" /\ q.job = x.job /\ q.p = x.p /\ q.got = x.got /\ q.todo = x.todo
    BY <1>2, <2>1 DEF Thread
  <2>4. Known(t, q, mutex')
    BY <1>2, <1>3, <2>3, NothingThere DEF Known, Frees, Locked, FreePc, Trimming
  <2> QED
    BY <1>1, <1>2, <2>2, <2>3, <2>4, Stays
<1>5. CASE k.mem # NULL
  <2>1. PICK m, e : m = k.mem /\ e = k.entries
    OBVIOUS
  <2>2. PICK q, k2 : /\ q = [Start("exit", NULL) EXCEPT !.pc = "shutdown", !.got = m, !.todo = e]
                     /\ k2 = [mem |-> NULL, entries |-> <<>>, shutting_down |-> TRUE]
    OBVIOUS
  <2>3. th' = [th EXCEPT ![t] = q] /\ tcache' = [tcache EXCEPT ![t] = k2]
    BY <1>1, <1>5, <2>1, <2>2 DEF Exit, Exits
  <2>4. /\ q.pc = "shutdown" /\ q.job = "exit" /\ q.p = NULL /\ q.got = m /\ q.todo = e
        /\ k2.mem = NULL /\ k2.entries = <<>>
    BY <2>2 DEF Start
  <2>5. PICK kind, by, fast, walk : Owners(kind, by, fast, walk)
    BY Facts DEF Owned
  <2>6. Sits(kind, by, t, x, k)
    BY <1>1, <2>5 DEF Owners
  <2>7. m \in Chunks /\ e \in Seq(Chunks) /\ IsInjective(e)
    BY <1>5, <2>1, <2>6 DEF Sits
  <2>8. Known(t, q, mutex')
    BY <1>5, <2>1, <2>4, <2>7 DEF Known, Frees, Locked, FreePc, Trimming
  <2> DEFINE kind2 == [c \in Chunks |-> IF by[c] # t THEN kind[c]
                                        ELSE IF kind[c] = "mem" THEN "got"
                                        ELSE IF kind[c] = "entries" THEN "todo" ELSE kind[c]]
  <2>9. /\ kind \in [Chunks -> Kind] /\ by \in [Chunks -> Threads \cup {NULL}]
        /\ \A d \in Chunks : by[d] = NULL <=> kind[d] \in Common
    BY <2>5 DEF Owners, Owner
  <2>10. Owner(kind2, by)
    <3>1. kind2 \in [Chunks -> Kind]
      BY <2>9 DEF Kind
    <3>2. \A d \in Chunks : kind2[d] \in Common <=> kind[d] \in Common
      BY DEF Common
    <3> HIDE DEF kind2
    <3> QED
      BY <2>9, <3>1, <3>2 DEF Owner
  <2>11. Exchange(t, kind, by, kind2, by)
    BY DEF Exchange
  <2>12. SharedOwned(kind2, fast, walk)'
    <3>1. \A d \in Chunks, s \in Common : kind2[d] = s <=> kind[d] = s
      BY <2>9, ChunkAssumption DEF Common
    <3> HIDE DEF kind2
    <3> QED
      BY <1>2, <2>5, <3>1 DEF Owners, SharedOwned, Common
  <2>13. Sits(kind2, by, t, q, k2)
    <3>1. \A d \in Chunks : by[d] = t =>
            kind2[d] = IF kind[d] = "mem" THEN "got" ELSE IF kind[d] = "entries" THEN "todo" ELSE kind[d]
      OBVIOUS
    <3> HIDE DEF kind2
    <3> QED
      BY <1>3, <2>1, <2>4, <2>6, <2>7, <3>1, NothingThere, ChunkAssumption DEF Sits
  <2>14. Looks(q, fd', fast, walk) /\ OthersLook(t, fd', fast, walk)
    BY <1>2, <2>4, <2>5 DEF Owners, Looks, OthersLook
  <2>15. walk # <<>> => OthersWalk(t)
    BY <1>1, <1>2, <2>5 DEF Owners, OthersWalk
  <2> HIDE DEF kind2
  <2> QED
    BY <1>1, <1>2, <2>3, <2>5, <2>8, <2>10, <2>11, <2>12, <2>13, <2>14, <2>15, MovesOwn
<1> QED
  BY <1>4, <1>5

LEMMA ShutdownOwns ==
  ASSUME IInv, OInv, NEW t \in Threads, ShutdownFrees(t)
  PROVE  OInv'
<1>1. PICK x, k : x = th[t] /\ k = tcache[t]
  OBVIOUS
<1>2. /\ x \in Thread /\ x.pc = "shutdown" /\ Known(t, x, mutex) /\ ~died'
      /\ UNCHANGED <<fb, fd, arena, held, memory, mutex, tcache>> /\ tcache' = [tcache EXCEPT ![t] = k]
  BY <1>1, Facts DEF ShutdownFrees, At, bin
<1>3. x.job = "exit" /\ x.p = NULL /\ x.todo \in Seq(Chunks)
  BY <1>2 DEF Known, Frees, FreePc, Trimming
<1>4. CASE x.todo = <<>>
  <2>1. PICK q : q = [x EXCEPT !.pc = "lock"]
    OBVIOUS
  <2>2. th' = [th EXCEPT ![t] = q]
    BY <1>1, <1>4, <2>1 DEF ShutdownFrees
  <2>3. /\ q.pc = "lock" /\ q.job = x.job /\ q.p = x.p /\ q.got = x.got /\ q.todo = x.todo
    BY <1>2, <2>1 DEF Thread
  <2>4. Known(t, q, mutex')
    BY <1>2, <1>3, <1>4, <2>3 DEF Known, Frees, Locked, FreePc, Trimming
  <2> QED
    BY <1>1, <1>2, <2>2, <2>3, <2>4, Stays
<1>5. CASE x.todo # <<>>
  <2>1. PICK c, rest : c = Head(x.todo) /\ rest = Tail(x.todo)
    OBVIOUS
  <2>2. PICK q : q = [x EXCEPT !.pc = "start", !.p = c, !.todo = rest]
    OBVIOUS
  <2>3. th' = [th EXCEPT ![t] = q]
    BY <1>1, <1>5, <2>1, <2>2 DEF ShutdownFrees
  <2>4. /\ q.pc = "start" /\ q.job = x.job /\ q.p = c /\ q.got = x.got /\ q.todo = rest
    BY <1>2, <2>2 DEF Thread
  <2>5. PICK kind, by, fast, walk : Owners(kind, by, fast, walk)
    BY Facts DEF Owned
  <2>6. Sits(kind, by, t, x, k) /\ IsInjective(x.todo)
    BY <1>1, <2>5 DEF Owners, Sits
  <2>7. /\ c \in Chunks /\ c \in Range(x.todo) /\ rest \in Seq(Chunks) /\ IsInjective(rest)
        /\ \A d : d \in Range(rest) <=> d \in Range(x.todo) /\ d # c
    BY <1>3, <1>5, <2>1, <2>6, TakeFirst
  <2>8. kind[c] = "todo" /\ by[c] = t
    BY <2>6, <2>7 DEF Sits
  <2>9. PICK kind2, by2 :
          /\ Owner(kind2, by2) /\ Exchange(t, kind, by, kind2, by2)
          /\ kind2[c] = "p" /\ by2[c] = t
          /\ \A d \in Chunks : d # c => kind2[d] = kind[d] /\ by2[d] = by[d]
    <3>1. Owner(kind, by) /\ "p" \in Kind /\ "p" \notin Common /\ t # NULL
      BY <2>5, ChunkAssumption DEF Owners, Kind, Common
    <3> QED
      BY <2>7, <2>8, <3>1, Hands
  <2>10. Known(t, q, mutex')
    BY <1>2, <1>3, <2>4, <2>7 DEF Known, Frees, Locked, FreePc, Trimming
  <2>11. SharedOwned(kind2, fast, walk)'
    BY <1>2, <2>5, <2>8, <2>9 DEF Owners, SharedOwned
  <2>12. Sits(kind2, by2, t, q, k)
    BY <1>3, <2>4, <2>6, <2>7, <2>8, <2>9, ChunkAssumption DEF Sits
  <2>13. Looks(q, fd', fast, walk) /\ OthersLook(t, fd', fast, walk)
    BY <1>2, <2>4, <2>5 DEF Owners, Looks, OthersLook
  <2>14. walk # <<>> => OthersWalk(t)
    BY <1>1, <1>2, <2>5 DEF Owners, OthersWalk
  <2> QED
    BY <1>1, <1>2, <2>3, <2>5, <2>9, <2>10, <2>11, <2>12, <2>13, <2>14, MovesOwn
<1> QED
  BY <1>4, <1>5

LEMMA TcacheServesOwns ==
  ASSUME IInv, OInv, NEW t \in Threads, TcacheServes(t)
  PROVE  OInv'
<1>1. PICK x, k, q : x = th[t] /\ k = tcache[t] /\ q = Idle
  OBVIOUS
<1>2. PICK c, rest : c = Head(k.entries) /\ rest = Tail(k.entries)
  OBVIOUS
<1>3. PICK k2 : k2 = [k EXCEPT !.entries = rest]
  OBVIOUS
<1>4. /\ x \in Thread /\ x.pc \in {"start", "ready"} /\ x.job = "malloc" /\ Known(t, x, mutex) /\ ~died'
      /\ k \in Tcache /\ k.entries # <<>>
      /\ UNCHANGED <<fb, fd, arena, memory, mutex>> /\ held' = held \cup {c}
      /\ th' = [th EXCEPT ![t] = q] /\ tcache' = [tcache EXCEPT ![t] = k2]
  BY <1>1, <1>2, <1>3, Facts DEF TcacheServes, Ready, At, bin
<1>5. /\ q.pc = "idle" /\ q.job = "none" /\ q.p = NULL /\ q.got = NULL /\ q.todo = <<>>
      /\ k2.mem = k.mem /\ k2.entries = rest
  BY <1>1, <1>3, <1>4 DEF Idle, Start, Tcache
<1>6. x.p = NULL /\ x.got = NULL /\ x.todo = <<>>
  BY <1>4 DEF Known, Frees, FreePc, Trimming
<1>7. PICK kind, by, fast, walk : Owners(kind, by, fast, walk)
  BY Facts DEF Owned
<1>8. Sits(kind, by, t, x, k)
  BY <1>1, <1>7 DEF Owners
<1>9. /\ c \in Chunks /\ c \in Range(k.entries) /\ rest \in Seq(Chunks) /\ IsInjective(rest)
      /\ \A d : d \in Range(rest) <=> d \in Range(k.entries) /\ d # c
  <2>1. k.entries \in Seq(Chunks) /\ IsInjective(k.entries)
    BY <1>8 DEF Sits
  <2> QED
    BY <1>2, <1>4, <2>1, TakeFirst
<1>10. kind[c] = "entries" /\ by[c] = t
  BY <1>8, <1>9 DEF Sits
<1>11. PICK kind2, by2 :
         /\ Owner(kind2, by2) /\ Exchange(t, kind, by, kind2, by2)
         /\ kind2[c] = "held" /\ by2[c] = NULL
         /\ \A d \in Chunks : d # c => kind2[d] = kind[d] /\ by2[d] = by[d]
  <2>1. Owner(kind, by) /\ "held" \in Kind /\ "held" \in Common
    BY <1>7 DEF Owners, Kind, Common
  <2> QED
    BY <1>9, <1>10, <2>1, Hands
<1>12. Known(t, q, mutex')
  BY <1>5, NothingThere DEF Known, Frees, Locked, FreePc, Trimming
<1>13. SharedOwned(kind2, fast, walk)'
  BY <1>4, <1>7, <1>9, <1>10, <1>11 DEF Owners, SharedOwned
<1>14. Sits(kind2, by2, t, q, k2)
  <2>1. t # NULL
    BY ChunkAssumption
  <2> QED
    BY <1>5, <1>6, <1>8, <1>9, <1>10, <1>11, <2>1 DEF Sits
<1>15. Looks(q, fd', fast, walk) /\ OthersLook(t, fd', fast, walk)
  BY <1>4, <1>5, <1>7 DEF Owners, Looks, OthersLook
<1>16. walk # <<>> => OthersWalk(t)
  BY <1>1, <1>4, <1>7 DEF Owners, OthersWalk
<1> QED
  BY <1>1, <1>4, <1>7, <1>11, <1>12, <1>13, <1>14, <1>15, <1>16, MovesOwn

\* Where a free ends, for a call and for a shutdown that goes on.
Freed(x) == IF x.job = "free" THEN Idle ELSE [x EXCEPT !.pc = "shutdown", !.p = NULL]

LEMMA FreeEnds ==
  ASSUME NEW t \in Threads, NEW x \in Thread, NEW m, Known(t, x, m),
         x.job \in {"free", "exit"}, x.pc \in FreePc \cup {"start", "ready"},
         NEW q, q = Freed(x)
  PROVE  /\ x.p \in Chunks /\ q.pc \in {"idle", "shutdown"}
         /\ q.p = NULL /\ q.got = x.got /\ q.todo = x.todo /\ Known(t, q, m)
<1>1. x.p \in Chunks
  BY DEF Known, Frees
<1>2. CASE x.job = "free"
  <2>1. /\ q.pc = "idle" /\ q.job = "none" /\ q.p = NULL /\ q.got = NULL /\ q.todo = <<>>
    BY <1>2 DEF Freed, Idle, Start
  <2>2. x.got = NULL /\ x.todo = <<>>
    BY <1>2 DEF Known, FreePc, Trimming
  <2> QED
    BY <1>1, <2>1, <2>2, NothingThere DEF Known, Frees, Locked, FreePc, Trimming
<1>3. CASE x.job = "exit"
  <2>1. /\ q.pc = "shutdown" /\ q.job = "exit" /\ q.p = NULL /\ q.got = x.got /\ q.todo = x.todo
    BY <1>3 DEF Freed, Thread
  <2> QED
    BY <1>1, <1>3, <2>1 DEF Known, Frees, Locked, FreePc, Trimming
<1> QED
  BY <1>2, <1>3

LEMMA TcacheTakesOwns ==
  ASSUME IInv, OInv, NEW t \in Threads, TcacheTakes(t)
  PROVE  OInv'
<1>1. PICK x, k : x = th[t] /\ k = tcache[t]
  OBVIOUS
<1>2. PICK c, longer : c = x.p /\ longer = <<c>> \o k.entries
  OBVIOUS
<1>3. PICK k2, q : /\ k2 = [k EXCEPT !.entries = longer]
                   /\ q = Freed(x)
  OBVIOUS
<1>4. /\ x \in Thread /\ x.pc \in {"start", "ready"} /\ x.job \in {"free", "exit"} /\ Known(t, x, mutex)
      /\ ~died' /\ k \in Tcache /\ UNCHANGED <<fb, fd, arena, held, memory, mutex>>
      /\ th' = [th EXCEPT ![t] = q] /\ tcache' = [tcache EXCEPT ![t] = k2]
  BY <1>1, <1>2, <1>3, Facts DEF TcacheTakes, Ready, At, bin, Freed
<1>5. k2.mem = k.mem /\ k2.entries = longer
  BY <1>3, <1>4 DEF Tcache
<1>6. /\ c \in Chunks /\ q.pc \in {"idle", "shutdown"}
      /\ q.p = NULL /\ q.got = x.got /\ q.todo = x.todo /\ Known(t, q, mutex')
  <2>1. x.pc \in FreePc \cup {"start", "ready"} /\ q = Freed(x) /\ Known(t, x, mutex') /\ c = x.p
    BY <1>2, <1>3, <1>4
  <2>2. x \in Thread /\ x.job \in {"free", "exit"}
    BY <1>4
  <2> HIDE <1>2, <1>3, <1>4
  <2> QED
    BY <2>1, <2>2, FreeEnds
<1>7. PICK kind, by, fast, walk : Owners(kind, by, fast, walk)
  BY Facts DEF Owned
<1>8. Sits(kind, by, t, x, k)
  BY <1>1, <1>7 DEF Owners
<1>9. kind[c] = "p" /\ by[c] = t
  BY <1>2, <1>6, <1>8 DEF Sits
<1>10. /\ longer \in Seq(Chunks) /\ IsInjective(longer)
       /\ \A d : d \in Range(longer) <=> d = c \/ d \in Range(k.entries)
  <2>1. k.entries \in Seq(Chunks) /\ IsInjective(k.entries) /\ c \notin Range(k.entries)
    BY <1>6, <1>8, <1>9 DEF Sits
  <2> QED
    BY <1>2, <1>6, <2>1, PutInFront
<1>11. PICK kind2, by2 :
         /\ Owner(kind2, by2) /\ Exchange(t, kind, by, kind2, by2)
         /\ kind2[c] = "entries" /\ by2[c] = t
         /\ \A d \in Chunks : d # c => kind2[d] = kind[d] /\ by2[d] = by[d]
  <2>1. Owner(kind, by) /\ "entries" \in Kind /\ "entries" \notin Common /\ t # NULL
    BY <1>7, ChunkAssumption DEF Owners, Kind, Common
  <2> QED
    BY <1>6, <1>9, <2>1, Hands
<1>12. SharedOwned(kind2, fast, walk)'
  BY <1>4, <1>7, <1>9, <1>11 DEF Owners, SharedOwned
<1>13. Sits(kind2, by2, t, q, k2)
  BY <1>2, <1>5, <1>6, <1>8, <1>9, <1>10, <1>11, ChunkAssumption DEF Sits
<1>14. Looks(q, fd', fast, walk) /\ OthersLook(t, fd', fast, walk)
  BY <1>4, <1>6, <1>7 DEF Owners, Looks, OthersLook
<1>15. walk # <<>> => OthersWalk(t)
  BY <1>1, <1>4, <1>7 DEF Owners, OthersWalk
<1> QED
  BY <1>1, <1>4, <1>6, <1>7, <1>11, <1>12, <1>13, <1>14, <1>15, MovesOwn

\* The link of the chunk that is freed is set; nobody else has the chunk.
LEMMA LinkSet ==
  ASSUME IInv, OInv, NEW t \in Threads, NEW q, th' = [th EXCEPT ![t] = q],
         th[t].pc \in {"link", "push"}, NEW p, p = th[t].p,
         fd' = [fd EXCEPT ![p] = fb], died' = (fb = p),
         UNCHANGED <<fb, tcache, arena, held, memory, mutex>>,
         q.pc = "push", q.job = th[t].job, q.p = p, q.got = th[t].got, q.todo = th[t].todo
  PROVE  OInv'
<1>1. PICK x, k : x = th[t] /\ k = tcache[t]
  OBVIOUS
<1>2. /\ x \in Thread /\ Known(t, x, mutex) /\ fd \in [Chunks -> Value] /\ Fine(x, k)
      /\ tcache' = [tcache EXCEPT ![t] = k]
  BY <1>1, Facts DEF SharedOK
<1>3. x.job \in {"free", "exit"} /\ p \in Chunks
  BY <1>1, <1>2 DEF Fine, Known, Frees, FreePc, Trimming
<1>4. PICK kind, by, fast, walk : Owners(kind, by, fast, walk)
  BY Facts DEF Owned
<1>5. Sits(kind, by, t, x, k)
  BY <1>1, <1>4 DEF Owners
<1>6. kind[p] = "p"
  BY <1>1, <1>3, <1>5 DEF Sits
<1>7. p \notin Range(fast) /\ p \notin Range(walk) /\ IsList(fast, fb, fd)
  BY <1>3, <1>4, <1>6 DEF Owners, SharedOwned
<1>8. fb # p
  BY <1>3, <1>7, ListStart, ChunkAssumption
<1>9. ~died'
  BY <1>8, Zenon
<1>10. \A c : c # p => fd'[c] = fd[c]
  BY <1>2
<1>11. IsList(fast, fb, fd')
  BY <1>7, <1>10, ListKept
<1>12. SharedOwned(kind, fast, walk)'
  BY <1>4, <1>11 DEF Owners, SharedOwned
<1>13. Sits(kind, by, t, q, k)
  BY <1>1, <1>5 DEF Sits
<1>14. Looks(q, fd', fast, walk)
  BY DEF Looks
<1>15. OthersLook(t, fd', fast, walk)
  <2> SUFFICES ASSUME NEW s \in Threads PROVE Looks(th[s], fd', fast, walk)
    BY DEF OthersLook
  <2>1. Looks(th[s], fd, fast, walk)
    BY <1>4 DEF Owners
  <2>2. th[s].pc = "walk" => IsList(walk, th[s].old, fd')
    BY <1>7, <1>10, <2>1, ListKept DEF Looks
  <2> QED
    BY <1>7, <1>10, <2>1, <2>2 DEF Looks
<1>16. walk # <<>> => OthersWalk(t)
  BY <1>4 DEF Owners, OthersWalk
<1>17. Known(t, q, mutex')
  <2>1. Frees(x) <=> Frees(q)
    BY <1>1 DEF Frees, FreePc
  <2> QED
    BY <1>1, <1>2, <2>1 DEF Known, FreePc, Locked, Trimming
<1>18. Owner(kind, by) /\ Exchange(t, kind, by, kind, by) /\ th[t].pc # "top"
  BY <1>4 DEF Owners, Exchange
<1> QED
  BY <1>2, <1>4, <1>9, <1>12, <1>13, <1>14, <1>15, <1>16, <1>17, <1>18, MovesOwn

LEMMA LinksOwns ==
  ASSUME IInv, OInv, NEW t \in Threads, Links(t)
  PROVE  OInv'
<1>1. PICK x, p : x = th[t] /\ p = x.p
  OBVIOUS
<1>2. PICK q : q = [x EXCEPT !.pc = "push"]
  OBVIOUS
<1>3. /\ x \in Thread /\ x.pc = "link" /\ th' = [th EXCEPT ![t] = q]
      /\ fd' = [fd EXCEPT ![p] = fb] /\ died' = (fb = p)
      /\ UNCHANGED <<fb, tcache, arena, held, memory, mutex>>
  BY <1>1, <1>2, Facts DEF Links, Goto, At, bin
<1>4. q.pc = "push" /\ q.job = x.job /\ q.p = p /\ q.got = x.got /\ q.todo = x.todo
  BY <1>1, <1>2, <1>3 DEF Thread
<1> QED
  BY <1>1, <1>3, <1>4, LinkSet

LEMMA PushesOwns ==
  ASSUME IInv, OInv, NEW t \in Threads, Pushes(t)
  PROVE  OInv'
<1>1. PICK x, k, p, f : x = th[t] /\ k = tcache[t] /\ p = x.p /\ f = fb
  OBVIOUS
<1>2. /\ x \in Thread /\ x.pc = "push" /\ Known(t, x, mutex) /\ Fine(x, k)
      /\ th = [th EXCEPT ![t] = x] /\ tcache' = [tcache EXCEPT ![t] = k] /\ ~died
      /\ UNCHANGED <<tcache, arena, held, memory, mutex>>
  BY <1>1, Facts DEF Pushes, At
<1>3. x.job \in {"free", "exit"}
  BY <1>2 DEF Fine
<1>4. CASE fb # LinkOf(p)
  <2>1. th' = [th EXCEPT ![t] = x] /\ fd' = [fd EXCEPT ![p] = fb] /\ died' = (fb = p) /\ fb' = fb
    BY <1>1, <1>2, <1>4 DEF Pushes
  <2> QED
    BY <1>1, <1>2, <2>1, LinkSet
<1>5. CASE fb = LinkOf(p)
  <2>1. PICK q : q = Freed(x)
    OBVIOUS
  <2>2. th' = [th EXCEPT ![t] = q] /\ fb' = p /\ fd' = fd /\ ~died'
    BY <1>1, <1>2, <1>5, <2>1 DEF Pushes, Freed
  <2>3. /\ p \in Chunks /\ q.pc \in {"idle", "shutdown"}
        /\ q.p = NULL /\ q.got = x.got /\ q.todo = x.todo /\ Known(t, q, mutex')
    <3>1. x.pc \in FreePc \cup {"start", "ready"}
      BY <1>2 DEF FreePc
    <3>2. x \in Thread /\ Known(t, x, mutex')
      BY <1>2
    <3>3. /\ x.p \in Chunks /\ q.pc \in {"idle", "shutdown"}
          /\ q.p = NULL /\ q.got = x.got /\ q.todo = x.todo /\ Known(t, q, mutex')
      <4> HIDE <1>1, <1>5, <2>2
      <4> QED
        BY <1>3, <2>1, <3>1, <3>2, FreeEnds
    <3> QED
      BY <1>1, <3>3
  <2>4. PICK kind, by, fast, walk : Owners(kind, by, fast, walk)
    BY Facts DEF Owned
  <2>5. Sits(kind, by, t, x, k)
    BY <1>1, <2>4 DEF Owners
  <2>6. kind[p] = "p" /\ by[p] = t
    BY <1>1, <2>3, <2>5 DEF Sits
  <2>7. p \notin Range(fast) /\ IsList(fast, f, fd) /\ fd[p] = f /\ fast \in Seq(Chunks)
    BY <1>1, <1>5, <2>3, <2>4, <2>6 DEF Owners, SharedOwned, LinkOf, IsList
  <2>8. PICK fast2 : fast2 = <<p>> \o fast
    OBVIOUS
  <2>9. IsList(fast2, p, fd) /\ \A d : d \in Range(fast2) <=> d = p \/ d \in Range(fast)
    BY <2>3, <2>7, <2>8, ListPush, PutInFront DEF IsList
  <2>10. PICK kind2, by2 :
          /\ Owner(kind2, by2) /\ Exchange(t, kind, by, kind2, by2)
          /\ kind2[p] = "fast" /\ by2[p] = NULL
          /\ \A d \in Chunks : d # p => kind2[d] = kind[d] /\ by2[d] = by[d]
    <3>1. Owner(kind, by) /\ "fast" \in Kind /\ "fast" \in Common
      BY <2>4 DEF Owners, Kind, Common
    <3> QED
      BY <2>3, <2>6, <3>1, Hands
  <2>11. SharedOwned(kind2, fast2, walk)'
    BY <1>2, <2>2, <2>4, <2>6, <2>9, <2>10 DEF Owners, SharedOwned
  <2>12. Sits(kind2, by2, t, q, k)
    BY <1>1, <2>3, <2>5, <2>6, <2>10, ChunkAssumption DEF Sits
  <2>13. Looks(q, fd', fast2, walk)
    BY <2>3 DEF Looks
  <2>14. OthersLook(t, fd', fast2, walk)
    BY <2>2, <2>4, <2>9 DEF Owners, OthersLook, Looks
  <2>15. walk # <<>> => OthersWalk(t)
    BY <1>1, <1>2, <2>4 DEF Owners, OthersWalk
  <2> QED
    BY <1>1, <1>2, <2>2, <2>3, <2>4, <2>10, <2>11, <2>12, <2>13, <2>14, <2>15, MovesOwn
<1> QED
  BY <1>4, <1>5

LEMMA ArenaServesOwns ==
  ASSUME IInv, OInv, NEW t \in Threads, ArenaServes(t)
  PROVE  OInv'
<1>1. PICK c \in arena : arena' = arena \ {c} /\ th' = [th EXCEPT ![t].got = c, ![t].pc = "unlock"]
  BY DEF ArenaServes
<1>2. PICK x, k : x = th[t] /\ k = tcache[t]
  OBVIOUS
<1>3. PICK q : q = [x EXCEPT !.got = c, !.pc = "unlock"]
  OBVIOUS
<1>4. /\ x \in Thread /\ x.pc = "search" /\ Known(t, x, mutex) /\ ~died' /\ Fine(x, k)
      /\ UNCHANGED <<fb, fd, held, memory, mutex, tcache>> /\ tcache' = [tcache EXCEPT ![t] = k]
      /\ th' = [th EXCEPT ![t] = q]
  <2>1. x \in Thread /\ Known(t, x, mutex) /\ Fine(x, k) /\ tcache = [tcache EXCEPT ![t] = k]
    BY <1>2, Facts
  <2>2. x.pc = "search" /\ ~died /\ UNCHANGED <<fb, fd, held, memory, mutex, tcache, died>>
    BY <1>2 DEF ArenaServes, At, bin
  <2>3. th' = [th EXCEPT ![t] = q]
    BY <1>1, <1>2, <1>3
  <2> QED
    BY <2>1, <2>2, <2>3
<1>5. q.pc = "unlock" /\ q.got = c /\ q.job = x.job /\ (q.init <=> x.init) /\ q.p = x.p /\ q.todo = x.todo
  BY <1>3, <1>4 DEF Thread
<1>6. x.job # "exit" /\ x.got = NULL
  BY <1>4 DEF Known, FreePc, Trimming
<1>7. PICK kind, by, fast, walk : Owners(kind, by, fast, walk)
  BY Facts DEF Owned
<1>8. c \in Chunks /\ kind[c] = "arena" /\ by[c] = NULL
  BY <1>7 DEF Owners, SharedOwned, Owner, Common
<1>9. Sits(kind, by, t, x, k)
  BY <1>2, <1>7 DEF Owners
<1>10. PICK kind2, by2 :
         /\ Owner(kind2, by2) /\ Exchange(t, kind, by, kind2, by2)
         /\ kind2[c] = "got" /\ by2[c] = t
         /\ \A d \in Chunks : d # c => kind2[d] = kind[d] /\ by2[d] = by[d]
  <2>1. Owner(kind, by) /\ "got" \in Kind /\ "got" \notin Common /\ t # NULL
    BY <1>7, ChunkAssumption DEF Owners, Kind, Common
  <2> QED
    BY <1>8, <2>1, Hands
<1>11. Known(t, q, mutex')
  <2>1. Frees(x) <=> Frees(q)
    BY <1>5, <1>6 DEF Frees
  <2> QED
    BY <1>4, <1>5, <1>6, <1>8, <2>1 DEF Known, FreePc, Locked, Trimming
<1>12. SharedOwned(kind2, fast, walk)'
  BY <1>1, <1>4, <1>7, <1>8, <1>10 DEF Owners, SharedOwned
<1>13. Sits(kind2, by2, t, q, k)
  BY <1>5, <1>6, <1>8, <1>9, <1>10, ChunkAssumption DEF Sits
<1>14. Looks(q, fd', fast, walk)
  BY <1>5 DEF Looks
<1>15. OthersLook(t, fd', fast, walk) /\ walk = <<>>
  BY <1>2, <1>4, <1>7, Alone DEF Locked
<1>16. th[t].pc # "top" /\ (walk # <<>> => OthersWalk(t))
  BY <1>2, <1>4, <1>15
<1> QED
  BY <1>4, <1>7, <1>10, <1>11, <1>12, <1>13, <1>14, <1>15, <1>16, MovesOwn

\* The first chunk is still the one whose link was read: only the owner of the mutex
\* takes chunks away, so what was in the list is there, with its link.
LEMMA PopsOwns ==
  ASSUME IInv, OInv, NEW t \in Threads, Pops(t)
  PROVE  OInv'
<1>1. PICK x, k, c : x = th[t] /\ k = tcache[t] /\ c = th[t].old
  OBVIOUS
<1>2. /\ x \in Thread /\ x.pc = "pop" /\ Known(t, x, mutex) /\ Fine(x, k) /\ ~died' /\ k \in Tcache
      /\ th = [th EXCEPT ![t] = x] /\ tcache = [tcache EXCEPT ![t] = k]
      /\ UNCHANGED <<arena, held, memory, mutex>> /\ fd \in [Chunks -> Value]
      /\ fb = c /\ fb' = x.next /\ fd' = [fd EXCEPT ![c] = Junk]
  BY <1>1, Facts DEF Pops, PopsPlainly, At, SharedOK
<1>3. x.job = "malloc" /\ ~x.init
  BY <1>2 DEF Fine
<1>4. PICK kind, by, fast, walk : Owners(kind, by, fast, walk)
  BY Facts DEF Owned
<1>5. Sits(kind, by, t, x, k) /\ c \in Range(fast) /\ x.next = fd[c] /\ IsList(fast, c, fd)
  BY <1>1, <1>2, <1>4 DEF Owners, SharedOwned, Looks
<1>6. c \in Chunks /\ c # NULL
  <2>1. fast \in Seq(Chunks)
    BY <1>5 DEF IsList
  <2> QED
    BY <1>5, <2>1, ChunkAssumption DEF Range
<1>7. PICK fast2 : fast2 = Tail(fast)
  OBVIOUS
<1>8. IsList(fast2, fd[c], fd) /\ \A d : d \in Range(fast2) <=> d \in Range(fast) /\ d # c
  BY <1>5, <1>6, <1>7, ListPop
<1>9. IsList(fast2, fd[c], fd')
  <2>1. \A d \in Range(fast2) : fd'[d] = fd[d]
    BY <1>2, <1>8
  <2> QED
    BY <1>8, <2>1, ListKept
<1>10. kind[c] = "fast" /\ by[c] = NULL
  BY <1>4, <1>5, <1>6 DEF Owners, SharedOwned, Owner, Common
<1>11. OthersLook(t, fd', fast2, walk) /\ walk = <<>>
  BY <1>1, <1>2, <1>4, Alone DEF Locked
<1>12. CASE x.got = NULL
  <2>1. PICK q : q = [x EXCEPT !.got = c, !.pc = "more"]
    OBVIOUS
  <2>2. th' = [th EXCEPT ![t] = q] /\ tcache' = [tcache EXCEPT ![t] = k]
    BY <1>1, <1>2, <1>12, <2>1 DEF Pops, PopsPlainly
  <2>3. q.pc = "more" /\ q.got = c /\ q.job = x.job /\ (q.init <=> x.init) /\ q.p = x.p /\ q.todo = x.todo
    BY <1>2, <2>1 DEF Thread
  <2>4. PICK kind2, by2 :
          /\ Owner(kind2, by2) /\ Exchange(t, kind, by, kind2, by2)
          /\ kind2[c] = "got" /\ by2[c] = t
          /\ \A d \in Chunks : d # c => kind2[d] = kind[d] /\ by2[d] = by[d]
    <3>1. Owner(kind, by) /\ "got" \in Kind /\ "got" \notin Common /\ t # NULL
      BY <1>4, ChunkAssumption DEF Owners, Kind, Common
    <3> QED
      BY <1>6, <1>10, <3>1, Hands
  <2>5. Known(t, q, mutex')
    <3>1. Frees(x) <=> Frees(q)
      BY <1>3, <2>3 DEF Frees
    <3> QED
      BY <1>2, <1>3, <1>6, <2>3, <3>1 DEF Known, FreePc, Locked, Trimming
  <2>6. SharedOwned(kind2, fast2, walk)'
    BY <1>2, <1>4, <1>5, <1>6, <1>8, <1>9, <1>10, <2>4 DEF Owners, SharedOwned
  <2>7. Sits(kind2, by2, t, q, k)
    BY <1>5, <1>6, <1>10, <1>12, <2>3, <2>4, ChunkAssumption DEF Sits
  <2>8. Looks(q, fd', fast2, walk)
    BY <2>3 DEF Looks
  <2>9. th[t].pc # "top" /\ (walk # <<>> => OthersWalk(t))
    BY <1>1, <1>2, <1>11
  <2> QED
    BY <1>2, <1>4, <1>11, <2>2, <2>4, <2>5, <2>6, <2>7, <2>8, <2>9, MovesOwn
<1>13. CASE x.got # NULL
  <2>1. PICK q, longer : q = [x EXCEPT !.pc = "more"] /\ longer = <<c>> \o k.entries
    OBVIOUS
  <2>2. PICK k2 : k2 = [k EXCEPT !.entries = longer]
    OBVIOUS
  <2>3. th' = [th EXCEPT ![t] = q] /\ tcache' = [tcache EXCEPT ![t] = k2]
    BY <1>1, <1>2, <1>13, <2>1, <2>2 DEF Pops, PopsPlainly, Goto
  <2>4. /\ q.pc = "more" /\ q.got = x.got /\ q.job = x.job /\ (q.init <=> x.init) /\ q.p = x.p
        /\ q.todo = x.todo /\ k2.mem = k.mem /\ k2.entries = longer
    BY <1>2, <2>1, <2>2 DEF Thread, Tcache
  <2>5. PICK kind2, by2 :
          /\ Owner(kind2, by2) /\ Exchange(t, kind, by, kind2, by2)
          /\ kind2[c] = "entries" /\ by2[c] = t
          /\ \A d \in Chunks : d # c => kind2[d] = kind[d] /\ by2[d] = by[d]
    <3>1. Owner(kind, by) /\ "entries" \in Kind /\ "entries" \notin Common /\ t # NULL
      BY <1>4, ChunkAssumption DEF Owners, Kind, Common
    <3> QED
      BY <1>6, <1>10, <3>1, Hands
  <2>6. /\ longer \in Seq(Chunks) /\ IsInjective(longer)
        /\ \A d : d \in Range(longer) <=> d = c \/ d \in Range(k.entries)
    <3>1. k.entries \in Seq(Chunks) /\ IsInjective(k.entries) /\ c \notin Range(k.entries)
      BY <1>5, <1>6, <1>10 DEF Sits
    <3> QED
      BY <1>6, <2>1, <3>1, PutInFront
  <2>7. Known(t, q, mutex')
    <3>1. Frees(x) <=> Frees(q)
      BY <1>3, <2>4 DEF Frees
    <3> QED
      BY <1>2, <1>3, <2>4, <3>1 DEF Known, FreePc, Locked, Trimming
  <2>8. SharedOwned(kind2, fast2, walk)'
    BY <1>2, <1>4, <1>5, <1>6, <1>8, <1>9, <1>10, <2>5 DEF Owners, SharedOwned
  <2>9. Sits(kind2, by2, t, q, k2)
    BY <1>5, <1>6, <1>10, <2>4, <2>5, <2>6, ChunkAssumption DEF Sits
  <2>10. Looks(q, fd', fast2, walk)
    BY <2>4 DEF Looks
  <2>11. th[t].pc # "top" /\ (walk # <<>> => OthersWalk(t))
    BY <1>1, <1>2, <1>11
  <2> QED
    BY <1>2, <1>4, <1>11, <2>3, <2>5, <2>7, <2>8, <2>9, <2>10, <2>11, MovesOwn
<1> QED
  BY <1>12, <1>13

\* The whole list changes hands.
LEMMA TakesListOwns ==
  ASSUME IInv, OInv, NEW t \in Threads, TakesList(t)
  PROVE  OInv'
<1>1. PICK x, k, f : x = th[t] /\ k = tcache[t] /\ f = fb
  OBVIOUS
<1>2. PICK q : q = [x EXCEPT !.old = f, !.pc = "walk"]
  OBVIOUS
<1>3. /\ x \in Thread /\ x.pc = "swap" /\ Known(t, x, mutex) /\ ~died'
      /\ UNCHANGED <<fd, arena, held, memory, mutex>> /\ tcache' = [tcache EXCEPT ![t] = k]
      /\ th' = [th EXCEPT ![t] = q] /\ fb' = NULL
  BY <1>1, <1>2, Facts DEF TakesList, At
<1>4. /\ q.pc = "walk" /\ q.old = f /\ q.job = x.job /\ (q.init <=> x.init) /\ q.p = x.p /\ q.got = x.got
      /\ q.todo = x.todo
  BY <1>2, <1>3 DEF Thread
<1>5. PICK kind, by, fast, walk : Owners(kind, by, fast, walk)
  BY Facts DEF Owned
<1>6. /\ Sits(kind, by, t, x, k) /\ IsList(fast, f, fd) /\ fast \in Seq(Chunks) /\ IsInjective(fast)
      /\ Owner(kind, by)
  BY <1>1, <1>5 DEF Owners, SharedOwned, IsList
<1>7. (\A g, s, w : OthersLook(t, g, s, w)) /\ walk = <<>>
  BY <1>1, <1>3, <1>5, Alone DEF Locked
<1> DEFINE kind2 == [c \in Chunks |-> IF kind[c] = "fast" THEN "walk" ELSE kind[c]]
<1>8. kind2 \in [Chunks -> Kind]
  BY <1>6 DEF Owner, Kind, Common
<1>9. \A c \in Chunks : kind2[c] = IF kind[c] = "fast" THEN "walk" ELSE kind[c]
  OBVIOUS
<1> HIDE DEF kind2
<1>10. Owner(kind2, by)
  BY <1>6, <1>8, <1>9 DEF Owner, Common
<1>11. Exchange(t, kind, by, kind2, by)
  <2> SUFFICES ASSUME NEW c \in Chunks, kind[c] = "fast" PROVE by[c] = NULL
    BY <1>9 DEF Exchange
  <2> QED
    BY <1>6 DEF Owner, Common
<1>12. \A c \in Chunks : kind[c] # "walk"
  BY <1>5, <1>7, NothingThere DEF Owners, SharedOwned
<1>13. SharedOwned(kind2, <<>>, fast)'
  <2>1. /\ arena' \subseteq Chunks /\ held' \subseteq Chunks
        /\ \A c \in Chunks : (kind[c] = "arena" <=> c \in arena') /\ (kind[c] = "held" <=> c \in held')
                             /\ (kind[c] = "fast" <=> c \in Range(fast))
    BY <1>3, <1>5 DEF Owners, SharedOwned
  <2>2. IsList(<<>>, fb', fd')
    BY <1>3, EmptyList
  <2> QED
    BY <1>6, <1>9, <1>12, <2>1, <2>2, NothingThere DEF SharedOwned
<1>14. Sits(kind2, by, t, q, k)
  BY <1>4, <1>6, <1>9 DEF Sits
<1>15. Looks(q, fd', <<>>, fast)
  BY <1>3, <1>4, <1>6 DEF Looks
<1>16. Known(t, q, mutex')
  <2>1. Frees(x) <=> Frees(q)
    BY <1>3, <1>4 DEF Frees, FreePc
  <2> QED
    BY <1>3, <1>4, <2>1 DEF Known, FreePc, Locked, Trimming
<1>17. th[t].pc # "top" /\ OthersLook(t, fd', <<>>, fast)
  BY <1>1, <1>3, <1>7
<1> QED
  BY <1>3, <1>4, <1>5, <1>10, <1>11, <1>13, <1>14, <1>15, <1>16, <1>17, MovesOwn

LEMMA ConsolidatesOwns ==
  ASSUME IInv, OInv, NEW t \in Threads, Consolidates(t)
  PROVE  OInv'
<1>1. PICK x, k, c, next : x = th[t] /\ k = tcache[t] /\ c = th[t].old /\ next = LinkOf(c)
  OBVIOUS
<1>2. PICK q : q = [x EXCEPT !.old = next]
  OBVIOUS
<1>3. /\ x \in Thread /\ x.pc = "walk" /\ Known(t, x, mutex) /\ ~died' /\ c # NULL /\ c = x.old
      /\ UNCHANGED <<fb, held, memory, mutex>> /\ tcache' = [tcache EXCEPT ![t] = k]
      /\ arena' = arena \cup {c} /\ fd' = [fd EXCEPT ![c] = Junk] /\ fd \in [Chunks -> Value]
      /\ th' = [th EXCEPT ![t] = q]
  BY <1>1, <1>2, Facts DEF Consolidates, At, bin, SharedOK
<1>4. /\ q.pc = "walk" /\ q.old = next /\ q.job = x.job /\ (q.init <=> x.init) /\ q.p = x.p
      /\ q.got = x.got /\ q.todo = x.todo
  BY <1>2, <1>3 DEF Thread
<1>5. PICK kind, by, fast, walk : Owners(kind, by, fast, walk)
  BY Facts DEF Owned
<1>6. /\ Sits(kind, by, t, x, k) /\ IsList(walk, c, fd) /\ IsList(fast, fb, fd)
  BY <1>1, <1>3, <1>5 DEF Owners, SharedOwned, Looks
<1>7. PICK walk2 : walk2 = Tail(walk)
  OBVIOUS
<1>8. /\ c \in Chunks /\ c \in Range(walk) /\ IsList(walk2, fd[c], fd)
      /\ \A d : d \in Range(walk2) <=> d \in Range(walk) /\ d # c
  BY <1>3, <1>6, <1>7, ListPop
<1>9. next = fd[c]
  BY <1>1, <1>8 DEF LinkOf
<1>10. IsList(walk2, next, fd')
  <2>1. \A d \in Range(walk2) : fd'[d] = fd[d]
    BY <1>3, <1>8
  <2> QED
    BY <1>8, <1>9, <2>1, ListKept
<1>11. kind[c] = "walk" /\ by[c] = NULL
  BY <1>5, <1>8 DEF Owners, SharedOwned, Owner, Common
<1>12. IsList(fast, fb', fd')
  <2>1. c \notin Range(fast)
    BY <1>5, <1>8, <1>11 DEF Owners, SharedOwned
  <2>2. \A d \in Range(fast) : fd'[d] = fd[d]
    BY <1>3, <2>1
  <2> QED
    BY <1>3, <1>6, <2>2, ListKept
<1>13. PICK kind2, by2 :
         /\ Owner(kind2, by2) /\ Exchange(t, kind, by, kind2, by2)
         /\ kind2[c] = "arena" /\ by2[c] = NULL
         /\ \A d \in Chunks : d # c => kind2[d] = kind[d] /\ by2[d] = by[d]
  <2>1. Owner(kind, by) /\ "arena" \in Kind /\ "arena" \in Common
    BY <1>5 DEF Owners, Kind, Common
  <2> QED
    BY <1>8, <1>11, <2>1, Hands
<1>14. Known(t, q, mutex')
  <2>1. Frees(x) <=> Frees(q)
    BY <1>3, <1>4 DEF Frees
  <2> QED
    BY <1>3, <1>4, <2>1 DEF Known, FreePc, Locked, Trimming
<1>15. SharedOwned(kind2, fast, walk2)'
  <2>1. walk2 \in Seq(Chunks) /\ IsInjective(walk2)
    BY <1>8 DEF IsList
  <2> QED
    BY <1>3, <1>5, <1>8, <1>11, <1>12, <1>13, <2>1 DEF Owners, SharedOwned
<1>16. Sits(kind2, by2, t, q, k)
  BY <1>4, <1>6, <1>11, <1>13, <1>8, ChunkAssumption DEF Sits
<1>17. Looks(q, fd', fast, walk2)
  BY <1>4, <1>10 DEF Looks
<1>18. th[t].pc # "top" /\ OthersLook(t, fd', fast, walk2)
  BY <1>1, <1>3, Alone DEF Locked
<1> QED
  BY <1>3, <1>4, <1>5, <1>13, <1>14, <1>15, <1>16, <1>17, <1>18, MovesOwn

\* The tcache of a thread that exits goes back to the arena.
LEMMA ReleasesOwns ==
  ASSUME IInv, OInv, NEW t \in Threads, Releases(t)
  PROVE  OInv'
<1>1. PICK x, k, c : x = th[t] /\ k = tcache[t] /\ c = th[t].got
  OBVIOUS
<1>0. PICK pc \in {"unlock", "clear", "trim"} : th' = [th EXCEPT ![t].got = NULL, ![t].pc = pc]
  BY DEF Releases
<1>2. PICK q : q = [x EXCEPT !.got = NULL, !.pc = pc]
  OBVIOUS
<1>3. /\ x \in Thread /\ x.pc = "release" /\ Known(t, x, mutex) /\ ~died' /\ c = x.got
      /\ UNCHANGED <<fb, fd, held, memory, mutex>> /\ tcache' = [tcache EXCEPT ![t] = k]
      /\ arena' = arena \cup {c} /\ th' = [th EXCEPT ![t] = q]
  <2>1. x \in Thread /\ Known(t, x, mutex) /\ ~died /\ tcache = [tcache EXCEPT ![t] = k] /\ c = x.got
    BY <1>1, Facts
  <2>2. /\ x.pc = "release" /\ arena' = arena \cup {c}
        /\ UNCHANGED <<fb, fd, held, memory, mutex, tcache, died>>
    BY <1>1 DEF Releases, At, bin
  <2>3. th' = [th EXCEPT ![t] = q]
    BY <1>0, <1>1, <1>2
  <2> QED
    BY <2>1, <2>2, <2>3
<1>4. /\ q.pc = pc /\ q.got = NULL /\ q.job = x.job /\ (q.init <=> x.init) /\ q.p = x.p
      /\ q.todo = x.todo
  BY <1>2, <1>3 DEF Thread
<1>5. x.job = "exit" /\ c \in Chunks
  BY <1>3 DEF Known, Trimming
<1>6. PICK kind, by, fast, walk : Owners(kind, by, fast, walk)
  BY Facts DEF Owned
<1>7. Sits(kind, by, t, x, k)
  BY <1>1, <1>6 DEF Owners
<1>8. kind[c] = "got" /\ by[c] = t
  BY <1>3, <1>5, <1>7 DEF Sits
<1>9. PICK kind2, by2 :
        /\ Owner(kind2, by2) /\ Exchange(t, kind, by, kind2, by2)
        /\ kind2[c] = "arena" /\ by2[c] = NULL
        /\ \A d \in Chunks : d # c => kind2[d] = kind[d] /\ by2[d] = by[d]
  <2>1. Owner(kind, by) /\ "arena" \in Kind /\ "arena" \in Common
    BY <1>6 DEF Owners, Kind, Common
  <2> QED
    BY <1>5, <1>8, <2>1, Hands
<1>10. Known(t, q, mutex')
  <2>1. ~Frees(x) /\ ~Frees(q)
    BY <1>3, <1>4, <1>5 DEF Frees, FreePc
  <2> QED
    BY <1>3, <1>4, <1>5, <2>1 DEF Known, FreePc, Locked, Trimming
<1>11. SharedOwned(kind2, fast, walk)'
  BY <1>3, <1>5, <1>6, <1>8, <1>9 DEF Owners, SharedOwned
<1>12. Sits(kind2, by2, t, q, k)
  BY <1>3, <1>4, <1>5, <1>7, <1>8, <1>9, ChunkAssumption DEF Sits
<1>13. Looks(q, fd', fast, walk)
  BY <1>4 DEF Looks
<1>14. OthersLook(t, fd', fast, walk) /\ walk = <<>>
  BY <1>1, <1>3, <1>6, Alone DEF Locked
<1>15. th[t].pc # "top" /\ (walk # <<>> => OthersWalk(t))
  BY <1>1, <1>3, <1>14
<1> QED
  BY <1>3, <1>6, <1>9, <1>10, <1>11, <1>12, <1>13, <1>14, <1>15, MovesOwn

\* The mutex is free again: the chunk found is the client's, or the new tcache.
LEMMA UnlocksOwns ==
  ASSUME IInv, OInv, NEW t \in Threads, Unlocks(t)
  PROVE  OInv'
<1>1. PICK x, k, c : x = th[t] /\ k = tcache[t] /\ c = th[t].got
  OBVIOUS
<1>2. /\ x \in Thread /\ x.pc = "unlock" /\ Known(t, x, mutex) /\ Fine(x, k) /\ ~died' /\ c = x.got
      /\ k \in Tcache /\ UNCHANGED <<fb, fd, arena, memory>> /\ mutex' = NULL
      /\ th = [th EXCEPT ![t] = x] /\ tcache = [tcache EXCEPT ![t] = k]
  BY <1>1, Facts DEF Unlocks, FreesMutex, At, bin
<1>3. c \in Chunks \cup {NULL} /\ x.todo = <<>>
  BY <1>2 DEF Known, FreePc, Trimming
<1>4. PICK kind, by, fast, walk : Owners(kind, by, fast, walk)
  BY Facts DEF Owned
<1>5. Sits(kind, by, t, x, k)
  BY <1>1, <1>4 DEF Owners
<1>6. OthersLook(t, fd', fast, walk) /\ walk = <<>>
  BY <1>1, <1>2, <1>4, Alone DEF Locked
<1>7. th[t].pc # "top" /\ (walk # <<>> => OthersWalk(t)) /\ Owner(kind, by) /\ mutex = t
  BY <1>1, <1>2, <1>4, <1>6 DEF Owners, Known, Locked
<1>8. CASE x.init
  <2>1. PICK q, k2 : q = [x EXCEPT !.init = FALSE, !.got = NULL, !.pc = "ready"] /\ k2 = [k EXCEPT !.mem = c]
    OBVIOUS
  <2>2. th' = [th EXCEPT ![t] = q] /\ tcache' = [tcache EXCEPT ![t] = k2] /\ held' = held
    BY <1>1, <1>2, <1>8, <2>1 DEF Unlocks
  <2>3. /\ q.pc = "ready" /\ q.got = NULL /\ q.job = x.job /\ q.p = x.p /\ q.todo = x.todo
        /\ k2.mem = c /\ k2.entries = k.entries
    BY <1>2, <2>1 DEF Thread, Tcache
  <2>4. k.mem = NULL /\ x.job # "exit"
    BY <1>2, <1>8 DEF Fine
  <2>5. Known(t, q, mutex')
    <3>1. Frees(x) <=> Frees(q)
      BY <2>3, <2>4 DEF Frees
    <3> QED
      BY <1>2, <1>3, <2>3, <2>4, <3>1 DEF Known, FreePc, Locked, Trimming
  <2>6. PICK kind2, by2 :
          /\ Owner(kind2, by2) /\ Exchange(t, kind, by, kind2, by2)
          /\ c \in Chunks => kind2[c] = "mem" /\ by2[c] = t
          /\ \A d \in Chunks : d # c => kind2[d] = kind[d] /\ by2[d] = by[d]
    <3>1. CASE c \in Chunks
      <4>1. "mem" \in Kind /\ "mem" \notin Common /\ t # NULL /\ by[c] = t
        BY <1>2, <1>5, <3>1, ChunkAssumption DEF Kind, Common, Sits
      <4> QED
        BY <1>7, <3>1, <4>1, Hands
    <3>2. CASE c \notin Chunks
      <4>1. Exchange(t, kind, by, kind, by)
        BY DEF Exchange
      <4> QED
        BY <1>7, <3>2, <4>1
    <3> QED
      BY <3>1, <3>2
  <2>7. \A d \in Common : \A e \in Chunks : kind2[e] = d <=> kind[e] = d
    <3>1. c \in Chunks => kind[c] = "got"
      BY <1>2, <1>5 DEF Sits
    <3> QED
      BY <2>6, <3>1 DEF Common
  <2>8. SharedOwned(kind2, fast, walk)'
    BY <1>2, <1>4, <2>2, <2>7 DEF Owners, SharedOwned, Common
  <2>9. Sits(kind2, by2, t, q, k2)
    <3>1. c \in Chunks => kind[c] = "got" /\ by[c] = t
      BY <1>2, <1>5 DEF Sits
    <3> QED
      BY <1>2, <1>3, <1>5, <2>3, <2>4, <2>6, <3>1, ChunkAssumption DEF Sits
  <2>10. Looks(q, fd', fast, walk)
    BY <2>3 DEF Looks
  <2> QED
    BY <1>2, <1>4, <1>6, <1>7, <2>2, <2>5, <2>6, <2>8, <2>9, <2>10, MovesOwn
<1>9. CASE ~x.init
  <2>1. PICK q : q = IF x.job = "exit" THEN [Idle EXCEPT !.pc = "exited"] ELSE Idle
    OBVIOUS
  <2>2. th' = [th EXCEPT ![t] = q] /\ tcache' = [tcache EXCEPT ![t] = k] /\ held' = held \cup ({c} \ {NULL})
    BY <1>1, <1>2, <1>9, <2>1 DEF Unlocks
  <2>3. /\ q.pc \in {"idle", "exited"} /\ q.got = NULL /\ q.job = "none" /\ q.p = NULL /\ q.todo = <<>>
    BY <2>1 DEF Idle, Start
  <2>4. x.p = NULL
    BY <1>2, <1>9 DEF Known, Frees, FreePc, Locked, Trimming
  <2>5. Known(t, q, mutex')
    BY <2>3, NothingThere DEF Known, Frees, FreePc, Locked, Trimming
  <2>6. PICK kind2, by2 :
          /\ Owner(kind2, by2) /\ Exchange(t, kind, by, kind2, by2)
          /\ c \in Chunks => kind2[c] = "held" /\ by2[c] = NULL
          /\ \A d \in Chunks : d # c => kind2[d] = kind[d] /\ by2[d] = by[d]
    <3>1. CASE c \in Chunks
      <4>1. "held" \in Kind /\ "held" \in Common /\ by[c] = t
        BY <1>2, <1>5, <3>1 DEF Kind, Common, Sits
      <4> QED
        BY <1>7, <3>1, <4>1, Hands
    <3>2. CASE c \notin Chunks
      <4>1. Exchange(t, kind, by, kind, by)
        BY DEF Exchange
      <4> QED
        BY <1>7, <3>2, <4>1
    <3> QED
      BY <3>1, <3>2
  <2>7. c \in Chunks => kind[c] = "got" /\ by[c] = t
    BY <1>2, <1>5 DEF Sits
  <2>8. SharedOwned(kind2, fast, walk)'
    BY <1>2, <1>3, <1>4, <2>2, <2>6, <2>7, ChunkAssumption DEF Owners, SharedOwned
  <2>9. Sits(kind2, by2, t, q, k)
    BY <1>2, <1>3, <1>5, <2>3, <2>4, <2>6, <2>7, ChunkAssumption DEF Sits
  <2>10. Looks(q, fd', fast, walk)
    BY <2>3 DEF Looks
  <2> QED
    BY <1>2, <1>4, <1>6, <1>7, <2>2, <2>5, <2>6, <2>8, <2>9, <2>10, MovesOwn
<1> QED
  BY <1>8, <1>9

-----------------------------------------------------------------------------
(* Every step *)

\* At first all chunks are in the arena.
LEMMA InitOwns == Init => OInv
<1> SUFFICES ASSUME Init PROVE OInv
  OBVIOUS
<1>1. \A t \in Threads : th[t] = Idle /\ tcache[t].mem = NULL /\ tcache[t].entries = <<>>
  BY DEF Init
<1>2. /\ Idle.pc = "idle" /\ Idle.job = "none" /\ Idle.p = NULL /\ Idle.got = NULL /\ Idle.todo = <<>>
  BY DEF Idle, Start
<1>3. Knows
  BY <1>1, <1>2, NothingThere DEF Knows, Known, Frees, FreePc, Locked, Trimming
<1>4. Room /\ ~died
  BY DEF Init, Room
<1> DEFINE kind == [c \in Chunks |-> "arena"]
           by == [c \in Chunks |-> NULL]
<1>5. Owner(kind, by) /\ \A c \in Chunks : kind[c] = "arena" /\ by[c] = NULL
  BY DEF Owner, Kind, Common
<1> HIDE DEF kind, by
<1>6. SharedOwned(kind, <<>>, <<>>)
  <2>1. IsList(<<>>, fb, fd)
    BY EmptyList DEF Init
  <2> QED
    BY <1>5, <2>1, NothingThere DEF Init, SharedOwned
<1>7. ASSUME NEW t \in Threads
      PROVE  Sits(kind, by, t, th[t], tcache[t]) /\ Looks(th[t], fd, <<>>, <<>>)
  <2>1. Sits(kind, by, t, th[t], tcache[t])
    BY <1>1, <1>2, <1>5, NothingThere, ChunkAssumption DEF Sits
  <2> QED
    BY <1>1, <1>2, <2>1 DEF Looks
<1>8. Owners(kind, by, <<>>, <<>>)
  BY <1>5, <1>6, <1>7 DEF Owners
<1> QED
  BY <1>3, <1>4, <1>8 DEF OInv, Owned

LEMMA NextOwns == IInv /\ OInv /\ [Next]_vars => OInv'
<1> SUFFICES ASSUME IInv, OInv, [Next]_vars PROVE OInv'
  OBVIOUS
<1>1. CASE UNCHANGED vars
  <2>1. UNCHANGED <<th, tcache, fb, fd, arena, held, mutex, system_mem, top_size, died>>
    BY <1>1 DEF vars
  <2>2. Knows' /\ Room' /\ ~died'
    BY <2>1 DEF OInv, Knows, Room
  <2>3. PICK kind, by, fast, walk : Owners(kind, by, fast, walk)
    BY DEF OInv, Owned
  <2>4. Owners(kind, by, fast, walk)'
    BY <2>1, <2>3 DEF Owners, SharedOwned
  <2> QED
    BY <2>2, <2>4 DEF OInv, Owned
<1>2. ASSUME NEW t \in Threads, Step(t)
      PROVE  OInv'
  BY <1>2, GotosOwn, TrimsOwn, ShutdownOwns, InitsTcacheOwns, TcacheServesOwns, TcacheTakesOwns,
     ReadsNextSizeOwns, LinksOwns, PushesOwns, ReadsFirstOwns, ReadsSecondOwns, PopsOwns, PopFailsOwns,
     StashesMoreOwns, ArenaServesOwns, TakesListOwns, ConsolidatesOwns, ReleasesOwns,
     UnlocksOwns DEF Step
<1> QED
  BY <1>1, <1>2, CallsOwn, FreeOwns, ExitOwns DEF Next

\* Every chunk has one owner, whatever the threads do.
THEOREM ThreadsOwn == Spec => []OInv
  BY InitFine, NextKeeps, InitOwns, NextOwns, PTL DEF Spec

\* No free of a correct client aborts: a chunk that is freed is not in the fast
\* bin, and a thread that has the mutex finds top smaller than the arena's memory.
THEOREM NoFreeAborts == Spec => []NeverAborts
<1>1. OInv => NeverAborts
  BY DEF OInv, NeverAborts
<1> QED
  BY <1>1, ThreadsOwn, PTL

-----------------------------------------------------------------------------
(* One place for every chunk *)

\* What Chain is, step by step.
LEMMA ChainSteps ==
  ASSUME TypeOK, NEW c \in Value
  PROVE  /\ Cardinality(Chunks) \in Nat /\ DOMAIN Chain(c) = 1 .. Cardinality(Chunks) + 1
         /\ Chain(c)[1] = c
         /\ \A i \in 1 .. Cardinality(Chunks) :
              Chain(c)[i + 1] = IF Chain(c)[i] \in Chunks THEN fd[Chain(c)[i]] ELSE NULL
<1> DEFINE n == Cardinality(Chunks)
           next == [x \in Value |-> IF x \in Chunks THEN fd[x] ELSE NULL]
           Eq(at) == at = [k \in 0 .. n |-> IF k = 0 THEN c
                                            ELSE IF at[k - 1] \in Chunks THEN fd[at[k - 1]] ELSE NULL]
           at0 == CHOOSE at : Eq(at)
<1>1. n \in Nat
  BY ChunkAssumption, FS_CardinalityType
<1>2. next \in [Value -> Value]
  BY DEF TypeOK, Value
<1>3. PICK f \in [Nat -> Value] : f[0] = c /\ \A i \in Nat : f[i + 1] = next[f[i]]
  <2> HIDE DEF next
  <2>1. \E f : IsIterate(f, Value, next, c)
    BY <1>2, Iterates
  <2> QED
    BY <2>1 DEF IsIterate
<1> DEFINE g == [k \in 0 .. n |-> f[k]]
<1>4. Eq(g)
  <2>1. ASSUME NEW k \in 0 .. n
        PROVE  g[k] = IF k = 0 THEN c ELSE IF g[k - 1] \in Chunks THEN fd[g[k - 1]] ELSE NULL
    <3>1. CASE k = 0
      BY <1>1, <1>3, <3>1
    <3>2. CASE k # 0
      <4>1. k - 1 \in Nat /\ k - 1 \in 0 .. n /\ (k - 1) + 1 = k
        BY <1>1, <3>2
      <4>2. f[k] = next[f[k - 1]] /\ f[k - 1] \in Value
        BY <1>3, <4>1
      <4> QED
        BY <3>2, <4>1, <4>2
    <3> QED
      BY <3>1, <3>2
  <2> QED
    BY <2>1
<1>5. Chain(c) = [k \in 1 .. n + 1 |-> at0[k - 1]]
  BY DEF Chain
<1> HIDE DEF Eq, g, n
<1>6. Eq(at0)
  BY <1>4
<1> HIDE DEF at0
<1>7. /\ DOMAIN Chain(c) = 1 .. n + 1
      /\ \A k \in 1 .. n + 1 : Chain(c)[k] = at0[k - 1]
  BY <1>5
<1>8. \A k \in 0 .. n : at0[k] = IF k = 0 THEN c
                                 ELSE IF at0[k - 1] \in Chunks THEN fd[at0[k - 1]] ELSE NULL
  BY <1>6 DEF Eq
<1>9. Chain(c)[1] = c
  BY <1>1, <1>7, <1>8
<1>10. ASSUME NEW i \in 1 .. n
       PROVE  Chain(c)[i + 1] = IF Chain(c)[i] \in Chunks THEN fd[Chain(c)[i]] ELSE NULL
  <2>1. i \in 1 .. n + 1 /\ i + 1 \in 1 .. n + 1 /\ i \in 0 .. n /\ i # 0 /\ (i + 1) - 1 = i
    BY <1>1
  <2>2. Chain(c)[i + 1] = at0[i] /\ Chain(c)[i] = at0[i - 1]
    BY <1>7, <2>1
  <2> QED
    BY <1>8, <2>1, <2>2
<1> QED
  BY <1>1, <1>7, <1>9, <1>10 DEF n

\* A sequence of chunks without repetitions is not longer than there are chunks.
LEMMA ShortEnough ==
  ASSUME NEW s \in Seq(Chunks), IsInjective(s)
  PROVE  Len(s) \in Nat /\ Len(s) <= Cardinality(Chunks)
<1>1. s \in [1 .. Len(s) -> Chunks] /\ Len(s) \in Nat
  OBVIOUS
<1>2. s \in Injection(1 .. Len(s), Chunks)
  BY <1>1 DEF Injection
<1>3. Cardinality(1 .. Len(s)) <= Cardinality(Chunks)
  BY <1>2, ChunkAssumption, FS_Injection
<1>4. Cardinality(1 .. Len(s)) = Len(s)
  <2>1. \A m \in Int : 1 <= m => Cardinality(1 .. m) = m
    BY FS_Interval
  <2>2. CASE Len(s) = 0
    <3>1. 1 .. Len(s) = {}
      BY <2>2
    <3> QED
      BY <2>2, <3>1, FS_EmptySet
  <2> QED
    BY <1>1, <2>1, <2>2
<1> QED
  BY <1>1, <1>3, <1>4

\* Chain shows a list from its first chunk to its end.
LEMMA ChainShows ==
  ASSUME TypeOK, NEW s, NEW c, IsList(s, c, fd)
  PROVE  /\ Cardinality(Chunks) \in Nat /\ DOMAIN Chain(c) = 1 .. Cardinality(Chunks) + 1
         /\ Len(s) \in Nat /\ Len(s) <= Cardinality(Chunks)
         /\ \A k \in DOMAIN Chain(c) : Chain(c)[k] = IF k <= Len(s) THEN s[k] ELSE NULL
<1> DEFINE n == Cardinality(Chunks)
           l == Chain(c)
<1>1. s \in Seq(Chunks) /\ IsInjective(s) /\ c \in Value /\ \A i \in 1 .. Len(s) : s[i] \in Chunks
  BY ListStart DEF Value, IsList
<1>2. /\ n \in Nat /\ DOMAIN l = 1 .. n + 1 /\ l[1] = c
      /\ \A i \in 1 .. n : l[i + 1] = IF l[i] \in Chunks THEN fd[l[i]] ELSE NULL
  BY <1>1, ChainSteps
<1>3. Len(s) \in Nat /\ Len(s) <= n
  BY <1>1, ShortEnough
<1> HIDE DEF n, l
<1> DEFINE S == {k \in Nat : k <= n => l[k + 1] = IF k + 1 <= Len(s) THEN s[k + 1] ELSE NULL}
<1>4. 0 \in S
  <2>1. s = <<>> <=> Len(s) = 0
    BY <1>1
  <2> QED
    BY <1>2, <1>3, <2>1 DEF IsList
<1>5. ASSUME NEW k \in Nat, k \in S
      PROVE  k + 1 \in S
  <2> SUFFICES ASSUME k + 1 <= n
               PROVE  l[(k + 1) + 1] = IF (k + 1) + 1 <= Len(s) THEN s[(k + 1) + 1] ELSE NULL
    OBVIOUS
  <2>1. l[k + 1] = IF k + 1 <= Len(s) THEN s[k + 1] ELSE NULL
    BY <1>2, <1>5
  <2>2. l[(k + 1) + 1] = IF l[k + 1] \in Chunks THEN fd[l[k + 1]] ELSE NULL
    <3>1. k + 1 \in 1 .. n
      BY <1>2
    <3> QED
      BY <1>2, <3>1
  <2>3. CASE k + 1 <= Len(s)
    <3>1. k + 1 \in 1 .. Len(s)
      BY <1>3, <2>3
    <3>2. fd[s[k + 1]] = IF k + 1 = Len(s) THEN NULL ELSE s[(k + 1) + 1]
      BY <3>1 DEF IsList
    <3> QED
      BY <1>1, <1>3, <2>1, <2>2, <2>3, <3>1, <3>2
  <2>4. CASE ~(k + 1 <= Len(s))
    BY <1>3, <2>1, <2>2, <2>4, ChunkAssumption
  <2> QED
    BY <2>3, <2>4
<1>6. \A k \in Nat : k \in S
  <2> HIDE DEF S
  <2> QED
    BY <1>4, <1>5, SetInduction
<1>7. ASSUME NEW k \in DOMAIN l PROVE l[k] = IF k <= Len(s) THEN s[k] ELSE NULL
  <2>1. k - 1 \in Nat /\ k - 1 <= n /\ (k - 1) + 1 = k
    BY <1>2
  <2>2. k - 1 \in S
    BY <1>6, <2>1
  <2> QED
    BY <2>1, <2>2
<1> QED
  BY <1>2, <1>3, <1>7 DEF n, l

\* The indices at which a sequence has a chunk, named as Places does.
InList(name, s, c) == {<<name, k>> : k \in {j \in DOMAIN s : s[j] = c}}

LEMMA FoundOnce ==
  ASSUME NEW name, NEW s \in Seq(Chunks), IsInjective(s), NEW c
  PROVE  /\ c \notin Range(s) => InList(name, s, c) = {}
         /\ c \in Range(s) => \E y : InList(name, s, c) = {y}
<1>1. ASSUME c \in Range(s) PROVE \E y : InList(name, s, c) = {y}
  <2>1. PICK i \in DOMAIN s : s[i] = c
    BY <1>1 DEF Range
  <2>2. {j \in DOMAIN s : s[j] = c} = {i}
    BY <2>1 DEF IsInjective
  <2>3. InList(name, s, c) = {<<name, i>>}
    BY <2>2 DEF InList
  <2> QED
    BY <2>3
<1>2. ASSUME c \notin Range(s) PROVE InList(name, s, c) = {}
  BY <1>2 DEF InList, Range
<1> QED
  BY <1>1, <1>2

\* The list that starts at b ends.
LEMMA ListEnds ==
  ASSUME TypeOK, NEW s, NEW b, IsList(s, b, fd)
  PROVE  Ends(b)
<1> DEFINE n == Cardinality(Chunks)
           l == Chain(b)
<1>1. /\ n \in Nat /\ DOMAIN l = 1 .. n + 1 /\ Len(s) \in Nat /\ Len(s) <= n
      /\ \A k \in DOMAIN l : l[k] = IF k <= Len(s) THEN s[k] ELSE NULL
  BY ChainShows
<1>2. s \in Seq(Chunks) /\ DOMAIN s = 1 .. Len(s)
  BY DEF IsList
<1> HIDE DEF n, l
<1>3. NULL \in Range(l)
  <2>1. n + 1 \in DOMAIN l /\ l[n + 1] = NULL
    BY <1>1
  <2> QED
    BY <2>1 DEF Range
<1>4. Junk \notin Range(l)
  <2> SUFFICES ASSUME NEW k \in DOMAIN l PROVE l[k] # Junk
    BY DEF Range
  <2>1. k <= Len(s) => l[k] \in Chunks
    BY <1>1, <1>2
  <2> QED
    BY <1>1, <2>1, ChunkAssumption
<1> QED
  BY <1>3, <1>4 DEF Ends, l

\* Chain(b) has each chunk of the list that starts at b once, and no other chunk.
LEMMA ChainOnce ==
  ASSUME TypeOK, NEW s, NEW b, IsList(s, b, fd), NEW name, NEW c \in Chunks
  PROVE  /\ c \notin Range(s) => InList(name, Chain(b), c) = {}
         /\ c \in Range(s) => \E y : InList(name, Chain(b), c) = {y}
<1> DEFINE n == Cardinality(Chunks)
           l == Chain(b)
<1>1. /\ n \in Nat /\ DOMAIN l = 1 .. n + 1 /\ Len(s) \in Nat /\ Len(s) <= n
      /\ \A k \in DOMAIN l : l[k] = IF k <= Len(s) THEN s[k] ELSE NULL
  BY ChainShows
<1>2. s \in Seq(Chunks) /\ IsInjective(s) /\ DOMAIN s = 1 .. Len(s)
  BY DEF IsList
<1> HIDE DEF n, l
<1>3. {j \in DOMAIN l : l[j] = c} = {j \in DOMAIN s : s[j] = c}
  <2>1. ASSUME NEW j PROVE j \in DOMAIN l /\ l[j] = c <=> j \in DOMAIN s /\ s[j] = c
    <3>1. c # NULL
      BY ChunkAssumption
    <3>2. j \in DOMAIN l => (j \in DOMAIN s <=> j <= Len(s))
      BY <1>1, <1>2
    <3>3. j \in DOMAIN s => j \in DOMAIN l /\ j <= Len(s)
      BY <1>1, <1>2
    <3> QED
      BY <1>1, <3>1, <3>2, <3>3
  <2> QED
    BY <2>1
<1>4. InList(name, l, c) = InList(name, s, c)
  BY <1>3 DEF InList
<1> QED
  BY <1>2, <1>4, FoundOnce DEF l

\* What of Places(c) is of thread t.
OfFields(t, c) == {<<t, f>> : f \in {g \in {"p", "got"} : th[t][g] = c}}
OfTodo(t, c) == {<<t, x>> : x \in InList("todo", th[t].todo, c)}
OfEntries(t, c) == {<<t, x>> : x \in InList("entries", tcache[t].entries, c)}
OfMem(t, c) == IF tcache[t].mem = c THEN {<<t, "mem">>} ELSE {}
OfWalk(t, c) == IF th[t].pc = "walk" THEN {<<t, x>> : x \in InList("walk", Chain(th[t].old), c)} ELSE {}
OfThread(t, c) == OfFields(t, c) \cup OfTodo(t, c) \cup OfEntries(t, c) \cup OfMem(t, c) \cup OfWalk(t, c)

LEMMA PlacesParts ==
  ASSUME NEW c
  PROVE  Places(c) = (IF c \in arena THEN {<<"arena">>} ELSE {}) \cup (IF c \in held THEN {<<"held">>} ELSE {})
                       \cup InList("fast", Chain(fb), c) \cup UNION {OfThread(t, c) : t \in Threads}
  BY DEF Places, InList, OfThread, OfFields, OfTodo, OfEntries, OfMem, OfWalk

\* Pairing with a thread keeps a single element single.
With(t, S) == {<<t, x>> : x \in S}

LEMMA Paired ==
  ASSUME NEW t, NEW S
  PROVE  /\ S = {} => With(t, S) = {}
         /\ (\E y : S = {y}) => \E z : With(t, S) = {z}
<1>1. ASSUME NEW y, S = {y} PROVE With(t, S) = {<<t, y>>}
  BY <1>1 DEF With
<1>2. S = {} => With(t, S) = {}
  BY DEF With
<1> QED
  BY <1>1, <1>2

\* A chunk of kind k and owner b is with t or in the list t walks.
IsWith(t, k, b) == b = t \/ (k = "walk" /\ th[t].pc = "walk")

\* What t has of c: one place, if c is with t; else none.
LEMMA OfThreadOnce ==
  ASSUME TypeOK, Knows, NEW kind, NEW by, NEW fast, NEW walk, Owners(kind, by, fast, walk),
         NEW t \in Threads, NEW c \in Chunks
  PROVE  /\ IsWith(t, kind[c], by[c]) => \E y : OfThread(t, c) = {y}
         /\ ~IsWith(t, kind[c], by[c]) => OfThread(t, c) = {}
<1>1. PICK x, k, K, B : x = th[t] /\ k = tcache[t] /\ K = kind[c] /\ B = by[c]
  OBVIOUS
<1>2. Sits(kind, by, t, x, k) /\ Looks(x, fd, fast, walk) /\ t # NULL
  BY <1>1, ChunkAssumption DEF Owners
<1>3. /\ K \in Kind /\ (B = NULL <=> K \in Common) /\ (K = "walk" <=> c \in Range(walk))
  BY <1>1 DEF Owners, Owner, SharedOwned
<1>4. /\ (K = "p" /\ B = t) <=> c = x.p
      /\ (K = "got" /\ B = t) <=> c = x.got
      /\ (K = "mem" /\ B = t) <=> c = k.mem
      /\ (K = "todo" /\ B = t) <=> c \in Range(x.todo)
      /\ (K = "entries" /\ B = t) <=> c \in Range(k.entries)
  BY <1>1, <1>2 DEF Sits
<1>5. x \in Thread /\ x.todo \in Seq(Chunks) /\ IsInjective(x.todo)
      /\ k.entries \in Seq(Chunks) /\ IsInjective(k.entries)
  BY <1>1, <1>2 DEF Sits, TypeOK, Knows, Known
<1>6. /\ ~(B = t /\ K \in {"p", "got"}) => OfFields(t, c) = {}
      /\ B = t /\ K \in {"p", "got"} => \E y : OfFields(t, c) = {y}
  <2>1. \A g \in {"p", "got"} : x[g] = c <=> K = g /\ B = t
    BY <1>4
  <2>2. ASSUME B = t, K \in {"p", "got"} PROVE OfFields(t, c) = {<<t, K>>}
    <3>1. {g \in {"p", "got"} : x[g] = c} = {K}
      BY <2>1, <2>2
    <3> QED
      BY <1>1, <3>1 DEF OfFields
  <2>3. ASSUME ~(B = t /\ K \in {"p", "got"}) PROVE OfFields(t, c) = {}
    <3>1. {g \in {"p", "got"} : x[g] = c} = {}
      BY <2>1, <2>3
    <3> QED
      BY <1>1, <3>1 DEF OfFields
  <2> QED
    BY <2>2, <2>3
<1>7. /\ ~(B = t /\ K = "todo") => OfTodo(t, c) = {}
      /\ B = t /\ K = "todo" => \E y : OfTodo(t, c) = {y}
  <2>1. PICK S : S = InList("todo", x.todo, c)
    OBVIOUS
  <2>2. PICK W : W = With(t, S)
    OBVIOUS
  <2>3. OfTodo(t, c) = W
    BY <1>1, <2>1, <2>2 DEF OfTodo, With
  <2>4. /\ c \notin Range(x.todo) => S = {}
        /\ c \in Range(x.todo) => \E y : S = {y}
    BY <1>5, <2>1, FoundOnce
  <2>5. /\ S = {} => W = {}
        /\ (\E y : S = {y}) => \E z : W = {z}
    BY <2>2, Paired
  <2> QED
    BY <1>4, <2>3, <2>4, <2>5
<1>8. /\ ~(B = t /\ K = "entries") => OfEntries(t, c) = {}
      /\ B = t /\ K = "entries" => \E y : OfEntries(t, c) = {y}
  <2>1. PICK S : S = InList("entries", k.entries, c)
    OBVIOUS
  <2>2. PICK W : W = With(t, S)
    OBVIOUS
  <2>3. OfEntries(t, c) = W
    BY <1>1, <2>1, <2>2 DEF OfEntries, With
  <2>4. /\ c \notin Range(k.entries) => S = {}
        /\ c \in Range(k.entries) => \E y : S = {y}
    BY <1>5, <2>1, FoundOnce
  <2>5. /\ S = {} => W = {}
        /\ (\E y : S = {y}) => \E z : W = {z}
    BY <2>2, Paired
  <2> QED
    BY <1>4, <2>3, <2>4, <2>5
<1>9. /\ ~(B = t /\ K = "mem") => OfMem(t, c) = {}
      /\ B = t /\ K = "mem" => \E y : OfMem(t, c) = {y}
  BY <1>1, <1>4 DEF OfMem
<1>10. /\ ~(x.pc = "walk" /\ K = "walk") => OfWalk(t, c) = {}
       /\ x.pc = "walk" /\ K = "walk" => \E y : OfWalk(t, c) = {y}
  <2>1. CASE x.pc = "walk"
    <3>1. PICK S : S = InList("walk", Chain(x.old), c)
      OBVIOUS
    <3>2. PICK W : W = With(t, S)
      OBVIOUS
    <3>3. IsList(walk, x.old, fd)
      BY <1>2, <2>1 DEF Looks
    <3>4. (c \notin Range(walk) => S = {}) /\ (c \in Range(walk) => \E y : S = {y})
      BY <3>1, <3>3, ChainOnce
    <3>5. OfWalk(t, c) = W
      BY <1>1, <2>1, <3>1, <3>2 DEF OfWalk, With
    <3>6. /\ S = {} => W = {}
          /\ (\E y : S = {y}) => \E z : W = {z}
      BY <3>2, Paired
    <3> QED
      BY <1>3, <2>1, <3>4, <3>5, <3>6
  <2>2. CASE x.pc # "walk"
    BY <1>1, <2>2 DEF OfWalk
  <2> QED
    BY <2>1, <2>2
<1>11. B = t => K \in {"p", "got", "todo", "entries", "mem"}
  BY <1>2, <1>3 DEF Kind, Common
<1>12. K = "walk" => B # t
  BY <1>2, <1>3 DEF Common
<1> HIDE <1>2, <1>3, <1>4, <1>5
<1>13. /\ B = t \/ (K = "walk" /\ x.pc = "walk") => \E y : OfThread(t, c) = {y}
       /\ ~(B = t \/ (K = "walk" /\ x.pc = "walk")) => OfThread(t, c) = {}
  <2>1. CASE ~(B = t \/ (K = "walk" /\ x.pc = "walk"))
    BY <1>6, <1>7, <1>8, <1>9, <1>10, <2>1 DEF OfThread
  <2>2. CASE K = "walk" /\ x.pc = "walk"
    <3>1. OfFields(t, c) = {} /\ OfTodo(t, c) = {} /\ OfEntries(t, c) = {} /\ OfMem(t, c) = {}
      BY <1>6, <1>7, <1>8, <1>9, <1>12, <2>2
    <3> QED
      BY <1>10, <2>2, <3>1 DEF OfThread
  <2>3. CASE B = t /\ K \in {"p", "got"}
    <3>1. OfWalk(t, c) = {} /\ OfTodo(t, c) = {} /\ OfEntries(t, c) = {} /\ OfMem(t, c) = {}
      BY <1>7, <1>8, <1>9, <1>10, <2>3
    <3> QED
      BY <1>6, <2>3, <3>1 DEF OfThread
  <2>4. CASE B = t /\ K = "todo"
    <3>1. OfWalk(t, c) = {} /\ OfFields(t, c) = {} /\ OfEntries(t, c) = {} /\ OfMem(t, c) = {}
      BY <1>6, <1>8, <1>9, <1>10, <2>4
    <3> QED
      BY <1>7, <2>4, <3>1 DEF OfThread
  <2>5. CASE B = t /\ K = "entries"
    <3>1. OfWalk(t, c) = {} /\ OfFields(t, c) = {} /\ OfTodo(t, c) = {} /\ OfMem(t, c) = {}
      BY <1>6, <1>7, <1>9, <1>10, <2>5
    <3> QED
      BY <1>8, <2>5, <3>1 DEF OfThread
  <2>6. CASE B = t /\ K = "mem"
    <3>1. OfWalk(t, c) = {} /\ OfFields(t, c) = {} /\ OfTodo(t, c) = {} /\ OfEntries(t, c) = {}
      BY <1>6, <1>7, <1>8, <1>10, <2>6
    <3> QED
      BY <1>9, <2>6, <3>1 DEF OfThread
  <2> QED
    BY <1>11, <2>1, <2>2, <2>3, <2>4, <2>5, <2>6
<1> QED
  BY <1>1, <1>13 DEF IsWith

\* Only one thread walks a list, for it has the mutex.
LEMMA OneWalks ==
  ASSUME Knows, NEW s \in Threads, NEW t \in Threads, th[s].pc = "walk", th[t].pc = "walk"
  PROVE  s = t
  BY DEF Knows, Known, Locked

LEMMA OnePlace ==
  ASSUME TypeOK, Knows, NEW kind, NEW by, NEW fast, NEW walk, Owners(kind, by, fast, walk), NEW c \in Chunks
  PROVE  \E y : Places(c) = {y}
<1>1. PICK K, B, F, U : /\ K = kind[c] /\ B = by[c] /\ F = InList("fast", Chain(fb), c)
                        /\ U = UNION {OfThread(t, c) : t \in Threads}
  OBVIOUS
<1>2. /\ K \in Kind /\ B \in Threads \cup {NULL} /\ (B = NULL <=> K \in Common)
      /\ (K = "arena" <=> c \in arena) /\ (K = "held" <=> c \in held)
      /\ (K = "fast" <=> c \in Range(fast)) /\ (K = "walk" <=> c \in Range(walk))
      /\ IsList(fast, fb, fd)
  BY <1>1 DEF Owners, Owner, SharedOwned
<1>3. (K # "fast" => F = {}) /\ (K = "fast" => \E y : F = {y})
  BY <1>1, <1>2, ChainOnce
<1>4. ASSUME B \notin Threads, K # "walk" PROVE U = {}
  <2>1. ASSUME NEW t \in Threads PROVE OfThread(t, c) = {}
    <3>1. ~IsWith(t, kind[c], by[c])
      BY <1>1, <1>4 DEF IsWith
    <3> HIDE <1>1, <1>4
    <3> QED
      BY <3>1, OfThreadOnce
  <2> QED
    BY <1>1, <2>1
<1>5. ASSUME B \in Threads \/ K = "walk" PROVE \E y : U = {y}
  <2>1. PICK t \in Threads : /\ B = t \/ (K = "walk" /\ th[t].pc = "walk")
                             /\ \A s \in Threads : s # t => ~(B = s \/ (K = "walk" /\ th[s].pc = "walk"))
    <3>1. CASE B \in Threads
      <4>1. K # "walk"
        BY <1>2, <3>1, ChunkAssumption DEF Common
      <4> QED
        BY <3>1, <4>1
    <3>2. CASE B \notin Threads
      <4>1. K = "walk" /\ walk # <<>>
        BY <1>2, <1>5, <3>2, NothingThere
      <4>2. PICK t \in Threads : th[t].pc = "walk"
        BY <4>1 DEF Owners
      <4>3. \A s \in Threads : th[s].pc = "walk" => s = t
        BY <4>2, OneWalks
      <4> QED
        BY <3>2, <4>1, <4>2, <4>3
    <3> QED
      BY <3>1, <3>2
  <2>2. PICK y : OfThread(t, c) = {y}
    <3>1. IsWith(t, kind[c], by[c])
      BY <1>1, <2>1 DEF IsWith
    <3> HIDE <1>1, <1>5, <2>1
    <3> QED
      BY <3>1, OfThreadOnce
  <2>3. ASSUME NEW s \in Threads, s # t PROVE OfThread(s, c) = {}
    <3>1. ~IsWith(s, kind[c], by[c])
      BY <1>1, <2>1, <2>3 DEF IsWith
    <3> HIDE <1>1, <1>5, <2>1
    <3> QED
      BY <3>1, OfThreadOnce
  <2>4. U = {y}
    <3>1. y \in U
      BY <1>1, <2>2
    <3>2. ASSUME NEW z \in U PROVE z = y
      <4>1. PICK s \in Threads : z \in OfThread(s, c)
        BY <1>1, <3>2
      <4>2. s = t
        BY <2>3, <4>1
      <4> QED
        BY <2>2, <4>1, <4>2
    <3> QED
      BY <3>1, <3>2
  <2> QED
    BY <2>4
<1>6. Places(c) = (IF c \in arena THEN {<<"arena">>} ELSE {}) \cup (IF c \in held THEN {<<"held">>} ELSE {})
                    \cup F \cup U
  BY <1>1, PlacesParts
<1>7. K \notin {"arena", "held", "fast"} => B \in Threads \/ K = "walk"
  BY <1>2 DEF Common
<1>8. K \in {"arena", "held", "fast"} => B \notin Threads /\ K # "walk"
  BY <1>2, ChunkAssumption DEF Common
<1>9. CASE K = "arena"
  BY <1>2, <1>3, <1>4, <1>6, <1>8, <1>9
<1>10. CASE K = "held"
  BY <1>2, <1>3, <1>4, <1>6, <1>8, <1>10
<1>11. CASE K = "fast"
  BY <1>2, <1>3, <1>4, <1>6, <1>8, <1>11
<1>12. CASE K \notin {"arena", "held", "fast"}
  BY <1>2, <1>3, <1>5, <1>6, <1>7, <1>12
<1> QED
  BY <1>9, <1>10, <1>11, <1>12

\* However frees race with allocations, consolidations and exits, every chunk is in
\* one place, and the lists of the fast bin end.
THEOREM ChunkHasOneOwner == Spec => []OneOwner
<1>1. IInv /\ OInv => OneOwner
  <2> SUFFICES ASSUME IInv, OInv PROVE OneOwner
    OBVIOUS
  <2>1. TypeOK /\ Knows
    BY DEF IInv, OInv
  <2>2. PICK kind, by, fast, walk : Owners(kind, by, fast, walk)
    BY DEF OInv, Owned
  <2>3. ASSUME NEW c \in Chunks PROVE Cardinality(Places(c)) = 1
    <3>1. PICK y : Places(c) = {y}
      BY <2>1, <2>2, OnePlace
    <3>2. Cardinality({y}) = 1
      BY FS_Singleton
    <3> QED
      BY <3>1, <3>2
  <2>4. Ends(fb)
    <3>1. IsList(fast, fb, fd)
      BY <2>2 DEF Owners, SharedOwned
    <3> QED
      BY <2>1, <3>1, ListEnds
  <2>5. ASSUME NEW t \in Threads, th[t].pc = "walk" PROVE Ends(th[t].old)
    <3>1. IsList(walk, th[t].old, fd)
      BY <2>2, <2>5 DEF Owners, Looks
    <3> QED
      BY <2>1, <3>1, ListEnds
  <2> QED
    BY <2>3, <2>4, <2>5 DEF OneOwner
<1> QED
  BY <1>1, ThreadsInvariant, ThreadsOwn, PTL
=============================================================================
