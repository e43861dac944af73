--------------------------- MODULE LibraryProofs ---------------------------
(***************************************************************************)
(* Proofs about the I/O library and the dictionary program.                *)
(*                                                                         *)
(* WordReader and Dictionary, for buffers of every size, every input and   *)
(* every list of words: read_word writes into its buffer only, read errors *)
(* included; as long as no read fails it returns the next word of the      *)
(* input, and the dictionary gives the right answer.                       *)
(*                                                                         *)
(* IoNumbers, for every width of a word, every number and every text: what *)
(* is printed is the number's numeral, and what is parsed is the numeral   *)
(* the text begins with, up to a multiple of the word's range.             *)
(***************************************************************************)
EXTENDS Dictionary, IoNumbers, Induction

-----------------------------------------------------------------------------
(* The invariant of the reader *)

\* Between two characters of a word there is room for one more and for the zero.
RoomLeft ==
  /\ pc \in {"store", "read_loop"} => length < size
  /\ pc = "skip_spaces" => length = 0 /\ size > 0

\* The call of read_word has returned.
Answered == pc \notin {"idle", "skip_spaces", "store", "read_loop"}

\* What the buffer holds, even if a read has failed.
Written ==
  /\ pc \in {"store", "read_loop"} \/ (Answered /\ returned = "buffer")
       => \A i \in 0 .. length - 1 : buffer[i] \in Bytes
  /\ pc = "read_loop" => length >= 1
  /\ Answered /\ returned = "buffer" => /\ length >= 1 /\ length < size
                                   /\ buffer[length] = NUL

\* There are only blanks before position st, and k bytes of a word from there on.
Skipped(st) == \A j \in from .. st - 1 : stdin[j + 1] = Blank
Collected(st, k) ==
  /\ Skipped(st)
  /\ st + k <= Len(stdin)
  /\ \A j \in st .. st + k - 1 : stdin[j + 1] \notin Delimiters
Copied(st) == \A i \in 0 .. length - 1 : buffer[i] = stdin[st + i + 1]

\* How far the call has come in the input, as long as no read has failed.
Progress ==
  ~failed =>
    /\ pc = "skip_spaces" => Skipped(taken)
    /\ pc = "store" =>
         \E st \in from .. Len(stdin) :
           /\ Collected(st, length + 1) /\ Copied(st)
           /\ taken = st + length + 1 /\ al = stdin[taken]
    /\ pc = "read_loop" =>
         \E st \in from .. Len(stdin) :
           Collected(st, length) /\ Copied(st) /\ taken = st + length
    /\ Answered /\ returned = "buffer" =>
         \E st \in from .. Len(stdin) :
           /\ Collected(st, length) /\ Copied(st)
           /\ taken \in {st + length, st + length + 1}
           /\ st + length < Len(stdin) => stdin[st + length + 1] \in Delimiters
    /\ Answered /\ returned = "null" =>
         \E st \in from .. Len(stdin) :
           \/ Collected(st, size)
           \/ Skipped(st) /\ (st < Len(stdin) => stdin[st + 1] = NUL)

RInv == ReaderState /\ RoomLeft /\ NoOverrun /\ Written /\ Progress

\* The variables are numbers, and a place before the end is in the buffer.
LEMMA Numbers ==
  ASSUME ReaderState
  PROVE  /\ Len(stdin) \in Nat /\ taken \in 0 .. Len(stdin) /\ from \in 0 .. taken
         /\ size \in Nat /\ length \in 0 .. size
         /\ \A i \in 0 .. size - 1 : i \in Memory
         /\ \A i \in 1 .. Len(stdin) : stdin[i] \in Bytes
         /\ stdin \in Seq(Bytes)
<1>1. stdin \in Seq(Bytes)
  BY ByteAssumption DEF ReaderState, Bytes
<1>2. Len(stdin) \in Nat /\ \A i \in 1 .. Len(stdin) : stdin[i] \in Bytes
  BY <1>1
<1>3. size \in Nat /\ length \in 0 .. size /\ taken \in 0 .. Len(stdin) /\ from \in 0 .. taken
  BY SizeAssumption DEF ReaderState
<1>4. ASSUME NEW i \in 0 .. size - 1
      PROVE  i \in Memory
  <2> DEFINE m == CHOOSE m \in BufferSizes : \A n \in BufferSizes : n <= m
  <2>1. m \in BufferSizes /\ \A n \in BufferSizes : n <= m
    BY SizeAssumption
  <2>2. m \in Nat /\ size <= m
    BY <2>1, SizeAssumption DEF ReaderState
  <2> HIDE DEF m
  <2> QED
    BY <1>3, <2>2 DEF Memory, m
<1> QED
  BY <1>1, <1>2, <1>3, <1>4

LEMMA InitInv ==
  ASSUME ReaderInit
  PROVE  RInv
<1>1. Len(stdin) \in Nat /\ size \in Nat
  BY ByteAssumption, SizeAssumption DEF ReaderInit
<1>2. taken \in 0 .. Len(stdin) /\ length \in 0 .. size /\ from \in 0 .. taken
  BY <1>1 DEF ReaderInit
<1>3. buffer \in [Memory -> Bytes \union {Garbage}] /\ al \in Bytes
  BY DEF ReaderInit, Bytes
<1>4. failed \in BOOLEAN
  BY Zenon DEF ReaderInit
<1>5. ReaderState
  BY <1>2, <1>3, <1>4 DEF ReaderInit, ReaderState
<1> QED
  BY <1>5 DEF ReaderInit, RInv, RoomLeft, NoOverrun, Written, Progress, Answered

\* What read_char returns is a byte, the next one of stdin if the read does not
\* fail, and stdin is never read past its end.
LEMMA ReadChar ==
  ASSUME ReaderState, NEW c \in Bytes, read_char(c)
  PROVE  /\ taken' \in 0 .. Len(stdin) /\ slot' \in Bytes /\ from \in 0 .. taken'
         /\ failed' \in BOOLEAN
         /\ ~failed' => /\ ~failed
                        /\ \/ taken < Len(stdin) /\ c = stdin[taken + 1] /\ taken' = taken + 1
                           \/ taken = Len(stdin) /\ c = NUL /\ taken' = taken
<1>1. Len(stdin) \in Nat /\ taken \in 0 .. Len(stdin) /\ from \in 0 .. taken
  BY Numbers
<1>2. taken' \in 0 .. Len(stdin) /\ from \in 0 .. taken'
  BY <1>1 DEF read_char
<1>3. slot' \in Bytes
  BY DEF read_char, ReaderState, Bytes
<1>4. failed' \in BOOLEAN
  BY Zenon DEF read_char, ReaderState
<1>5. ~failed' => /\ ~failed
                  /\ \/ taken < Len(stdin) /\ c = stdin[taken + 1] /\ taken' = taken + 1
                     \/ taken = Len(stdin) /\ c = NUL /\ taken' = taken
  BY <1>1, Zenon DEF read_char
<1> QED
  BY <1>2, <1>3, <1>4, <1>5

LEMMA CallKeeps ==
  ASSUME RInv, NEW n \in BufferSizes, Call(n)
  PROVE  RInv'
<1>1. /\ size' = n /\ length' = 0 /\ from' = taken
      /\ UNCHANGED <<stdin, taken, slot, al, failed>>
      /\ buffer' = [i \in Memory |-> Garbage]
      /\ \/ n = 0 /\ returned' = "null" /\ pc' = "done"
         \/ n # 0 /\ returned' = returned /\ pc' = "skip_spaces"
  BY DEF Call, Return
<1>2. n \in Nat /\ Len(stdin) \in Nat /\ taken \in 0 .. Len(stdin)
  BY SizeAssumption, Numbers DEF RInv
<1>3. ReaderState'
  BY <1>1, <1>2 DEF RInv, ReaderState, Memory, Bytes
<1>4. RoomLeft'
  BY <1>1, <1>2 DEF RoomLeft
<1>5. NoOverrun'
  BY <1>1 DEF NoOverrun, Memory
<1>6. Written'
  BY <1>1 DEF Written, Answered
<1>7. Progress'
  <2>1. CASE n = 0
    <3>1. taken \in from' .. Len(stdin)
      BY <1>1, <1>2
    <3>2. Collected(taken, size)'
      BY <1>1, <1>2, <2>1 DEF Collected, Skipped
    <3> QED
      BY <1>1, <2>1, <3>1, <3>2 DEF Progress, Answered
  <2>2. CASE n # 0
    <3>1. Skipped(taken)'
      BY <1>1, <1>2 DEF Skipped
    <3> QED
      BY <1>1, <2>2, <3>1 DEF Progress, Answered
  <2> QED
    BY <2>1, <2>2
<1> QED
  BY <1>3, <1>4, <1>5, <1>6, <1>7 DEF RInv

LEMMA SkipSpacesKeeps ==
  ASSUME RInv, SkipSpaces
  PROVE  RInv'
<1>1. PICK c \in Bytes :
        /\ read_char(c)
        /\ al' = c
        /\ \/ c = NUL /\ returned' = "null" /\ pc' = "done"
           \/ c = Blank /\ UNCHANGED <<pc, returned>>
           \/ c \notin Delimiters /\ pc' = "store" /\ UNCHANGED returned
  BY DEF SkipSpaces, Return, Delimiters
<1>2. pc = "skip_spaces" /\ UNCHANGED <<stdin, buffer, size, length, from>>
  BY DEF SkipSpaces
<1>3. /\ taken' \in 0 .. Len(stdin) /\ slot' \in Bytes /\ from \in 0 .. taken'
      /\ failed' \in BOOLEAN
  BY <1>1, ReadChar DEF RInv
<1>4. ReaderState'
  BY <1>1, <1>2, <1>3 DEF RInv, ReaderState, Bytes, Memory
<1>5. RoomLeft' /\ length = 0 /\ size > 0
  BY <1>1, <1>2 DEF RInv, RoomLeft
<1>6. NoOverrun'
  BY <1>2 DEF RInv, NoOverrun, Memory
<1>7. Written'
  BY <1>1, <1>2, <1>5 DEF Written, Answered
<1>8. ASSUME ~failed'
      PROVE  Progress'
  <2>1. /\ ~failed
        /\ \/ taken < Len(stdin) /\ c = stdin[taken + 1] /\ taken' = taken + 1
           \/ taken = Len(stdin) /\ c = NUL /\ taken' = taken
    BY <1>1, <1>8, ReadChar DEF RInv
  <2>2. /\ Len(stdin) \in Nat /\ taken \in 0 .. Len(stdin) /\ from \in 0 .. taken
        /\ taken \in from .. Len(stdin)
    BY Numbers DEF RInv
  <2>3. Skipped(taken)
    BY <1>2, <2>1 DEF RInv, Progress
  <2>4. CASE c = NUL
    <3>1. pc' = "done" /\ returned' = "null"
      BY <1>1, <2>4, ByteAssumption DEF Delimiters
    <3>2. ASSUME NEW t, t = taken
          PROVE  Skipped(t)' /\ (t < Len(stdin) => stdin[t + 1] = NUL)
      BY <1>2, <2>1, <2>3, <2>4, <3>2 DEF Skipped
    <3>3. \E st \in from' .. Len(stdin') : Skipped(st)' /\ (st < Len(stdin') => stdin'[st + 1] = NUL)
      BY <1>2, <2>2, <3>2
    <3> QED
      BY <3>1, <3>3 DEF Progress, Answered
  <2>5. CASE c = Blank
    <3>1. pc' = "skip_spaces"
      BY <1>1, <1>2, <2>5, ByteAssumption DEF Delimiters
    <3>2. taken' = taken + 1 /\ stdin[taken + 1] = Blank
      BY <2>1, <2>5, ByteAssumption
    <3>3. Skipped(taken)'
      BY <1>2, <2>2, <2>3, <3>2 DEF Skipped
    <3> QED
      BY <3>1, <3>3 DEF Progress, Answered
  <2>6. CASE c \notin Delimiters
    <3>1. pc' = "store"
      BY <1>1, <2>6 DEF Delimiters
    <3>2. taken' = taken + 1 /\ taken + 1 <= Len(stdin) /\ stdin[taken + 1] = c
      BY <2>1, <2>2, <2>6 DEF Delimiters
    <3>3. ASSUME NEW t, t = taken
          PROVE  Collected(t, 1)' /\ Copied(t)'
      BY <1>2, <1>5, <2>2, <2>3, <2>6, <3>2, <3>3 DEF Collected, Skipped, Copied
    <3>4. \E st \in from' .. Len(stdin') :
            /\ Collected(st, length + 1)' /\ Copied(st)'
            /\ taken' = st + length' + 1 /\ al' = stdin'[taken']
      BY <1>1, <1>2, <1>5, <2>2, <3>2, <3>3
    <3> QED
      BY <3>1, <3>4 DEF Progress, Answered
  <2> QED
    BY <1>1, <2>4, <2>5, <2>6
<1>9. Progress'
  BY <1>8 DEF Progress
<1> QED
  BY <1>4, <1>5, <1>6, <1>7, <1>9 DEF RInv

LEMMA StoreKeeps ==
  ASSUME RInv, Store
  PROVE  RInv'
<1>1. /\ pc = "store"
      /\ buffer' = [buffer EXCEPT ![length] = al]
      /\ length' = length + 1
      /\ \/ length + 1 >= size /\ returned' = "null" /\ pc' = "done"
         \/ ~(length + 1 >= size) /\ returned' = returned /\ pc' = "read_loop"
      /\ UNCHANGED <<stdin, taken, slot, al, size, from, failed>>
  BY DEF Store, Return
<1>2. /\ Len(stdin) \in Nat /\ taken \in 0 .. Len(stdin) /\ from \in 0 .. taken
      /\ size \in Nat /\ length \in 0 .. size /\ length < size
      /\ length \in Memory
  BY <1>1, Numbers DEF RInv, RoomLeft
<1>3. buffer \in [Memory -> Bytes \union {Garbage}] /\ al \in Bytes
  BY DEF RInv, ReaderState
<1>4. /\ buffer' \in [Memory -> Bytes \union {Garbage}]
      /\ buffer'[length] = al
      /\ \A i : i # length => buffer'[i] = buffer[i]
  BY <1>1, <1>2, <1>3
<1>5. ReaderState'
  BY <1>1, <1>2, <1>4 DEF RInv, ReaderState, Memory, Bytes
<1>6. RoomLeft'
  BY <1>1, <1>2 DEF RoomLeft
<1>7. NoOverrun'
  BY <1>1, <1>2, <1>4 DEF RInv, NoOverrun, Memory
<1>8. Written'
  <2>1. \A i \in 0 .. length - 1 : buffer[i] \in Bytes
    BY <1>1 DEF RInv, Written
  <2>2. \A i \in 0 .. length' - 1 : buffer'[i] \in Bytes
    BY <1>1, <1>2, <1>3, <1>4, <2>1
  <2> QED
    BY <1>1, <1>2, <2>2 DEF Written, Answered, Bytes
<1>9. ASSUME ~failed'
      PROVE  Progress'
  <2>1. PICK st \in from .. Len(stdin) :
          /\ Collected(st, length + 1) /\ Copied(st)
          /\ taken = st + length + 1 /\ al = stdin[taken]
    BY <1>1, <1>9 DEF RInv, Progress
  <2>2. Collected(st, length)'
    BY <1>1, <2>1 DEF Collected, Skipped
  <2>3. Copied(st)'
    BY <1>1, <1>2, <1>4, <2>1 DEF Copied
  <2>4. taken' = st + length'
    BY <1>1, <1>2, <2>1
  <2>5. CASE length + 1 >= size
    <3>1. length + 1 = size
      BY <1>2, <2>5
    <3>2. Collected(st, size)'
      BY <1>1, <2>2, <3>1 DEF Collected, Skipped
    <3> QED
      BY <1>1, <2>1, <2>5, <3>2 DEF Progress, Answered
  <2>6. CASE ~(length + 1 >= size)
    BY <1>1, <2>1, <2>2, <2>3, <2>4, <2>6 DEF Progress, Answered
  <2> QED
    BY <2>5, <2>6
<1>10. Progress'
  BY <1>9 DEF Progress
<1> QED
  BY <1>5, <1>6, <1>7, <1>8, <1>10 DEF RInv

LEMMA ReadLoopKeeps ==
  ASSUME RInv, ReadLoop
  PROVE  RInv'
<1>1. PICK c \in Bytes :
        /\ read_char(c)
        /\ al' = c
        /\ \/ /\ c \in Delimiters /\ returned' = "buffer" /\ pc' = "done"
              /\ buffer' = [buffer EXCEPT ![length] = NUL]
           \/ c \notin Delimiters /\ pc' = "store" /\ UNCHANGED <<returned, buffer>>
  BY DEF ReadLoop, Return
<1>2. pc = "read_loop" /\ UNCHANGED <<stdin, size, length, from>>
  BY DEF ReadLoop
<1>3. /\ taken' \in 0 .. Len(stdin) /\ slot' \in Bytes /\ from \in 0 .. taken'
      /\ failed' \in BOOLEAN
  BY <1>1, ReadChar DEF RInv
<1>4. /\ Len(stdin) \in Nat /\ taken \in 0 .. Len(stdin) /\ from \in 0 .. taken
      /\ size \in Nat /\ length \in 0 .. size /\ length < size
      /\ length \in Memory /\ length >= 1
  BY <1>2, Numbers DEF RInv, RoomLeft, Written
<1>5. buffer \in [Memory -> Bytes \union {Garbage}]
  BY DEF RInv, ReaderState
<1>6. /\ buffer' \in [Memory -> Bytes \union {Garbage}]
      /\ \A i : i # length => buffer'[i] = buffer[i]
      /\ c \in Delimiters => buffer'[length] = NUL
  <2>1. CASE buffer' = [buffer EXCEPT ![length] = NUL]
    BY <1>4, <1>5, <2>1 DEF Bytes
  <2>2. CASE c \notin Delimiters /\ buffer' = buffer
    BY <1>5, <2>2
  <2> QED
    BY <1>1, <2>1, <2>2
<1>7. ReaderState'
  BY <1>1, <1>2, <1>3, <1>6 DEF RInv, ReaderState, Bytes, Memory
<1>8. RoomLeft'
  BY <1>1, <1>2, <1>4 DEF RoomLeft
<1>9. NoOverrun'
  BY <1>2, <1>4, <1>6 DEF RInv, NoOverrun, Memory
<1>10. Written'
  <2>1. \A i \in 0 .. length - 1 : buffer[i] \in Bytes
    BY <1>2 DEF RInv, Written
  <2>2. \A i \in 0 .. length' - 1 : buffer'[i] \in Bytes
    BY <1>2, <1>4, <1>6, <2>1 DEF Bytes
  <2> QED
    BY <1>1, <1>2, <1>4, <1>6, <2>2 DEF Written, Answered, Bytes
<1>11. ASSUME ~failed'
       PROVE  Progress'
  <2>1. /\ ~failed
        /\ \/ taken < Len(stdin) /\ c = stdin[taken + 1] /\ taken' = taken + 1
           \/ taken = Len(stdin) /\ c = NUL /\ taken' = taken
    BY <1>1, <1>11, ReadChar DEF RInv
  <2>2. PICK st \in from .. Len(stdin) :
          Collected(st, length) /\ Copied(st) /\ taken = st + length
    BY <1>2, <2>1 DEF RInv, Progress
  <2>3. Copied(st)'
    BY <1>2, <1>4, <1>6, <2>2 DEF Copied
  <2>4. Collected(st, length)'
    BY <1>2, <2>2 DEF Collected, Skipped
  <2>5. st \in from' .. Len(stdin')
    BY <1>2
  <2>6. CASE c \in Delimiters
    <3>1. taken' \in {st + length', st + length' + 1}
      BY <1>2, <1>4, <2>1, <2>2
    <3>2. st + length < Len(stdin) => stdin[st + length + 1] \in Delimiters
      BY <2>1, <2>2, <2>6
    <3> QED
      BY <1>1, <1>2, <2>3, <2>4, <2>5, <2>6, <3>1, <3>2 DEF Progress, Answered
  <2>7. CASE c \notin Delimiters
    <3>1. taken < Len(stdin) /\ c = stdin[taken + 1] /\ taken' = taken + 1
      BY <2>1, <2>7 DEF Delimiters
    <3>2. Collected(st, length + 1)'
      BY <1>2, <1>4, <2>2, <2>7, <3>1 DEF Collected, Skipped, Delimiters
    <3>3. taken' = st + length' + 1 /\ al' = stdin'[taken']
      BY <1>1, <1>2, <1>4, <2>2, <3>1
    <3>4. pc' = "store"
      BY <1>1, <2>7
    <3> QED
      BY <2>3, <2>5, <3>2, <3>3, <3>4 DEF Progress, Answered
  <2> QED
    BY <2>6, <2>7
<1>12. Progress'
  BY <1>11 DEF Progress
<1> QED
  BY <1>7, <1>8, <1>9, <1>10, <1>12 DEF RInv

\* The variables of the reader but for its place.
held == <<stdin, taken, slot, al, buffer, size, length, returned, from, failed>>

\* A step that leaves them alone keeps the invariant if it stays in place, if it
\* goes on after the call, or if it ends the call.
LEMMA HeldKeeps ==
  ASSUME RInv, UNCHANGED held,
         \/ pc' = pc
         \/ Answered /\ Answered'
         \/ pc' = "idle"
  PROVE  RInv'
<1>1. ReaderState' /\ NoOverrun'
  BY DEF RInv, held, ReaderState, NoOverrun, Memory, Bytes
<1>2. RoomLeft' /\ Written'
  BY DEF RInv, held, RoomLeft, Written, Answered, Bytes
<1>3. Progress'
  <2> USE DEF held
  <2>1. CASE pc' = pc
    BY <2>1 DEF RInv, Progress, Answered, Collected, Copied, Skipped
  <2>2. CASE pc' = "idle"
    BY <2>2 DEF Progress, Answered
  <2>3. CASE Answered /\ Answered'
    <3>1. pc' \notin {"skip_spaces", "store", "read_loop"}
      BY <2>3 DEF Answered
    <3> QED
      BY <2>3, <3>1 DEF RInv, Progress, Collected, Copied, Skipped
  <2> QED
    BY <2>1, <2>2, <2>3
<1> QED
  BY <1>1, <1>2, <1>3 DEF RInv

LEMMA ReadingKeeps ==
  ASSUME RInv, Reading
  PROVE  RInv'
BY SkipSpacesKeeps, StoreKeeps, ReadLoopKeeps DEF Reading

LEMMA ReaderStep ==
  ASSUME RInv, [ReaderNext]_readerVars
  PROVE  RInv'
<1>1. CASE Reading
  BY <1>1, ReadingKeeps
<1>2. CASE Resume
  BY <1>2, HeldKeeps DEF Resume, held
<1>3. ASSUME NEW n \in BufferSizes, Call(n)
      PROVE  RInv'
  BY <1>3, CallKeeps
<1>4. CASE UNCHANGED readerVars
  BY <1>4, HeldKeeps DEF readerVars, held
<1> QED
  BY <1>1, <1>2, <1>3, <1>4 DEF ReaderNext

THEOREM ReaderInvariant == ReaderSpec => []RInv
<1>1. ReaderInit => RInv
  BY InitInv
<1>2. RInv /\ [ReaderNext]_readerVars => RInv'
  BY ReaderStep
<1> QED
  BY <1>1, <1>2, PTL DEF ReaderSpec

-----------------------------------------------------------------------------
(* The next word of the input *)

\* WordStart is the only position with blanks before it and none on it.
LEMMA WordStartIs ==
  ASSUME stdin \in Seq(Bytes), NEW n \in 0 .. Len(stdin)
  PROVE  /\ WordStart(n) \in n .. Len(stdin)
         /\ \A st \in n .. Len(stdin) :
              /\ st < Len(stdin) => stdin[st + 1] # Blank
              /\ \A j \in n .. st - 1 : stdin[j + 1] = Blank
              => st = WordStart(n)
<1> DEFINE Starts(i) == /\ i < Len(stdin) => stdin[i + 1] # Blank
                        /\ \A j \in n .. i - 1 : stdin[j + 1] = Blank
           T == {i \in n .. Len(stdin) : i < Len(stdin) => stdin[i + 1] # Blank}
<1>1. Len(stdin) \in Nat /\ n \in Nat
  OBVIOUS
<1>2. \E i \in n .. Len(stdin) : Starts(i)
  <2>1. T \subseteq Nat /\ Len(stdin) \in T
    BY <1>1
  <2>2. PICK x \in T : \A y \in T : x <= y
    BY <2>1, NatMin, Zenon
  <2>3. ASSUME NEW j \in n .. x - 1
        PROVE  stdin[j + 1] = Blank
    <3>1. j \in n .. Len(stdin) /\ ~(x <= j)
      BY <1>1, <2>2
    <3>2. j \notin T
      BY <2>2, <3>1, Zenon
    <3> QED
      BY <3>1, <3>2
  <2> QED
    BY <2>2, <2>3
<1>3. WordStart(n) \in n .. Len(stdin) /\ Starts(WordStart(n))
  BY <1>2, Zenon DEF WordStart
<1>4. ASSUME NEW i \in n .. Len(stdin), NEW k \in n .. Len(stdin), Starts(i), Starts(k)
      PROVE  ~(i < k)
  BY <1>1, <1>4
<1>5. ASSUME NEW st \in n .. Len(stdin), Starts(st)
      PROVE  st = WordStart(n)
  <2>1. ~(st < WordStart(n)) /\ ~(WordStart(n) < st)
    <3> HIDE DEF Starts
    <3> QED
      BY <1>3, <1>4, <1>5
  <2>2. st \in Nat /\ WordStart(n) \in Nat
    BY <1>1, <1>3
  <2> QED
    BY <2>1, <2>2
<1> QED
  BY <1>3, <1>5

\* WordLength is the only number of bytes up to the first delimiter.
LEMMA WordLengthIs ==
  ASSUME stdin \in Seq(Bytes), NEW n \in 0 .. Len(stdin)
  PROVE  /\ WordLength(n) \in 0 .. Len(stdin) - WordStart(n)
         /\ WordStart(n) + WordLength(n) < Len(stdin)
              => stdin[WordStart(n) + WordLength(n) + 1] \in Delimiters
         /\ \A j \in WordStart(n) .. WordStart(n) + WordLength(n) - 1 :
              stdin[j + 1] \notin Delimiters
         /\ \A k \in 0 .. Len(stdin) - WordStart(n) :
              /\ WordStart(n) + k < Len(stdin) => stdin[WordStart(n) + k + 1] \in Delimiters
              /\ \A j \in WordStart(n) .. WordStart(n) + k - 1 : stdin[j + 1] \notin Delimiters
              => k = WordLength(n)
<1>1. Len(stdin) \in Nat /\ WordStart(n) \in 0 .. Len(stdin)
  BY WordStartIs
<1>2. PICK w : w = WordStart(n)
  OBVIOUS
<1> DEFINE Ends(k) == /\ w + k < Len(stdin) => stdin[w + k + 1] \in Delimiters
                      /\ \A j \in w .. w + k - 1 : stdin[j + 1] \notin Delimiters
           T == {k \in 0 .. Len(stdin) - w : w + k < Len(stdin) => stdin[w + k + 1] \in Delimiters}
<1>3. w \in 0 .. Len(stdin)
  BY <1>1, <1>2
<1>4. \E k \in 0 .. Len(stdin) - w : Ends(k)
  <2>1. T \subseteq Nat /\ Len(stdin) - w \in T
    BY <1>1, <1>3
  <2>2. PICK x \in T : \A y \in T : x <= y
    BY <2>1, NatMin, Zenon
  <2>3. ASSUME NEW j \in w .. w + x - 1
        PROVE  stdin[j + 1] \notin Delimiters
    <3>1. PICK y : y = j - w
      OBVIOUS
    <3>2. y \in 0 .. Len(stdin) - w /\ ~(x <= y) /\ w + y = j
      BY <1>1, <1>3, <2>2, <3>1
    <3>3. y \notin T
      BY <2>2, <3>2, Zenon
    <3> QED
      BY <3>2, <3>3
  <2> QED
    BY <2>2, <2>3
<1>5. WordLength(n) \in 0 .. Len(stdin) - w /\ Ends(WordLength(n))
  BY <1>2, <1>4, Zenon DEF WordLength
<1>6. ASSUME NEW i \in 0 .. Len(stdin) - w, NEW k \in 0 .. Len(stdin) - w, Ends(i), Ends(k)
      PROVE  ~(i < k)
  <2>1. i \in Nat /\ k \in Nat /\ w \in Nat /\ w + k <= Len(stdin)
    BY <1>1, <1>3
  <2>2. PICK j : j = w + i
    OBVIOUS
  <2>3. i < k => j \in w .. w + k - 1 /\ j < Len(stdin)
    BY <1>1, <2>1, <2>2
  <2>4. i < k => stdin[j + 1] \notin Delimiters
    BY <1>6, <2>3
  <2> QED
    BY <1>6, <2>2, <2>3, <2>4
<1>7. ASSUME NEW k \in 0 .. Len(stdin) - w, Ends(k)
      PROVE  k = WordLength(n)
  <2>1. ~(k < WordLength(n)) /\ ~(WordLength(n) < k)
    <3> HIDE DEF Ends
    <3> QED
      BY <1>5, <1>6, <1>7
  <2>2. k \in Nat /\ WordLength(n) \in Nat
    BY <1>1, <1>3, <1>5
  <2> QED
    BY <2>1, <2>2
<1> QED
  BY <1>2, <1>5, <1>7

\* After st blanks and k bytes of a word the word is known to be k bytes long at
\* least, and exactly when a delimiter or the end follows.
LEMMA CollectedIs ==
  ASSUME ReaderState, NEW st \in from .. Len(stdin), NEW k \in Nat, Collected(st, k)
  PROVE  /\ WordLength(from) >= k
         /\ k > 0 => WordStart(from) = st
         /\ k > 0 /\ (st + k < Len(stdin) => stdin[st + k + 1] \in Delimiters)
              => WordLength(from) = k
<1>1. stdin \in Seq(Bytes) /\ Len(stdin) \in Nat /\ from \in 0 .. Len(stdin)
  BY Numbers
<1>2. PICK n \in 0 .. Len(stdin) : n = from
  BY <1>1
<1>3. WordStart(n) \in n .. Len(stdin) /\ WordLength(n) \in 0 .. Len(stdin) - WordStart(n)
  BY <1>1, WordStartIs, WordLengthIs
<1>4. PICK w : w = WordLength(n)
  OBVIOUS
<1>5. w \in Nat
  BY <1>1, <1>3, <1>4
<1>6. CASE k = 0
  BY <1>2, <1>4, <1>5, <1>6
<1>7. CASE k > 0
  <2>1. /\ st + k <= Len(stdin)
        /\ \A j \in n .. st - 1 : stdin[j + 1] = Blank
        /\ \A j \in st .. st + k - 1 : stdin[j + 1] \notin Delimiters
    BY <1>2 DEF Collected, Skipped
  <2>2. stdin[st + 1] # Blank
    BY <1>1, <1>7, <2>1 DEF Delimiters
  <2>3. WordStart(n) = st
    BY <1>1, <1>2, <2>1, <2>2, WordStartIs
  <2>4. w >= k
    <3>1. /\ w \in 0 .. Len(stdin) - st
          /\ st + w < Len(stdin) => stdin[st + w + 1] \in Delimiters
      BY <1>1, <1>4, <2>3, WordLengthIs
    <3>2. st \in Nat
      BY <1>1
    <3>3. ASSUME w < k
          PROVE  FALSE
      <4>1. st + w < Len(stdin) /\ st + w \in st .. st + k - 1
        BY <1>1, <1>5, <2>1, <3>2, <3>3
      <4>2. stdin[st + w + 1] \notin Delimiters
        BY <2>1, <4>1
      <4> QED
        BY <3>1, <4>1, <4>2
    <3> QED
      BY <1>5, <3>3
  <2>5. ASSUME st + k < Len(stdin) => stdin[st + k + 1] \in Delimiters
        PROVE  WordLength(n) = k
    <3>1. k \in 0 .. Len(stdin) - st
      BY <1>1, <1>2, <2>1
    <3>2. /\ WordStart(n) + k < Len(stdin) => stdin[WordStart(n) + k + 1] \in Delimiters
          /\ \A j \in WordStart(n) .. WordStart(n) + k - 1 : stdin[j + 1] \notin Delimiters
          /\ k \in 0 .. Len(stdin) - WordStart(n)
      BY <2>1, <2>3, <2>5, <3>1
    <3> QED
      BY <1>1, <3>2, WordLengthIs
  <2> QED
    BY <1>2, <1>4, <2>3, <2>4, <2>5
<1> QED
  BY <1>6, <1>7

\* What a call that has answered says of the input, as long as no read has failed.
ReadsNextWord ==
  /\ returned = "buffer" =>
       /\ length = WordLength(from)
       /\ \A i \in 0 .. length - 1 : buffer[i] = stdin[WordStart(from) + i + 1]
       /\ taken \in {WordStart(from) + length, WordStart(from) + length + 1}
  /\ returned = "null" => WordLength(from) = 0 \/ WordLength(from) + 1 > size

LEMMA AnsweredIs ==
  ASSUME RInv, ~failed, Answered
  PROVE  ReadsNextWord
<1>1. stdin \in Seq(Bytes) /\ Len(stdin) \in Nat /\ from \in 0 .. Len(stdin) /\ size \in Nat
  BY Numbers DEF RInv
<1>2. ASSUME returned = "buffer"
      PROVE  /\ length = WordLength(from)
             /\ \A i \in 0 .. length - 1 : buffer[i] = stdin[WordStart(from) + i + 1]
             /\ taken \in {WordStart(from) + length, WordStart(from) + length + 1}
  <2>1. PICK st \in from .. Len(stdin) :
          /\ Collected(st, length) /\ Copied(st)
          /\ taken \in {st + length, st + length + 1}
          /\ st + length < Len(stdin) => stdin[st + length + 1] \in Delimiters
    BY <1>2 DEF RInv, Progress
  <2>2. length \in Nat /\ length > 0
    BY <1>2, Numbers DEF RInv, Written
  <2>3. WordStart(from) = st /\ WordLength(from) = length
    BY <2>1, <2>2, CollectedIs DEF RInv
  <2> QED
    BY <2>1, <2>3 DEF Copied
<1>3. ASSUME returned = "null"
      PROVE  WordLength(from) = 0 \/ WordLength(from) + 1 > size
  <2>1. PICK st \in from .. Len(stdin) :
          \/ Collected(st, size)
          \/ Skipped(st) /\ (st < Len(stdin) => stdin[st + 1] = NUL)
    BY <1>3 DEF RInv, Progress
  <2>2. PICK w : w = WordLength(from)
    OBVIOUS
  <2>3. CASE Collected(st, size)
    <3>1. w >= size /\ w \in Int
      <4>1. WordLength(from) \in 0 .. Len(stdin) - WordStart(from)
            /\ WordStart(from) \in from .. Len(stdin)
        BY <1>1, WordLengthIs, WordStartIs
      <4> QED
        BY <1>1, <2>2, <2>3, <4>1, CollectedIs DEF RInv
    <3> QED
      BY <1>1, <2>2, <3>1
  <2>4. CASE Skipped(st) /\ (st < Len(stdin) => stdin[st + 1] = NUL)
    <3>1. NUL # Blank
      BY ByteAssumption
    <3>2. WordStart(from) = st
      BY <1>1, <2>1, <2>4, <3>1, WordStartIs DEF Skipped
    <3>3. 0 \in 0 .. Len(stdin) - st
      BY <1>1
    <3>4. /\ WordStart(from) + 0 < Len(stdin)
               => stdin[WordStart(from) + 0 + 1] \in Delimiters
          /\ \A j \in WordStart(from) .. WordStart(from) + 0 - 1 : stdin[j + 1] \notin Delimiters
      BY <1>1, <2>4, <3>2 DEF Delimiters
    <3> QED
      BY <1>1, <3>2, <3>3, <3>4, WordLengthIs
  <2> QED
    BY <2>1, <2>3, <2>4
<1> QED
  BY <1>2, <1>3 DEF ReadsNextWord

\* The variables of the reader keep to their types.
THEOREM ReaderTypeCorrect == ReaderSpec => []ReaderTypeOK
<1> DEFINE Places == pc \in {"idle", "skip_spaces", "store", "read_loop", "done"}
<1>1. ReaderInit => Places
  BY DEF ReaderInit
<1>2. Places /\ [ReaderNext]_readerVars => Places'
  BY DEF ReaderNext, Reading, SkipSpaces, Store, ReadLoop, Resume, Call, Return, readerVars
<1>3. RInv /\ Places => ReaderTypeOK
  BY DEF RInv, ReaderTypeOK
<1> HIDE DEF Places
<1> QED
  BY <1>1, <1>2, <1>3, ReaderInvariant, PTL DEF ReaderSpec

\* read_word writes nothing at or beyond the end of the caller's buffer, whatever
\* the input and whichever reads fail.
THEOREM NothingOverrun == ReaderSpec => []NoOverrun
<1>1. RInv => NoOverrun
  BY DEF RInv
<1> QED
  BY <1>1, ReaderInvariant, PTL

\* As long as no read fails, read_word returns the next word of the input and takes
\* that word and its delimiter only.
THEOREM ReturnsNextWord == ReaderSpec => []WordIsNext
<1>1. RInv => WordIsNext
  <2> SUFFICES ASSUME RInv, ~failed, pc = "done", returned = "buffer"
               PROVE  /\ length = WordLength(from)
                      /\ \A i \in 0 .. length - 1 : buffer[i] = stdin[WordStart(from) + i + 1]
                      /\ buffer[length] = NUL
                      /\ taken >= WordStart(from) + length
                      /\ taken <= WordStart(from) + length + 1
    BY DEF WordIsNext, WordIsNextOfInput
  <2>1. Answered
    BY DEF Answered
  <2>2. ReadsNextWord
    BY <2>1, AnsweredIs
  <2>3. buffer[length] = NUL
    BY <2>1 DEF RInv, Written
  <2>4. PICK w : w = WordStart(from)
    OBVIOUS
  <2>5. w \in Nat /\ length \in Nat
    <3>1. WordStart(from) \in from .. Len(stdin) /\ from \in Nat
      BY Numbers, WordStartIs DEF RInv
    <3> QED
      BY <2>4, <3>1, Numbers DEF RInv
  <2>6. taken >= w + length /\ taken <= w + length + 1
    BY <2>2, <2>4, <2>5 DEF ReadsNextWord
  <2> QED
    BY <2>2, <2>3, <2>4, <2>6 DEF ReadsNextWord
<1> QED
  BY <1>1, ReaderInvariant, PTL

\* As long as no read fails, read_word gives up only on a word that does not fit
\* with its zero, or when there is no word.
THEOREM FailsForAReason == ReaderSpec => []FailureIsJustified
<1>1. RInv => FailureIsJustified
  BY AnsweredIs DEF FailureIsJustified, Answered, ReadsNextWord
<1> QED
  BY <1>1, ReaderInvariant, PTL

-----------------------------------------------------------------------------
(* The dictionary *)

\* read_word is called once, at the beginning of stdin and with the whole buffer.
OneCall ==
  /\ from = 0
  /\ pc = "idle" => taken = 0
  /\ pc # "idle" => size = BUFFER_SIZE

\* No word from line e of words.inc down is the one in the buffer.
NoneFrom(e) == \A f \in e .. Len(Words) : ~string_equals(Key(f))

\* Nothing is written before the search has ended.
Running ==
  /\ entry \in 0 .. Len(Words)
  /\ pc # "exit" => exitCode = -1 /\ out = <<>> /\ err = "none" /\ ~lost
  /\ pc = "find_word" => returned = "buffer" /\ NoneFrom(entry + 1)

\* The three ways to end.
TooLongEnd ==
  /\ returned = "null" /\ exitCode = 1 /\ out = <<>>
  /\ ~lost => err = "Word is too long for buffer!"
NotFoundEnd ==
  /\ returned = "buffer" /\ exitCode = 1 /\ out = <<>> /\ NoneFrom(1)
  /\ ~lost => err = "Not found!"
FoundEnd ==
  /\ returned = "buffer" /\ exitCode = 0 /\ err = "none"
  /\ entry # 0 /\ string_equals(Key(entry)) /\ NoneFrom(entry + 1)
  /\ ~lost => out = <<Value(entry), "newline">>
Ended == pc = "exit" => TooLongEnd \/ NotFoundEnd \/ FoundEnd

DInv == RInv /\ OneCall /\ Running /\ Ended

LEMMA DictInit ==
  ASSUME Init
  PROVE  DInv
<1>1. RInv
  BY InitInv DEF Init
<1>2. Len(Words) \in Nat
  BY WordsAssumption
<1> QED
  BY <1>1, <1>2 DEF Init, ReaderInit, DInv, OneCall, Running, Ended

\* Where a step of the reader leaves from and gets to.
LEMMA ReadingPlaces ==
  ASSUME Reading
  PROVE  /\ pc \in {"skip_spaces", "store", "read_loop"}
         /\ pc' \in {"skip_spaces", "store", "read_loop", "done"}
         /\ UNCHANGED <<from, size>>
BY DEF Reading, SkipSpaces, Store, ReadLoop, Return

LEMMA ReadKeyKeeps ==
  ASSUME DInv, ReadKey
  PROVE  DInv'
<1>1. RInv'
  BY CallKeeps, BufferAssumption DEF DInv, ReadKey
<1>2. /\ pc = "idle" /\ pc' \in {"skip_spaces", "done"} /\ size' = BUFFER_SIZE
      /\ from' = taken /\ UNCHANGED dictVars
  BY DEF ReadKey, Call, Return
<1> QED
  BY <1>1, <1>2 DEF DInv, OneCall, Running, Ended, dictVars

LEMMA ReadStepKeeps ==
  ASSUME DInv, ReadStep
  PROVE  DInv'
<1>1. RInv'
  BY ReadingKeeps DEF DInv, ReadStep
<1> QED
  BY <1>1, ReadingPlaces DEF ReadStep, DInv, OneCall, Running, Ended, dictVars

LEMMA StartSearchKeeps ==
  ASSUME DInv, StartSearch
  PROVE  DInv'
<1>1. RInv'
  BY HeldKeeps DEF DInv, StartSearch, Answered, held
<1>2. Len(Words) \in Nat
  BY WordsAssumption
<1>3. entry' = Len(Words) /\ NoneFrom(entry + 1)'
  BY <1>2 DEF StartSearch, next_word_pointer, NoneFrom
<1> QED
  BY <1>1, <1>2, <1>3 DEF StartSearch, DInv, OneCall, Running, Ended

LEMMA AdvanceKeeps ==
  ASSUME DInv, Advance
  PROVE  DInv'
<1>1. /\ pc = "find_word" /\ entry # 0 /\ ~string_equals(Key(entry)) /\ entry' = entry - 1
      /\ UNCHANGED <<readerVars, out, err, lost, exitCode>>
  BY DEF Advance, next_word
<1>2. RInv'
  BY <1>1, HeldKeeps DEF DInv, readerVars, held
<1>3. Len(Words) \in Nat /\ entry \in 1 .. Len(Words) /\ NoneFrom(entry + 1)
  BY <1>1, WordsAssumption DEF DInv, Running
<1>4. ASSUME NEW f \in entry .. Len(Words)
      PROVE  ~string_equals(Key(f))
  <2>1. f = entry \/ f \in entry + 1 .. Len(Words)
    BY <1>3
  <2> QED
    BY <1>1, <1>3, <2>1 DEF NoneFrom
<1>5. buffer' = buffer
  BY <1>1 DEF readerVars
<1>6. entry' + 1 = entry
  BY <1>1, <1>3
<1>7. NoneFrom(entry + 1)'
  BY <1>4, <1>5, <1>6 DEF NoneFrom, string_equals
<1> QED
  BY <1>1, <1>2, <1>3, <1>7 DEF DInv, OneCall, Running, Ended, readerVars

LEMMA FoundKeeps ==
  ASSUME DInv, Found
  PROVE  DInv'
<1>1. RInv'
  BY HeldKeeps DEF DInv, Found, Finish, Answered, held
<1>2. FoundEnd'
  BY DEF Found, Finish, DInv, Running, FoundEnd, NoneFrom, string_equals
<1> QED
  BY <1>1, <1>2 DEF Found, Finish, DInv, OneCall, Running, Ended

LEMMA NotFoundKeeps ==
  ASSUME DInv, NotFound
  PROVE  DInv'
<1>1. RInv'
  BY HeldKeeps DEF DInv, NotFound, PrintError, Finish, Answered, held
<1>2. entry = 0
  BY Zenon DEF NotFound
<1>3. NotFoundEnd'
  <2>1. entry + 1 = 1
    BY <1>2
  <2> QED
    BY <2>1 DEF NotFound, PrintError, Finish, DInv, Running, NotFoundEnd, NoneFrom, string_equals
<1> QED
  BY <1>1, <1>3 DEF NotFound, PrintError, Finish, DInv, OneCall, Running, Ended

LEMMA TooLongKeeps ==
  ASSUME DInv, TooLongOrEmpty
  PROVE  DInv'
<1>1. RInv'
  BY HeldKeeps DEF DInv, TooLongOrEmpty, PrintError, Finish, Answered, held
<1>2. TooLongEnd'
  BY DEF TooLongOrEmpty, PrintError, Finish, DInv, Running, TooLongEnd
<1> QED
  BY <1>1, <1>2 DEF TooLongOrEmpty, PrintError, Finish, DInv, OneCall, Running, Ended

LEMMA DictStep ==
  ASSUME DInv, [Next]_vars
  PROVE  DInv'
<1>1. CASE UNCHANGED vars
  <2>1. UNCHANGED <<readerVars, dictVars>>
    BY <1>1 DEF vars
  <2>2. RInv'
    BY <2>1, HeldKeeps DEF DInv, readerVars, held
  <2> QED
    BY <2>1, <2>2 DEF readerVars, dictVars, DInv, OneCall, Running, Ended,
                      TooLongEnd, NotFoundEnd, FoundEnd, NoneFrom, string_equals
<1> QED
  BY <1>1, ReadKeyKeeps, ReadStepKeeps, StartSearchKeeps, AdvanceKeeps, FoundKeeps,
     NotFoundKeeps, TooLongKeeps
  DEF Next, Step, Exited

THEOREM DictInvariant == Spec => []DInv
<1> QED
  BY DictInit, DictStep, PTL DEF Spec

\* The keys of words.inc are made of letters.
LEMMA Keys ==
  ASSUME NEW e \in 1 .. Len(Words)
  PROVE  Key(e) \in Seq(Letters)
BY WordsAssumption DEF Key

\* The word in the buffer is the one that was asked for: comparing the buffer with a
\* key compares the key with the first word of the input.
LEMMA EqualsIs ==
  ASSUME DInv, ~failed, Answered, returned = "buffer", NEW key \in Seq(Letters)
  PROVE  /\ string_equals(key) <=> key = Asked
         /\ Len(Asked) = length
<1>1. /\ stdin \in Seq(Bytes) /\ Len(stdin) \in Nat /\ length \in Nat
      /\ 0 \in 0 .. Len(stdin)
  BY Numbers DEF DInv, RInv
<1>2. from = 0 /\ ReadsNextWord
  BY AnsweredIs DEF DInv, OneCall
<1>3. length = WordLength(0) /\ length >= 1 /\ buffer[length] = NUL
  BY <1>2 DEF ReadsNextWord, DInv, RInv, Written
<1>4. PICK s : s = WordStart(0)
  OBVIOUS
<1>5. s \in Nat /\ s + length <= Len(stdin)
  BY <1>1, <1>3, <1>4, WordStartIs, WordLengthIs
<1>6. \A i \in 0 .. length - 1 : buffer[i] = stdin[s + i + 1]
  BY <1>2, <1>4 DEF ReadsNextWord
<1>7. \A j \in s .. s + length - 1 : stdin[j + 1] \notin Delimiters
  BY <1>1, <1>3, <1>4, WordLengthIs
<1>8. \A i \in 0 .. length - 1 : buffer[i] # NUL
  <2> TAKE i \in 0 .. length - 1
  <2>1. PICK j : j = s + i
    OBVIOUS
  <2>2. j \in s .. s + length - 1
    BY <1>1, <1>5, <2>1
  <2> QED
    BY <1>6, <1>7, <2>1, <2>2 DEF Delimiters
<1>9. Asked = SubSeq(stdin, s + 1, s + length)
  BY <1>3, <1>4 DEF Asked
<1>10. /\ Asked \in Seq(Bytes) /\ Len(Asked) = length
       /\ \A i \in 1 .. length : Asked[i] = stdin[s + i]
  BY <1>1, <1>5, <1>9
<1>11. \A i \in 1 .. length : Asked[i] = buffer[i - 1]
  <2> TAKE i \in 1 .. length
  <2>1. PICK j : j = i - 1
    OBVIOUS
  <2>2. j \in 0 .. length - 1 /\ s + j + 1 = s + i
    BY <1>1, <1>5, <2>1
  <2> QED
    BY <1>6, <1>10, <2>1, <2>2
<1>12. /\ Len(key) \in Nat
       /\ \A i \in 1 .. Len(key) : key[i] # NUL
  BY ByteAssumption
<1>13. ASSUME string_equals(key)
       PROVE  key = Asked
  <2>1. (\A i \in 1 .. Len(key) : buffer[i - 1] = key[i]) /\ buffer[Len(key)] = NUL
    BY <1>13 DEF string_equals
  <2>2. ~(Len(key) < length)
    BY <1>1, <1>8, <1>12, <2>1
  <2>3. ~(length < Len(key))
    <3>1. PICK i : i = length + 1
      OBVIOUS
    <3>2. i - 1 = length
      BY <1>1, <3>1
    <3>3. length < Len(key) => i \in 1 .. Len(key)
      BY <1>1, <1>12, <3>1
    <3> QED
      BY <1>3, <1>12, <2>1, <3>2, <3>3
  <2>4. Len(key) = length
    BY <1>1, <1>12, <2>2, <2>3
  <2> QED
    BY <1>10, <1>11, <2>1, <2>4
<1>14. ASSUME key = Asked
       PROVE  string_equals(key)
  BY <1>3, <1>10, <1>11, <1>14 DEF string_equals
<1> QED
  BY <1>10, <1>13, <1>14

\* Unless the kernel refuses to read or write, the program answers the first word
\* of stdin with the value last given to it in words.inc and status 0, and any
\* other input with its own message on stderr and status 1.
THEOREM AnswersRight == Spec => []AnswerIsRight
<1>1. DInv => AnswerIsRight
  <2> SUFFICES ASSUME DInv, exitCode # -1, ~failed, ~lost
               PROVE  AnswerIsRight
    BY DEF AnswerIsRight
  <2>1. pc = "exit" /\ Answered
    BY DEF DInv, Running, Answered
  <2>2. size = BUFFER_SIZE /\ from = 0 /\ BUFFER_SIZE \in Nat
    BY <2>1, BufferAssumption, SizeAssumption DEF DInv, OneCall
  <2>3. ReadsNextWord
    BY <2>1, AnsweredIs DEF DInv
  <2>4. Len(Words) \in Nat
    BY WordsAssumption
  <2>5. CASE TooLongEnd
    <3>1. WordLength(0) = 0 \/ WordLength(0) + 1 > BUFFER_SIZE
      BY <2>2, <2>3, <2>5 DEF TooLongEnd, ReadsNextWord
    <3>2. stdin \in Seq(Bytes) /\ Len(stdin) \in Nat /\ 0 \in 0 .. Len(stdin)
      BY Numbers DEF DInv, RInv
    <3>3. PICK s, n : s = WordStart(0) /\ n = WordLength(0)
      OBVIOUS
    <3>4. s \in 0 .. Len(stdin) /\ n \in 0 .. Len(stdin) - s
      BY <3>2, <3>3, WordStartIs, WordLengthIs
    <3>5. Asked = SubSeq(stdin, s + 1, s + n)
      BY <3>3 DEF Asked
    <3>6. Len(Asked) = n
      BY <3>2, <3>4, <3>5
    <3>7. Len(Asked) = 0 \/ Len(Asked) >= BUFFER_SIZE
      BY <2>2, <3>1, <3>2, <3>3, <3>4, <3>6
    <3>8. exitCode = 1 /\ out = <<>> /\ err = "Word is too long for buffer!"
      BY <2>5 DEF TooLongEnd
    <3>9. ~(Len(Asked) \in 1 .. BUFFER_SIZE - 1)
      BY <2>2, <3>2, <3>4, <3>6, <3>7
    <3> QED
      BY <3>7, <3>8, <3>9 DEF AnswerIsRight
  <2>6. ASSUME returned = "buffer"
        PROVE  /\ Len(Asked) \in 1 .. BUFFER_SIZE - 1
               /\ ~(Len(Asked) = 0 \/ Len(Asked) >= BUFFER_SIZE)
               /\ \A e \in 1 .. Len(Words) : string_equals(Key(e)) <=> e \in Matching
    <3>1. length \in Nat /\ length >= 1 /\ length < BUFFER_SIZE
      BY <2>1, <2>2, <2>6, Numbers DEF DInv, RInv, Written
    <3>2. Len(Asked) = length
      <4>1. <<>> \in Seq(Letters)
        OBVIOUS
      <4> QED
        BY <2>1, <2>6, <4>1, EqualsIs
    <3>3. \A e \in 1 .. Len(Words) : string_equals(Key(e)) <=> e \in Matching
      BY <2>1, <2>6, Keys, EqualsIs DEF Matching
    <3> QED
      BY <2>2, <3>1, <3>2, <3>3
  <2>7. CASE NotFoundEnd
    <3>1. Matching = {}
      BY <2>6, <2>7 DEF NotFoundEnd, NoneFrom, Matching
    <3> QED
      BY <2>6, <2>7, <3>1 DEF NotFoundEnd, AnswerIsRight
  <2>8. CASE FoundEnd
    <3>1. entry \in 1 .. Len(Words) /\ returned = "buffer"
      BY <2>4, <2>8 DEF DInv, Running, FoundEnd
    <3>2. entry \in Matching
      BY <2>6, <2>8, <3>1 DEF FoundEnd
    <3>3. \A f \in Matching : f <= entry
      <4> TAKE f \in Matching
      <4>1. f \in 1 .. Len(Words) /\ string_equals(Key(f))
        BY <2>6, <3>1 DEF Matching
      <4>2. f \notin entry + 1 .. Len(Words)
        BY <2>8, <4>1 DEF FoundEnd, NoneFrom
      <4> QED
        BY <2>4, <3>1, <4>1, <4>2
    <3>4. \A e \in Matching : (\A f \in Matching : f <= e) => e = entry
      <4> TAKE e \in Matching
      <4>1. e \in Nat /\ entry \in Nat
        BY <3>1 DEF Matching
      <4> QED
        BY <3>2, <3>3, <4>1
    <3>5. Newest = entry
      BY <3>2, <3>3, <3>4 DEF Newest
    <3> QED
      BY <2>6, <2>8, <3>1, <3>2, <3>5 DEF FoundEnd, AnswerIsRight
  <2> QED
    BY <2>1, <2>5, <2>7, <2>8 DEF DInv, Ended
<1> QED
  BY <1>1, DictInvariant, PTL

\* find_word never compares a byte that read_word has not written, read errors
\* included.
THEOREM ComparesOnlyWritten == Spec => []ComparesWrittenBytes
<1>1. DInv => ComparesWrittenBytes
  <2> SUFFICES ASSUME DInv, pc = "find_word", entry # 0,
                      NEW i \in 0 .. Len(Key(entry)),
                      \A j \in 0 .. i - 1 : buffer[j] = Key(entry)[j + 1]
               PROVE  buffer[i] # Garbage
    BY DEF ComparesWrittenBytes
  <2>1. Answered /\ returned = "buffer"
    BY DEF Answered, DInv, Running
  <2>2. /\ length \in Nat /\ buffer[length] = NUL
        /\ \A j \in 0 .. length - 1 : buffer[j] \in Bytes
    BY <2>1, Numbers DEF DInv, RInv, Written
  <2>3. Key(entry) \in Seq(Letters)
    <3>1. entry \in 1 .. Len(Words)
      BY WordsAssumption DEF DInv, Running
    <3> QED
      BY <3>1, Keys
  <2>4. ~(length < i)
    <3>1. length < i => length \in 0 .. i - 1
      BY <2>2, <2>3
    <3>2. length < i => length + 1 \in 1 .. Len(Key(entry))
      BY <2>2, <2>3
    <3>3. length < i => Key(entry)[length + 1] \in Letters
      BY <2>3, <3>2
    <3> QED
      BY <2>2, <3>1, <3>3, ByteAssumption
  <2>5. i \in 0 .. length - 1 \/ i = length
    BY <2>2, <2>3, <2>4
  <2> QED
    BY <2>2, <2>5, ByteAssumption DEF Bytes
<1> QED
  BY <1>1, DictInvariant, PTL

-----------------------------------------------------------------------------
(* Printing and parsing numbers *)

ASCII == 1 .. 255

LEMMA AsciiInt == ASCII \subseteq Int
BY DEF ASCII

-----------------------------------------------------------------------------
(* Remainders *)

\* A multiple of the divisor does not change a remainder.
LEMMA ModAdd ==
  ASSUME NEW m \in Nat \ {0}, NEW x \in Int, NEW k \in Int
  PROVE  (x + m * k) % m = x % m
<1> DEFINE q == x \div m
           r == x % m
           y == x + m * k
           p == y \div m
           s == y % m
<1>1. q \in Int /\ x = m * q + r /\ r \in 0 .. m - 1
  OBVIOUS
<1>2. m * k \in Int /\ y \in Int
  OBVIOUS
<1> HIDE DEF y
<1>3. p \in Int /\ y = m * p + s /\ s \in 0 .. m - 1
  BY <1>2
<1> HIDE DEF q, r, p, s
<1>4. y = x + m * k
  BY DEF y
<1>5. PICK d \in Int : d = p - q - k
  BY <1>1, <1>3
<1>6. m * p = m * q + m * k + m * d
  BY <1>1, <1>3, <1>5
<1>7. m * d = r - s
  <2>1. m * p \in Int /\ m * q \in Int /\ m * d \in Int
    BY <1>1, <1>3
  <2> QED
    BY <1>1, <1>2, <1>3, <1>4, <1>6, <2>1
<1>8. d >= 1 => m * d >= m
  BY <1>5
<1>9. d <= -1 => m * d <= -m
  BY <1>5
<1>10. d = 0
  BY <1>1, <1>3, <1>5, <1>7, <1>8, <1>9
<1>11. r = s
  BY <1>1, <1>3, <1>7, <1>10
<1> QED
  BY <1>4, <1>11 DEF r, s, y

\* Remainders of a product with ten and of an opposite, from the remainder.
LEMMA ModStep ==
  ASSUME NEW m \in Nat \ {0}, NEW x \in Int, NEW d \in Int
  PROVE  /\ ((x % m) * 10 + d) % m = (10 * x + d) % m
         /\ (m - (x % m)) % m = (-x) % m
         /\ x % m \in 0 .. m - 1
<1> DEFINE q == x \div m
           r == x % m
<1>1. q \in Int /\ x = m * q + r /\ r \in 0 .. m - 1
  OBVIOUS
<1> HIDE DEF q, r
<1>2. m * q \in Int /\ m * (10 * q) = 10 * (m * q) /\ m * (-q - 1) = -(m * q) - m
  BY <1>1
<1>3. 10 * x + d = (r * 10 + d) + m * (10 * q)
  BY <1>1, <1>2
<1>4. -x = (m - r) + m * (-q - 1)
  BY <1>1, <1>2
<1>5. (10 * x + d) % m = (r * 10 + d) % m
  <2>1. r * 10 + d \in Int /\ 10 * q \in Int
    BY <1>1
  <2> QED
    BY <1>3, <2>1, ModAdd
<1>6. (-x) % m = (m - r) % m
  <2>1. m - r \in Int /\ -q - 1 \in Int
    BY <1>1
  <2> QED
    BY <1>4, <2>1, ModAdd
<1> QED
  BY <1>1, <1>5, <1>6 DEF r

-----------------------------------------------------------------------------
(* The value of a run of digits *)

\* The byte at offset i of t, which ends with a zero.
Char(t, i) == IF i < Len(t) THEN t[i + 1] ELSE 0

\* f[e] is the number read from a and the characters s to e - 1 of t.
Follows(f, t, s, a) ==
  f = [e \in s .. Len(t) |-> IF e = s THEN a ELSE 10 * f[e - 1] + (Char(t, e - 1) - 48)]

LEMMA FollowsExists ==
  ASSUME NEW t \in Seq(ASCII), NEW s \in 0 .. Len(t), NEW a \in Int
  PROVE  \E f : Follows(f, t, s, a)
<1> DEFINE V == Nat \X Int
           next == [p \in V |-> <<p[1] + 1, 10 * p[2] + (Char(t, p[1]) - 48)>>]
<1>1. \A i \in Nat : Char(t, i) \in Int
  <2> TAKE i \in Nat
  <2>1. i < Len(t) => t[i + 1] \in ASCII
    OBVIOUS
  <2> QED
    <3>1. CASE i < Len(t)
      <4>1. t[i + 1] \in Int
        BY <2>1, <3>1, AsciiInt, Zenon
      <4> QED
        BY <3>1, <4>1, Zenon DEF Char
    <3>2. CASE ~(i < Len(t))
      BY <3>2 DEF Char
    <3> QED
      BY <3>1, <3>2
<1>2. next \in [V -> V]
  <2>1. ASSUME NEW p \in V
        PROVE  <<p[1] + 1, 10 * p[2] + (Char(t, p[1]) - 48)>> \in V
    <3>1. PICK i \in Nat, x \in Int : p = <<i, x>>
      OBVIOUS
    <3>2. p[1] = i /\ p[2] = x /\ Char(t, i) \in Int
      BY <1>1, <3>1
    <3> QED
      BY <3>2
  <2> QED
    BY <2>1
<1>3. <<s, a>> \in V
  OBVIOUS
<1> HIDE DEF V, next
<1>4. PICK g : IsIterate(g, V, next, <<s, a>>)
  BY <1>2, <1>3, Iterates
<1>5. g \in [Nat -> V] /\ g[0] = <<s, a>> /\ \A i \in Nat : g[i + 1] = next[g[i]]
  BY <1>4 DEF IsIterate
<1>6. \A i \in Nat : /\ g[i + 1][1] = g[i][1] + 1
                    /\ g[i + 1][2] = 10 * g[i][2] + (Char(t, g[i][1]) - 48)
  <2> TAKE i \in Nat
  <2>1. g[i + 1] = <<g[i][1] + 1, 10 * g[i][2] + (Char(t, g[i][1]) - 48)>>
    BY <1>5 DEF next
  <2> QED
    BY <2>1
<1>7. \A i \in Nat : g[i][1] = s + i
  <2> DEFINE S == {i \in Nat : g[i][1] = s + i}
  <2>1. 0 \in S
    BY <1>5
  <2>2. ASSUME NEW i \in Nat, i \in S
        PROVE  i + 1 \in S
    <3>1. g[i + 1][1] = g[i][1] + 1 /\ g[i][1] = s + i
      BY <1>6, <2>2
    <3> QED
      BY <3>1
  <2> HIDE DEF S
  <2>3. Nat \subseteq S
    BY <2>1, <2>2, SetInduction
  <2> QED
    BY <2>3 DEF S
<1> DEFINE f == [e \in s .. Len(t) |-> g[e - s][2]]
<1>8. ASSUME NEW e \in s .. Len(t)
      PROVE  f[e] = IF e = s THEN a ELSE 10 * f[e - 1] + (Char(t, e - 1) - 48)
  <2>1. CASE e = s
    BY <1>5, <2>1
  <2>2. CASE e # s
    <3>1. PICK i \in Nat : i = e - 1 - s
      BY <2>2
    <3>2. i + 1 = e - s /\ s + i = e - 1 /\ e - 1 \in s .. Len(t)
      BY <2>2, <3>1
    <3>3. /\ g[i + 1][2] = 10 * g[i][2] + (Char(t, g[i][1]) - 48)
          /\ g[i][1] = s + i
      BY <1>6, <1>7
    <3>4. g[e - s][2] = 10 * g[i][2] + (Char(t, e - 1) - 48)
      BY <3>2, <3>3
    <3> QED
      BY <2>2, <3>1, <3>2, <3>4
  <2> QED
    BY <2>1, <2>2
<1> HIDE DEF f
<1>9. f = [e \in s .. Len(t) |-> IF e = s THEN a ELSE 10 * f[e - 1] + (Char(t, e - 1) - 48)]
  BY <1>8 DEF f
<1> QED
  BY <1>9 DEF Follows

\* What f is, character by character.
Run(f, t, s, a) ==
  /\ f \in [s .. Len(t) -> Int]
  /\ f[s] = a
  /\ \A e \in s .. Len(t) - 1 : f[e + 1] = 10 * f[e] + (t[e + 1] - 48)

LEMMA FollowsIs ==
  ASSUME NEW t \in Seq(ASCII), NEW s \in 0 .. Len(t), NEW a \in Int, NEW f,
         Follows(f, t, s, a)
  PROVE  Run(f, t, s, a)
<1>1. f = [e \in s .. Len(t) |-> IF e = s THEN a ELSE 10 * f[e - 1] + (Char(t, e - 1) - 48)]
  BY DEF Follows
<1>2. f[s] = a
  BY <1>1
<1>3. \A e \in s .. Len(t) - 1 : f[e + 1] = 10 * f[e] + (t[e + 1] - 48)
  <2> TAKE e \in s .. Len(t) - 1
  <2>1. e + 1 \in s .. Len(t) /\ e + 1 # s /\ (e + 1) - 1 = e /\ e < Len(t)
    OBVIOUS
  <2>2. f[e + 1] = 10 * f[(e + 1) - 1] + (Char(t, (e + 1) - 1) - 48)
    BY <1>1, <2>1
  <2> QED
    BY <2>1, <2>2 DEF Char
<1>4. \A e \in s .. Len(t) : f[e] \in Int
  <2> DEFINE S == {i \in Nat : s + i \in s .. Len(t) => f[s + i] \in Int}
  <2>1. 0 \in S
    BY <1>2
  <2>2. ASSUME NEW i \in Nat, i \in S
        PROVE  i + 1 \in S
    <3> SUFFICES ASSUME s + (i + 1) \in s .. Len(t)
                 PROVE  f[s + (i + 1)] \in Int
      OBVIOUS
    <3>1. PICK e : e = s + i
      OBVIOUS
    <3>2. e \in s .. Len(t) - 1 /\ e + 1 = s + (i + 1)
      BY <3>1
    <3>3. f[e] \in Int
      BY <2>2, <3>1, <3>2
    <3>4. t[e + 1] \in Int
      <4>1. e + 1 \in 1 .. Len(t)
        BY <3>2
      <4>2. t[e + 1] \in ASCII
        BY <4>1
      <4> QED
        BY <4>2, AsciiInt
    <3> QED
      BY <1>3, <3>2, <3>3, <3>4
  <2> HIDE DEF S
  <2>3. Nat \subseteq S
    BY <2>1, <2>2, SetInduction
  <2>4. ASSUME NEW e \in s .. Len(t)
        PROVE  f[e] \in Int
    <3>1. PICK i \in Nat : s + i = e
      <4>1. e - s \in Nat /\ s + (e - s) = e
        OBVIOUS
      <4> QED
        BY <4>1
    <3> QED
      BY <2>3, <3>1 DEF S
  <2> QED
    BY <2>4
<1>5. f \in [s .. Len(t) -> Int]
  BY <1>1, <1>4
<1> QED
  BY <1>2, <1>3, <1>5 DEF Run

\* Equal digits read the same wherever they stand.
LEMMA FollowsSame ==
  ASSUME NEW t \in Seq(ASCII), NEW u \in Seq(ASCII), NEW k \in Nat, NEW a \in Int,
         Len(t) = Len(u) + k,
         \A i \in 1 .. Len(u) : t[i + k] = u[i],
         NEW f, Follows(f, t, k, a), NEW g, Follows(g, u, 0, a)
  PROVE  f[Len(t)] = g[Len(u)]
<1>1. k \in 0 .. Len(t) /\ 0 \in 0 .. Len(u) /\ Len(u) \in Nat
  OBVIOUS
<1>2. f[k] = a /\ \A e \in k .. Len(t) - 1 : f[e + 1] = 10 * f[e] + (t[e + 1] - 48)
  BY <1>1, FollowsIs DEF Run
<1>3. g[0] = a /\ \A e \in 0 .. Len(u) - 1 : g[e + 1] = 10 * g[e] + (u[e + 1] - 48)
  BY <1>1, FollowsIs DEF Run
<1> DEFINE S == {i \in Nat : i <= Len(u) => f[i + k] = g[i]}
<1>4. 0 \in S
  BY <1>2, <1>3
<1>5. ASSUME NEW i \in Nat, i \in S
      PROVE  i + 1 \in S
  <2> SUFFICES ASSUME i + 1 <= Len(u)
               PROVE  f[(i + 1) + k] = g[i + 1]
    OBVIOUS
  <2>1. PICK e : e = i + k
    OBVIOUS
  <2>2. e \in k .. Len(t) - 1 /\ i \in 0 .. Len(u) - 1 /\ e + 1 = (i + 1) + k /\ i + 1 \in 1 .. Len(u)
    BY <1>1, <2>1
  <2>3. f[e] = g[i] /\ t[e + 1] = u[i + 1]
    BY <1>1, <1>5, <2>1, <2>2
  <2> QED
    BY <1>2, <1>3, <2>2, <2>3
<1> HIDE DEF S
<1>6. Nat \subseteq S
  BY <1>4, <1>5, SetInduction
<1>7. Len(u) \in S
  BY <1>1, <1>6
<1> QED
  BY <1>1, <1>7 DEF S

\* There is only one such f.
LEMMA FollowsUnique ==
  ASSUME NEW t \in Seq(ASCII), NEW s \in 0 .. Len(t), NEW a \in Int,
         NEW f, Follows(f, t, s, a), NEW g, Follows(g, t, s, a)
  PROVE  f = g
<1>1. Run(f, t, s, a) /\ Run(g, t, s, a)
  BY FollowsIs
<1> DEFINE S == {i \in Nat : s + i \in s .. Len(t) => f[s + i] = g[s + i]}
<1>2. 0 \in S
  BY <1>1 DEF Run
<1>3. ASSUME NEW i \in Nat, i \in S
      PROVE  i + 1 \in S
  <2> SUFFICES ASSUME s + (i + 1) \in s .. Len(t)
               PROVE  f[s + (i + 1)] = g[s + (i + 1)]
    OBVIOUS
  <2>1. PICK e : e = s + i
    OBVIOUS
  <2>2. e \in s .. Len(t) - 1 /\ e + 1 = s + (i + 1)
    BY <2>1
  <2>3. f[e] = g[e]
    BY <1>3, <2>1, <2>2
  <2> QED
    BY <1>1, <2>2, <2>3 DEF Run
<1> HIDE DEF S
<1>4. Nat \subseteq S
  BY <1>2, <1>3, SetInduction
<1>5. ASSUME NEW e \in s .. Len(t)
      PROVE  f[e] = g[e]
  <2>1. PICK i \in Nat : s + i = e
    <3>1. e - s \in Nat /\ s + (e - s) = e
      OBVIOUS
    <3> QED
      BY <3>1
  <2> QED
    BY <1>4, <2>1 DEF S
<1> QED
  BY <1>1, <1>5 DEF Run

\* v is the number that a and the digits of t behind it make.
Reads(t, a, v) == \E f : Follows(f, t, 0, a) /\ f[Len(t)] = v

\* print_uint's loop takes the last digit of a and puts it before the others.
LEMMA Prepend ==
  ASSUME NEW u \in Seq(ASCII), NEW a \in Nat, NEW v, Reads(u, a, v)
  PROVE  Reads(<<48 + (a % 10)>> \o u, a \div 10, v)
<1>1. a \div 10 \in Nat /\ a % 10 \in 0 .. 9 /\ 10 * (a \div 10) + (a % 10) = a
  OBVIOUS
<1>2. PICK b \in Nat, d \in 0 .. 9 : b = a \div 10 /\ d = a % 10 /\ 10 * b + d = a
  BY <1>1
<1>3. PICK t : t = <<48 + d>> \o u
  OBVIOUS
<1>4. /\ t \in Seq(ASCII) /\ Len(t) = Len(u) + 1 /\ t[1] = 48 + d
      /\ \A i \in 1 .. Len(u) : t[i + 1] = u[i]
  BY <1>3 DEF ASCII
<1>5. PICK f : Follows(f, t, 0, b)
  <2>1. 0 \in 0 .. Len(t) /\ b \in Int
    BY <1>4
  <2> QED
    BY <1>4, <2>1, FollowsExists
<1>6. PICK g : Follows(g, u, 0, a) /\ g[Len(u)] = v
  BY DEF Reads
<1>7. Len(u) \in Nat /\ 0 \in 0 .. Len(t) /\ 1 \in 0 .. Len(t)
  BY <1>4
<1>8. /\ f \in [0 .. Len(t) -> Int] /\ f[0] = b
      /\ \A e \in 0 .. Len(t) - 1 : f[e + 1] = 10 * f[e] + (t[e + 1] - 48)
  <2>1. b \in Int
    OBVIOUS
  <2>2. Run(f, t, 0, b)
    BY <1>4, <1>5, <1>7, <2>1, FollowsIs
  <2> QED
    BY <2>2 DEF Run
<1>9. f[1] = a
  <2>1. f[0 + 1] = 10 * f[0] + (t[0 + 1] - 48)
    BY <1>4, <1>7, <1>8
  <2> QED
    BY <1>2, <1>4, <1>8, <2>1
<1> DEFINE h == [e \in 1 .. Len(t) |-> f[e]]
<1>10. \A e \in 1 .. Len(t) : h[e] = IF e = 1 THEN a ELSE 10 * h[e - 1] + (Char(t, e - 1) - 48)
  <2> TAKE e \in 1 .. Len(t)
  <2>1. CASE e = 1
    BY <1>9, <2>1
  <2>2. CASE e # 1
    <3>1. PICK i : i = e - 1
      OBVIOUS
    <3>2. i \in 0 .. Len(t) - 1 /\ i \in 1 .. Len(t) /\ i + 1 = e /\ i < Len(t)
      BY <1>4, <1>7, <2>2, <3>1
    <3>3. f[e] = 10 * f[i] + (Char(t, i) - 48)
      BY <1>8, <3>2 DEF Char
    <3> QED
      BY <2>2, <3>1, <3>2, <3>3
  <2> QED
    BY <2>1, <2>2
<1>11. h[Len(t)] = f[Len(t)]
  BY <1>4, <1>7
<1> HIDE DEF h
<1>12. Follows(h, t, 1, a)
  BY <1>10 DEF h, Follows
<1>13. h[Len(t)] = g[Len(u)]
  BY <1>4, <1>6, <1>12, FollowsSame
<1> QED
  BY <1>2, <1>3, <1>5, <1>6, <1>11, <1>13 DEF Reads

-----------------------------------------------------------------------------
(* The numeral a text begins with *)

LEMMA SignIs ==
  ASSUME text \in Seq(ASCII)
  PROVE  /\ SignLength \in {0, 1} /\ SignLength \in 0 .. Len(text)
         /\ Len(text) \in Nat
         /\ \A i \in Nat : i < Len(text) => CharAt(i) = text[i + 1]
         /\ ~IsDigit(CharAt(Len(text)))
<1>1. Len(text) \in Nat
  OBVIOUS
<1>2. ~(0 < Len(text)) => CharAt(0) \notin {Minus, Plus}
  BY DEF CharAt, Minus, Plus
<1> QED
  BY <1>1, <1>2 DEF SignLength, CharAt, IsDigit

\* NumeralEnd is the only place with digits up to it and none on it.
LEMMA EndIs ==
  ASSUME text \in Seq(ASCII), NEW e \in SignLength .. Len(text),
         \A i \in SignLength .. e - 1 : IsDigit(CharAt(i)), ~IsDigit(CharAt(e))
  PROVE  NumeralEnd = e
<1> DEFINE Ends(k) == /\ \A i \in SignLength .. k - 1 : IsDigit(CharAt(i))
                      /\ ~IsDigit(CharAt(k))
<1>1. SignLength \in Nat /\ Len(text) \in Nat
  BY SignIs
<1>2. PICK s, n \in Nat : s = SignLength /\ n = Len(text) /\ s \in Nat
  BY <1>1
<1>3. ASSUME NEW k \in s .. n, Ends(k)
      PROVE  k = e
  <2>1. k \in Nat /\ e \in Nat /\ e \in s .. n
    BY <1>2
  <2>2. ~(k < e)
    <3>1. k < e => k \in SignLength .. e - 1
      BY <1>2, <2>1
    <3> QED
      BY <1>3, <3>1
  <2>3. ~(e < k)
    <3>1. e < k => e \in SignLength .. k - 1
      BY <1>2, <2>1
    <3> QED
      BY <1>3, <3>1
  <2> QED
    BY <2>1, <2>2, <2>3
<1>4. NumeralEnd = CHOOSE k \in s .. n : Ends(k)
  BY <1>2 DEF NumeralEnd
<1>5. e \in s .. n /\ Ends(e)
  BY <1>2
<1> HIDE DEF Ends
<1> QED
  BY <1>3, <1>4, <1>5

LEMMA MagnitudeIs ==
  ASSUME text \in Seq(ASCII)
  PROVE  \E f : Follows(f, text, SignLength, 0) /\ Magnitude = f[NumeralEnd]
<1> DEFINE Eq(f) == f = [e \in SignLength .. Len(text) |->
                           IF e = SignLength THEN 0
                           ELSE 10 * f[e - 1] + (CharAt(e - 1) - 48)]
           value == CHOOSE f : Eq(f)
<1>1. PICK s : s = SignLength
  OBVIOUS
<1>2. PICK f : Follows(f, text, s, 0)
  <2>1. s \in 0 .. Len(text) /\ 0 \in Int
    BY <1>1, SignIs
  <2> QED
    BY <2>1, FollowsExists
<1>3. \A g : Eq(g) <=> Follows(g, text, s, 0)
  BY <1>1 DEF Follows, CharAt, Char
<1>4. Magnitude = value[NumeralEnd]
  BY DEF Magnitude
<1>5. Eq(value)
  <2>1. \E g : Eq(g)
    BY <1>2, <1>3
  <2> HIDE DEF Eq
  <2> QED
    BY <2>1
<1> HIDE DEF value, Eq
<1> QED
  BY <1>1, <1>3, <1>4, <1>5

-----------------------------------------------------------------------------
(* The invariant of printing and parsing *)

TypeInv ==
  /\ signed \in BOOLEAN
  /\ number \in Registers \union {-1}
  /\ text \in Seq(ASCII)
  /\ digits \in Seq(48 .. 57)
  /\ rax \in Registers

\* What is printed in front of the digits, and what the digits are of.
Negative == signed /\ is_negative(number)
Sign == IF Negative THEN <<Minus>> ELSE <<>>
Absolute == IF Negative THEN WORD_MOD - number ELSE number

Numeral == digits # <<>> /\ (digits[1] = 48 => Len(digits) = 1)

\* The digits still to come and those that are there make the number.
Printing ==
  /\ place = "print" => number \in Registers /\ text = <<>> /\ digits = <<>> /\ rax = number
  /\ place \in {"convert", "print_string"} =>
       number \in Registers /\ text = Sign /\ Reads(digits, rax, Absolute)
  /\ place = "convert" => digits = <<>> \/ rax > 0
  /\ place = "print_string" => rax = 0 /\ Numeral
  /\ place = "parse" /\ number # -1 =>
       number \in Registers /\ text = Sign \o digits /\ Reads(digits, 0, Absolute) /\ Numeral

\* rax is the value of the digits up to rdx, modulo the word.
SoFar == \E f : Follows(f, text, SignLength, 0) /\ rax = f[rdx] % WORD_MOD
Parsing ==
  /\ place = "parse_uint" =>
       /\ negative = (signed /\ CharAt(0) = Minus)
       /\ rdx \in SignLength .. Len(text)
       /\ \A i \in SignLength .. rdx - 1 : IsDigit(CharAt(i))
       /\ SoFar
  /\ ParseReadsNumeral

IoInv == TypeInv /\ Printing /\ Parsing

\* The width of the word.
LEMMA Width ==
  /\ WORD_MOD \in Nat \ {0} /\ WORD_MOD \div 2 \in Nat /\ WORD_MOD = 2 * (WORD_MOD \div 2)
  /\ WORD_MOD \div 2 > 0
<1>1. WORD_MOD \in Nat /\ WORD_MOD > 0 /\ WORD_MOD % 2 = 0
  BY WordAssumption
<1>2. WORD_MOD = 2 * (WORD_MOD \div 2) + (WORD_MOD % 2) /\ WORD_MOD \div 2 \in Nat
  BY <1>1
<1> QED
  BY <1>1, <1>2

LEMMA IoInit ==
  ASSUME NumbersInit
  PROVE  IoInv
<1>1. place \in {"print", "parse"} /\ digits = <<>> /\ signed \in BOOLEAN
  BY DEF NumbersInit
<1>2. /\ number \in Registers \union {-1} /\ rax \in Registers /\ text \in Seq(ASCII)
      /\ place = "parse" => number = -1
  <2>1. 0 \in Registers
    BY Width DEF Registers
  <2>2. Texts \subseteq Seq(ASCII)
    BY TextAssumption, Zenon DEF ASCII
  <2>3. <<>> \in Seq(ASCII)
    OBVIOUS
  <2>4. CASE number \in Registers /\ text = <<>> /\ place = "print" /\ rax = number
    BY <2>3, <2>4
  <2>5. CASE number = -1 /\ text \in Texts /\ place = "parse" /\ rax = 0
    BY <2>1, <2>2, <2>5
  <2> QED
    BY <2>4, <2>5 DEF NumbersInit
<1>3. Printing
  BY <1>1, <1>2 DEF NumbersInit, Printing
<1>4. TypeInv
  BY <1>1, <1>2 DEF TypeInv
<1> QED
  BY <1>1, <1>3, <1>4 DEF IoInv, Parsing, ParseReadsNumeral

\* A step outside the parser keeps the parser's part.
LEMMA NotParsing ==
  ASSUME place' \notin {"parse_uint", "parsed"}
  PROVE  Parsing'
BY DEF Parsing, ParseReadsNumeral

LEMMA ReadsNone ==
  ASSUME NEW v \in Int
  PROVE  Reads(<<>>, v, v)
<1>1. <<>> \in Seq(ASCII) /\ 0 \in 0 .. Len(<<>>) /\ Len(<<>>) = 0
  OBVIOUS
<1>2. PICK f : Follows(f, <<>>, 0, v)
  BY <1>1, FollowsExists
<1>3. f[0] = v
  <2>1. Run(f, <<>>, 0, v)
    BY <1>1, <1>2, FollowsIs
  <2> QED
    BY <2>1 DEF Run
<1> QED
  BY <1>1, <1>2, <1>3 DEF Reads

LEMMA PrintSignKeeps ==
  ASSUME IoInv, PrintSign
  PROVE  IoInv'
<1>1. /\ place = "print" /\ place' = "convert"
      /\ UNCHANGED <<signed, number, digits, rdx, negative>>
      /\ \/ Negative /\ text' = <<Minus>> /\ rax' = neg(number)
         \/ ~Negative /\ UNCHANGED <<text, rax>>
  BY DEF PrintSign, Negative
<1>2. number \in Registers /\ text = <<>> /\ digits = <<>> /\ rax = number
  BY <1>1 DEF IoInv, Printing
<1>3. WORD_MOD \in Nat \ {0} /\ number \in 0 .. WORD_MOD - 1
  BY <1>2, Width DEF Registers
<1>4. Negative => neg(number) = WORD_MOD - number /\ WORD_MOD - number \in Registers
  <2>1. Negative => number > 0
    BY Width, <1>3 DEF Negative, is_negative
  <2>2. Negative => WORD_MOD - number \in 0 .. WORD_MOD - 1
    BY <1>3, <2>1
  <2> QED
    BY <1>3, <2>2 DEF neg, Registers
<1>5. rax' = Absolute /\ Absolute \in Registers
  BY <1>1, <1>2, <1>4 DEF Absolute
<1>6. text' = Sign
  BY <1>1, <1>2 DEF Sign
<1>7. Sign' = Sign /\ Absolute' = Absolute
  BY <1>1 DEF Sign, Absolute, Negative, is_negative
<1>8. Reads(digits', rax', Absolute')
  <2>1. Absolute \in Int
    BY <1>5, Width DEF Registers
  <2> QED
    BY <1>1, <1>2, <1>5, <1>7, <2>1, ReadsNone
<1>9. Printing'
  BY <1>1, <1>2, <1>6, <1>7, <1>8 DEF Printing
<1>10. text' \in Seq(ASCII)
  <2>1. Minus \in ASCII
    BY DEF Minus, ASCII
  <2> QED
    BY <1>6, <2>1 DEF Sign
<1>11. TypeInv'
  BY <1>1, <1>2, <1>5, <1>10 DEF IoInv, TypeInv, Registers
<1>12. Parsing'
  BY <1>1, NotParsing
<1> QED
  BY <1>9, <1>11, <1>12 DEF IoInv

\* Digits are characters.
LEMMA DigitsAreText ==
  Seq(48 .. 57) \subseteq Seq(ASCII)
BY DEF ASCII

LEMMA PrintDigitKeeps ==
  ASSUME IoInv, PrintDigit
  PROVE  IoInv'
<1>1. /\ place = "convert"
      /\ digits' = <<48 + (rax % 10)>> \o digits
      /\ rax' = rax \div 10
      /\ place' = IF rax \div 10 = 0 THEN "print_string" ELSE "convert"
      /\ UNCHANGED <<signed, number, text, rdx, negative>>
  BY DEF PrintDigit
<1>2. /\ number \in Registers /\ text = Sign /\ Reads(digits, rax, Absolute)
      /\ digits = <<>> \/ rax > 0
      /\ digits \in Seq(48 .. 57) /\ rax \in Registers
  BY <1>1 DEF IoInv, Printing, TypeInv
<1>3. rax \in Nat /\ rax < WORD_MOD /\ WORD_MOD \in Nat
  BY <1>2, Width DEF Registers
<1>4. PICK a : a = rax
  OBVIOUS
<1>5. /\ a \div 10 \in Nat /\ a % 10 \in 0 .. 9 /\ a = 10 * (a \div 10) + (a % 10)
      /\ a \div 10 <= a
  BY <1>3, <1>4
<1>6. rax' \in Registers
  BY <1>1, <1>3, <1>4, <1>5 DEF Registers
<1>7. PICK d \in 48 .. 57 : d = 48 + (a % 10)
  BY <1>5
<1>8. digits' \in Seq(48 .. 57) /\ digits' # <<>> /\ digits'[1] = d
  BY <1>1, <1>2, <1>4, <1>7
<1>9. Sign' = Sign /\ Absolute' = Absolute
  BY <1>1 DEF Sign, Absolute, Negative, is_negative
<1>10. Reads(digits', rax', Absolute')
  <2>1. digits \in Seq(ASCII)
    BY <1>2, DigitsAreText
  <2>2. Reads(<<48 + (rax % 10)>> \o digits, rax \div 10, Absolute)
    BY <1>2, <1>3, <2>1, Prepend
  <2> QED
    BY <1>1, <1>9, <2>2
<1>11. a \div 10 = 0 => Numeral'
  <2> SUFFICES ASSUME a \div 10 = 0, digits'[1] = 48
               PROVE  Len(digits') = 1
    BY <1>8 DEF Numeral
  <2>1. a = 0
    BY <1>5, <1>7, <1>8
  <2>2. digits = <<>>
    BY <1>2, <1>4, <2>1
  <2> QED
    BY <1>1, <2>2
<1>12. Printing'
  <2>1. a \div 10 # 0 => rax' > 0
    BY <1>1, <1>4, <1>5
  <2>2. place' \in {"convert", "print_string"} /\ (place' = "print_string" <=> a \div 10 = 0)
    BY <1>1, <1>4
  <2>3. rax' = a \div 10
    BY <1>1, <1>4
  <2> QED
    BY <1>1, <1>2, <1>9, <1>10, <1>11, <2>1, <2>2, <2>3 DEF Printing
<1>13. TypeInv'
  BY <1>1, <1>6, <1>8 DEF IoInv, TypeInv, Registers
<1>14. Parsing'
  BY <1>1, NotParsing
<1> QED
  BY <1>12, <1>13, <1>14 DEF IoInv

LEMMA PrintStringKeeps ==
  ASSUME IoInv, PrintString
  PROVE  IoInv'
<1>1. /\ place = "print_string" /\ text' = text \o digits /\ place' = "parse"
      /\ UNCHANGED <<signed, number, digits, rax, rdx, negative>>
  BY DEF PrintString
<1>2. /\ number \in Registers /\ text = Sign /\ Reads(digits, 0, Absolute) /\ Numeral
  BY <1>1 DEF IoInv, Printing
<1>3. Sign' = Sign /\ Absolute' = Absolute /\ Numeral'
  BY <1>1, <1>2 DEF Sign, Absolute, Negative, is_negative, Numeral
<1>4. Printing'
  BY <1>1, <1>2, <1>3 DEF Printing
<1>5. digits \in Seq(ASCII) /\ text \in Seq(ASCII)
  BY DigitsAreText DEF IoInv, TypeInv
<1>6. TypeInv'
  BY <1>1, <1>5 DEF IoInv, TypeInv, Registers
<1>7. Parsing'
  BY <1>1, NotParsing
<1> QED
  BY <1>4, <1>6, <1>7 DEF IoInv

LEMMA ParseSignKeeps ==
  ASSUME IoInv, ParseSign
  PROVE  IoInv'
<1>1. /\ place' = "parse_uint" /\ rax' = 0 /\ rdx' = SignLength
      /\ negative' = (signed /\ CharAt(0) = Minus)
      /\ UNCHANGED <<signed, number, text, digits>>
  BY DEF ParseSign, SignLength
<1>2. text \in Seq(ASCII) /\ SignLength \in 0 .. Len(text) /\ Len(text) \in Nat
  BY SignIs DEF IoInv, TypeInv
<1>3. SignLength' = SignLength
  BY <1>1 DEF SignLength, CharAt
<1>4. SoFar'
  <2>1. PICK s \in 0 .. Len(text) : s = SignLength
    BY <1>2
  <2>2. PICK f : Follows(f, text, s, 0)
    BY <1>2, FollowsExists
  <2>3. f[s] = 0
    BY <1>2, <2>2, FollowsIs DEF Run
  <2>4. 0 % WORD_MOD = 0
    BY Width
  <2> QED
    BY <1>1, <1>3, <2>1, <2>2, <2>3, <2>4 DEF SoFar
<1>5. Parsing'
  BY <1>1, <1>2, <1>3, <1>4 DEF Parsing, CharAt, ParseReadsNumeral
<1>6. TypeInv' /\ Printing'
  BY <1>1, Width DEF IoInv, TypeInv, Printing, Registers
<1> QED
  BY <1>5, <1>6 DEF IoInv

LEMMA ParseDigitKeeps ==
  ASSUME IoInv, ParseDigit
  PROVE  IoInv'
<1>1. /\ place = "parse_uint" /\ IsDigit(CharAt(rdx))
      /\ rax' = (rax * 10 + CharAt(rdx) - 48) % WORD_MOD
      /\ rdx' = rdx + 1
      /\ UNCHANGED <<signed, number, text, digits, place, negative>>
  BY DEF ParseDigit
<1>2. /\ negative = (signed /\ CharAt(0) = Minus)
      /\ rdx \in SignLength .. Len(text)
      /\ \A i \in SignLength .. rdx - 1 : IsDigit(CharAt(i))
      /\ SoFar
  BY <1>1 DEF IoInv, Parsing
<1>3. /\ text \in Seq(ASCII) /\ Len(text) \in Nat /\ SignLength \in 0 .. Len(text)
      /\ ~IsDigit(CharAt(Len(text)))
      /\ \A i \in Nat : i < Len(text) => CharAt(i) = text[i + 1]
  BY SignIs DEF IoInv, TypeInv
<1>4. PICK s, e \in Nat :
        s = SignLength /\ e = rdx /\ s \in 0 .. Len(text) /\ e \in s .. Len(text)
  BY <1>2, <1>3
<1>5. e # Len(text) /\ e < Len(text) /\ e \in Nat
  BY <1>1, <1>3, <1>4
<1>6. PICK c : c = CharAt(e) /\ c = text[e + 1] /\ c \in Int
  <2>1. e + 1 \in 1 .. Len(text)
    BY <1>3, <1>5
  <2>2. text[e + 1] \in ASCII
    BY <1>3, <2>1
  <2> QED
    BY <1>3, <1>5, <2>2, AsciiInt
<1>7. PICK f : Follows(f, text, s, 0) /\ rax = f[e] % WORD_MOD
  BY <1>2, <1>4 DEF SoFar
<1>8. f[e] \in Int /\ f[e + 1] = 10 * f[e] + (c - 48)
  <2>1. 0 \in Int
    OBVIOUS
  <2>2. e \in s .. Len(text) - 1
    BY <1>3, <1>4, <1>5
  <2>3. Run(f, text, s, 0)
    BY <1>3, <1>4, <1>7, <2>1, FollowsIs
  <2> QED
    BY <1>6, <2>2, <2>3 DEF Run
<1>9. rax' = f[e + 1] % WORD_MOD /\ rax' \in Registers
  <2>1. PICK x \in Int, d \in Int : x = f[e] /\ d = c - 48
    BY <1>6, <1>8
  <2>2. ((x % WORD_MOD) * 10 + d) % WORD_MOD = (10 * x + d) % WORD_MOD
    BY Width, ModStep
  <2>3. rax * 10 + CharAt(rdx) - 48 = (x % WORD_MOD) * 10 + d
    <3>1. x % WORD_MOD \in Int
      BY <2>1, Width
    <3> QED
      BY <1>4, <1>6, <1>7, <2>1, <3>1
  <2>4. rax' = (10 * x + d) % WORD_MOD
    BY <1>1, <2>2, <2>3
  <2>5. 10 * x + d \in Int
    OBVIOUS
  <2> QED
    BY <1>8, <2>1, <2>4, <2>5, Width DEF Registers
<1>10. SignLength' = SignLength
  BY <1>1 DEF SignLength, CharAt
<1>11. SoFar'
  BY <1>1, <1>4, <1>7, <1>9, <1>10 DEF SoFar
<1>12. \A i \in s .. e : IsDigit(CharAt(i))
  <2> TAKE i \in s .. e
  <2>1. i = e \/ i \in s .. e - 1
    BY <1>3, <1>4
  <2> QED
    BY <1>1, <1>2, <1>4, <2>1
<1>13. Parsing'
  <2>1. (e + 1) - 1 = e /\ e + 1 \in s .. Len(text)
    BY <1>3, <1>4, <1>5
  <2> QED
    BY <1>1, <1>2, <1>4, <1>10, <1>11, <1>12, <2>1 DEF Parsing, CharAt, ParseReadsNumeral
<1>14. TypeInv' /\ Printing'
  BY <1>1, <1>9 DEF IoInv, TypeInv, Printing, Registers
<1> QED
  BY <1>13, <1>14 DEF IoInv

LEMMA ParseEndsKeeps ==
  ASSUME IoInv, ParseEnds
  PROVE  IoInv'
<1>1. /\ place = "parse_uint" /\ ~IsDigit(CharAt(rdx)) /\ place' = "parsed"
      /\ IF SignLength = 1 /\ rdx = 1
         THEN rax' = 0 /\ rdx' = 0
         ELSE rax' = (IF negative THEN neg(rax) ELSE rax) /\ UNCHANGED rdx
      /\ UNCHANGED <<signed, number, text, digits, negative>>
  BY DEF ParseEnds, SignLength
<1>2. /\ negative = (signed /\ CharAt(0) = Minus)
      /\ rdx \in SignLength .. Len(text)
      /\ \A i \in SignLength .. rdx - 1 : IsDigit(CharAt(i))
      /\ SoFar
  BY <1>1 DEF IoInv, Parsing
<1>3. /\ text \in Seq(ASCII) /\ Len(text) \in Nat /\ SignLength \in 0 .. Len(text)
      /\ SignLength \in {0, 1}
  BY SignIs DEF IoInv, TypeInv
<1>4. PICK s, e \in Nat :
        s = SignLength /\ e = rdx /\ s \in 0 .. Len(text) /\ e \in s .. Len(text)
  BY <1>2, <1>3
<1>5. NumeralEnd = e
  BY <1>1, <1>2, <1>3, <1>4, EndIs
<1>6. PICK f : Follows(f, text, s, 0) /\ rax = f[e] % WORD_MOD
  BY <1>2, <1>4 DEF SoFar
<1>7. f[s] = 0 /\ f[e] \in Int
  <2>1. 0 \in Int
    OBVIOUS
  <2>2. Run(f, text, s, 0)
    BY <1>3, <1>4, <1>6, <2>1, FollowsIs
  <2> QED
    BY <1>4, <2>2 DEF Run
<1>8. Magnitude = f[e]
  <2>1. PICK g : Follows(g, text, s, 0) /\ Magnitude = g[e]
    BY <1>3, <1>4, <1>5, MagnitudeIs
  <2>2. f = g
    <3>1. 0 \in Int
      OBVIOUS
    <3> QED
      BY <1>3, <1>4, <1>6, <2>1, <3>1, FollowsUnique
  <2> QED
    BY <2>1, <2>2
<1>9. rax' \in Registers
  <2>1. rax \in Registers /\ 0 \in Registers
    BY Width DEF IoInv, TypeInv, Registers
  <2>2. neg(rax) \in Registers
    BY <2>1, Width DEF neg, Registers
  <2> QED
    BY <1>1, <2>1, <2>2
<1>10. CASE e = s
  <2>1. rax = 0
    BY <1>6, <1>7, <1>10, Width
  <2>2. rax' = 0 /\ rdx' = 0
    <3>1. neg(0) = 0
      BY Width DEF neg
    <3>2. s = 0 => ~negative \/ neg(0) = 0
      BY <3>1
    <3> QED
      BY <1>1, <1>3, <1>4, <1>10, <2>1, <3>1
  <2> QED
    BY <1>1, <1>4, <1>5, <1>9, <1>10, <2>2 DEF IoInv, TypeInv, Printing, Parsing, Registers,
       ParseReadsNumeral, NumeralEnd, SignLength, CharAt
<1>11. CASE e # s
  <2>1. rdx' = e /\ rax' = (IF negative THEN neg(rax) ELSE rax)
    BY <1>1, <1>3, <1>4, <1>11
  <2>2. neg(rax) = (-f[e]) % WORD_MOD /\ rax = f[e] % WORD_MOD
    BY <1>6, <1>7, Width, ModStep DEF neg
  <2>3. CharAt(0) = Minus => signed
    <3>1. ~signed /\ CharAt(0) = Minus => s = 0 /\ ~IsDigit(CharAt(0))
      BY <1>4 DEF SignLength, IsDigit, Minus
    <3>2. s = 0 => 0 \in s .. e - 1
      BY <1>3, <1>4, <1>11
    <3> QED
      BY <1>2, <1>4, <3>1, <3>2 DEF IoInv, TypeInv
  <2>4. rax' = (IF CharAt(0) = Minus THEN -Magnitude ELSE Magnitude) % WORD_MOD
    BY <1>2, <1>8, <2>1, <2>2, <2>3
  <2>5. ParseReadsNumeral'
    <3>1. SignLength' = SignLength /\ NumeralEnd' = NumeralEnd /\ CharAt(0)' = CharAt(0)
      BY <1>1 DEF SignLength, NumeralEnd, CharAt
    <3>2. Magnitude' = Magnitude
      BY <1>1, <3>1 DEF Magnitude, SignLength, NumeralEnd, CharAt
    <3> QED
      BY <1>4, <1>5, <1>11, <2>1, <2>4, <3>1, <3>2 DEF ParseReadsNumeral
  <2> QED
    BY <1>1, <1>9, <2>5 DEF IoInv, TypeInv, Printing, Parsing, Registers
<1> QED
  BY <1>10, <1>11

LEMMA IoStep ==
  ASSUME IoInv, [NumbersNext]_numbersVars
  PROVE  IoInv'
<1>1. CASE UNCHANGED numbersVars
  <2>1. UNCHANGED <<signed, number, text, digits, place, rax, rdx, negative>>
    BY <1>1 DEF numbersVars
  <2>2. TypeInv' /\ Printing'
    BY <2>1 DEF IoInv, TypeInv, Printing, Sign, Absolute, Negative, Numeral, is_negative, Registers
  <2>3. SignLength' = SignLength /\ NumeralEnd' = NumeralEnd /\ Magnitude' = Magnitude
    BY <2>1 DEF SignLength, NumeralEnd, Magnitude, CharAt
  <2>4. Parsing'
    BY <2>1, <2>3 DEF IoInv, Parsing, ParseReadsNumeral, SoFar, CharAt
  <2> QED
    BY <2>2, <2>4 DEF IoInv
<1> QED
  BY <1>1, PrintSignKeeps, PrintDigitKeeps, PrintStringKeeps, ParseSignKeeps,
     ParseDigitKeeps, ParseEndsKeeps
  DEF NumbersNext, NumbersStep, Returned

THEOREM IoInvariant == NumbersSpec => []IoInv
<1> QED
  BY IoInit, IoStep, PTL DEF NumbersSpec

\* parse_uint and parse_int read the longest numeral the text begins with and
\* return its value up to a multiple of the word's range, whatever the text.
THEOREM ParsesTheNumeral == NumbersSpec => []ParseReadsNumeral
<1>1. IoInv => ParseReadsNumeral
  BY DEF IoInv, Parsing
<1> QED
  BY <1>1, IoInvariant, PTL

\* print_uint and print_int print the usual numeral of every number: its value, no
\* leading zero, and no more than a minus in front.
THEOREM PrintsTheNumeral == NumbersSpec => []PrintsNumeral
<1>1. IoInv => PrintsNumeral
  <2> SUFFICES ASSUME IoInv, place = "parse", number # -1
               PROVE  /\ NumeralEnd = Len(text) /\ CharAt(0) # Plus
                      /\ CharAt(SignLength) = 48 => Len(text) = 1
                      /\ (IF signed /\ number >= WORD_MOD \div 2 THEN number - WORD_MOD
                          ELSE number)
                         = IF CharAt(0) = Minus THEN -Magnitude ELSE Magnitude
    BY DEF PrintsNumeral
  <2>1. /\ number \in Registers /\ text = Sign \o digits /\ Reads(digits, 0, Absolute)
        /\ Numeral /\ digits \in Seq(48 .. 57) /\ text \in Seq(ASCII)
    BY DEF IoInv, Printing, TypeInv
  <2>2. PICK k \in {0, 1} : k = Len(Sign) /\ (k = 1 <=> Negative)
    BY DEF Sign
  <2>3. PICK n \in Nat : n = Len(digits) /\ n >= 1
    BY <2>1 DEF Numeral
  <2>4. /\ Len(text) = n + k
        /\ \A i \in 1 .. n : text[i + k] = digits[i]
        /\ k = 1 => text[1] = Minus
    BY <2>1, <2>2, <2>3 DEF Sign
  <2>5. \A i \in 1 .. n : digits[i] \in 48 .. 57
    BY <2>1, <2>3
  <2>6. \A i \in Nat : i < n + k => CharAt(i) = text[i + 1]
    BY <2>1, <2>4, SignIs
  <2>7. CharAt(0) = text[1]
    BY <2>2, <2>3, <2>6
  <2>8. SignLength = k /\ CharAt(0) # Plus /\ (CharAt(0) = Minus <=> k = 1)
    <3>1. CASE k = 1
      BY <2>2, <2>4, <2>7, <3>1 DEF SignLength, Negative, Minus, Plus
    <3>2. CASE k = 0
      <4>1. text[1 + 0] = digits[1] /\ digits[1] \in 48 .. 57
        BY <2>3, <2>4, <2>5, <3>2
      <4>2. CharAt(0) \in 48 .. 57
        BY <2>7, <4>1
      <4> QED
        BY <3>2, <4>2 DEF SignLength, Minus, Plus
    <3> QED
      BY <3>1, <3>2
  <2>9. NumeralEnd = Len(text)
    <3>1. \A i \in k .. n + k - 1 : IsDigit(CharAt(i))
      <4> TAKE i \in k .. n + k - 1
      <4>1. PICK j \in Nat : j = i + 1 - k
        BY <2>2
      <4>2. j \in 1 .. n /\ i + 1 = j + k /\ i \in Nat /\ i < n + k
        BY <2>2, <2>3, <4>1
      <4>3. CharAt(i) = digits[j]
        BY <2>4, <2>6, <4>2
      <4> QED
        BY <2>5, <4>2, <4>3 DEF IsDigit
    <3>2. ~IsDigit(CharAt(Len(text)))
      BY <2>1, SignIs
    <3>3. Len(text) \in SignLength .. Len(text)
      BY <2>2, <2>3, <2>4, <2>8
    <3> QED
      BY <2>1, <2>4, <2>8, <3>1, <3>2, <3>3, EndIs
  <2>10. PICK g : Follows(g, digits, 0, 0) /\ g[n] = Absolute
    BY <2>1, <2>3 DEF Reads
  <2>11. digits \in Seq(ASCII) /\ 0 \in Int /\ 0 \in 0 .. Len(digits) /\ k \in Nat
    BY <2>1, <2>2, <2>3, DigitsAreText
  <2>12. Magnitude = Absolute
    <3>1. PICK f : Follows(f, text, k, 0) /\ Magnitude = f[Len(text)]
      BY <2>1, <2>8, <2>9, MagnitudeIs
    <3>2. f[Len(text)] = g[Len(digits)]
      <4>1. Len(text) = Len(digits) + k /\ \A i \in 1 .. Len(digits) : text[i + k] = digits[i]
        BY <2>3, <2>4
      <4>2. text \in Seq(ASCII) /\ Follows(g, digits, 0, 0) /\ Follows(f, text, k, 0)
        BY <2>1, <2>10, <3>1
      <4> QED
        BY <2>11, <4>1, <4>2, FollowsSame
    <3> QED
      BY <2>3, <2>10, <3>1, <3>2
  <2>13. WORD_MOD \in Nat /\ number \in 0 .. WORD_MOD - 1 /\ WORD_MOD \div 2 \in Nat
    BY <2>1, Width DEF Registers
  <2>14. CharAt(SignLength) = 48 => Len(text) = 1
    <3> SUFFICES ASSUME CharAt(SignLength) = 48
                 PROVE  Len(text) = 1
      OBVIOUS
    <3>1. digits[1] = 48
      <4>1. CharAt(k) = text[k + 1] /\ k + 1 = 1 + k
        BY <2>2, <2>3, <2>6
      <4>2. text[1 + k] = digits[1]
        BY <2>3, <2>4
      <4> QED
        BY <2>8, <4>1, <4>2
    <3>2. n = 1
      BY <2>1, <2>3, <3>1 DEF Numeral
    <3>3. Absolute = 0
      <4>1. Run(g, digits, 0, 0)
        BY <2>10, <2>11, FollowsIs
      <4>2. g[0] = 0 /\ g[0 + 1] = 10 * g[0] + (digits[0 + 1] - 48)
        BY <2>3, <3>2, <4>1 DEF Run
      <4> QED
        BY <2>10, <3>1, <3>2, <4>2
    <3>4. k = 0
      BY <2>2, <2>13, <3>3 DEF Absolute
    <3> QED
      BY <2>4, <3>2, <3>4
  <2>15. (IF signed /\ number >= WORD_MOD \div 2 THEN number - WORD_MOD ELSE number)
            = IF CharAt(0) = Minus THEN -Magnitude ELSE Magnitude
    BY <2>2, <2>8, <2>12, <2>13 DEF Negative, is_negative, Absolute
  <2> QED
    BY <2>8, <2>9, <2>14, <2>15
<1> QED
  BY <1>1, IoInvariant, PTL
=============================================================================
