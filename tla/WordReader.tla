----------------------------- MODULE WordReader -----------------------------
(***************************************************************************)
(* read_char and read_word of the I/O library: words taken from stdin into *)
(* a caller's buffer, one byte and one system call at a time.  A call of   *)
(* read may also fail; the library takes the byte that is left on its      *)
(* stack for the answer.                                                   *)
(***************************************************************************)
EXTENDS Integers, Sequences

CONSTANTS
  Letters,     \* bytes that words are made of
  Blank,       \* the bytes 0x20, 0x9 and 0xA
  NUL,         \* the byte 0: also what read_char returns at the end
  Garbage,     \* marks a byte of a buffer that read_word has not written
  Inputs,      \* what stdin may hold
  BufferSizes

ASSUME ByteAssumption ==
  /\ Blank \notin Letters /\ NUL \notin Letters \union {Blank}
  /\ Garbage \notin Letters \union {Blank, NUL}
  /\ Inputs \subseteq Seq(Letters \union {Blank, NUL})
ASSUME SizeAssumption ==
  BufferSizes \subseteq Nat /\ \E m \in BufferSizes : \A n \in BufferSizes : n <= m

VARIABLES
  stdin,       \* all that will ever come
  taken,       \* how much of it has been read
  slot,        \* the stack byte read_char passes to the kernel
  pc,
  al,          \* the character in hand
  buffer,      \* address relative to the buffer |-> byte, beyond its end too
  size,        \* of the buffer
  length,      \* r14
  returned,    \* rax: "null", or "buffer" with the length in length
  from,        \* history: taken when the call began
  failed       \* history: a call of read has failed

readerVars == <<stdin, taken, slot, pc, al, buffer, size, length, returned, from, failed>>

Bytes == Letters \union {Blank, NUL}
Memory == 0 .. 1 + CHOOSE m \in BufferSizes : \A n \in BufferSizes : n <= m
Delimiters == {Blank, NUL}

ReaderInit ==
  /\ stdin \in Inputs
  /\ taken = 0
  /\ slot \in Bytes
  /\ pc = "idle"
  /\ al = NUL
  /\ buffer = [i \in Memory |-> Garbage]
  /\ size \in BufferSizes
  /\ length = 0
  /\ returned = "null"
  /\ from = 0
  /\ failed = FALSE

\* read_char returns c.  Only the result 0 of read is told from success.
read_char(c) ==
  \/ /\ taken < Len(stdin)
     /\ c = stdin[taken + 1]
     /\ taken' = taken + 1
     /\ slot' = c
     /\ UNCHANGED failed
  \/ taken = Len(stdin) /\ c = NUL /\ UNCHANGED <<taken, slot, failed>>
  \/ c = slot /\ failed' = TRUE /\ UNCHANGED <<taken, slot>>

Return(result) == returned' = result /\ pc' = "done"

\* read_word is called with a buffer of n bytes.
Call(n) ==
  /\ pc = "idle"
  /\ size' = n
  /\ buffer' = [i \in Memory |-> Garbage]
  /\ length' = 0
  /\ from' = taken
  /\ IF n = 0 THEN Return("null") ELSE pc' = "skip_spaces" /\ UNCHANGED returned
  /\ UNCHANGED <<stdin, taken, slot, al, failed>>

\* .skip_spaces
SkipSpaces ==
  /\ pc = "skip_spaces"
  /\ \E c \in Bytes :
       /\ read_char(c)
       /\ al' = c
       /\ CASE c = NUL   -> Return("null")
            [] c = Blank -> UNCHANGED <<pc, returned>>
            [] OTHER     -> pc' = "store" /\ UNCHANGED returned
  /\ UNCHANGED <<stdin, buffer, size, length, from>>

\* Variant: no room is kept for the zero.
Store_fills_up ==
  /\ pc = "store"
  /\ buffer' = [buffer EXCEPT ![length] = al]
  /\ length' = length + 1
  /\ IF length + 1 > size THEN Return("null") ELSE pc' = "read_loop" /\ UNCHANGED returned
  /\ UNCHANGED <<stdin, taken, slot, al, size, from, failed>>

\* Variant: room for two bytes is kept.
Store_keeps_two ==
  /\ pc = "store"
  /\ buffer' = [buffer EXCEPT ![length] = al]
  /\ length' = length + 1
  /\ IF length + 2 >= size THEN Return("null") ELSE pc' = "read_loop" /\ UNCHANGED returned
  /\ UNCHANGED <<stdin, taken, slot, al, size, from, failed>>

\* .read_loop up to the next read_char
Store ==
  /\ pc = "store"
  /\ buffer' = [buffer EXCEPT ![length] = al]
  /\ length' = length + 1
  /\ IF length + 1 >= size THEN Return("null") ELSE pc' = "read_loop" /\ UNCHANGED returned
  /\ UNCHANGED <<stdin, taken, slot, al, size, from, failed>>

\* Variant: the word is left without its zero.
ReadLoop_unterminated ==
  /\ pc = "read_loop"
  /\ \E c \in Bytes :
       /\ read_char(c)
       /\ al' = c
       /\ IF c \in Delimiters THEN Return("buffer") ELSE pc' = "store" /\ UNCHANGED returned
  /\ UNCHANGED <<stdin, buffer, size, length, from>>

\* The rest of .read_loop, and .finish
ReadLoop ==
  /\ pc = "read_loop"
  /\ \E c \in Bytes :
       /\ read_char(c)
       /\ al' = c
       /\ IF c \in Delimiters
          THEN Return("buffer") /\ buffer' = [buffer EXCEPT ![length] = NUL]
          ELSE pc' = "store" /\ UNCHANGED <<returned, buffer>>
  /\ UNCHANGED <<stdin, size, length, from>>

\* The caller has looked at the word and may ask for another one.
Resume == pc = "done" /\ pc' = "idle"
          /\ UNCHANGED <<stdin, taken, slot, al, buffer, size, length, returned, from, failed>>

Reading == SkipSpaces \/ Store \/ ReadLoop

ReaderNext == Reading \/ Resume \/ \E n \in BufferSizes : Call(n)

\* A call goes on, and fairness never owes it a read that fails.
ReaderSpec ==
  ReaderInit /\ [][ReaderNext]_readerVars /\ WF_readerVars(Reading /\ UNCHANGED failed)

-----------------------------------------------------------------------------
(* What must hold *)

ReaderState ==
  /\ stdin \in Inputs
  /\ taken \in 0 .. Len(stdin)
  /\ slot \in Bytes
  /\ al \in Bytes
  /\ buffer \in [Memory -> Bytes \union {Garbage}]
  /\ size \in BufferSizes
  /\ length \in 0 .. size
  /\ returned \in {"null", "buffer"}
  /\ from \in 0 .. taken
  /\ failed \in BOOLEAN

ReaderTypeOK ==
  ReaderState /\ pc \in {"idle", "skip_spaces", "store", "read_loop", "done"}

\* Nothing is written at or beyond the end of the buffer, whatever comes in.
NoOverrun == \A i \in Memory : i >= size => buffer[i] = Garbage

\* The next word of stdin at position n, counted from 0: where it begins, and how
\* long it is.
WordStart(n) ==
  CHOOSE i \in n .. Len(stdin) :
    /\ i < Len(stdin) => stdin[i + 1] # Blank
    /\ \A j \in n .. i - 1 : stdin[j + 1] = Blank
WordLength(n) ==
  CHOOSE k \in 0 .. Len(stdin) - WordStart(n) :
    /\ WordStart(n) + k < Len(stdin) => stdin[WordStart(n) + k + 1] \in Delimiters
    /\ \A j \in WordStart(n) .. WordStart(n) + k - 1 : stdin[j + 1] \notin Delimiters

WordIsNextOfInput ==
  pc = "done" /\ returned = "buffer" =>
    /\ length = WordLength(from)
    /\ \A i \in 0 .. length - 1 : buffer[i] = stdin[WordStart(from) + i + 1]
    /\ buffer[length] = NUL

\* As long as no read fails, a successful read_word has put the next word of the
\* input with its zero into the buffer, and has taken that word and the delimiter
\* behind it from stdin and nothing more: no call loses the start of the next word.
WordIsNext ==
  ~failed =>
    /\ WordIsNextOfInput
    /\ pc = "done" /\ returned = "buffer" =>
         /\ taken >= WordStart(from) + length
         /\ taken <= WordStart(from) + length + 1

\* As long as no read fails, read_word gives up only on a word that does not fit
\* with its zero, or when there is no word before the end or a zero byte.
FailureIsJustified ==
  ~failed /\ pc = "done" /\ returned = "null" =>
    WordLength(from) = 0 \/ WordLength(from) + 1 > size

=============================================================================
