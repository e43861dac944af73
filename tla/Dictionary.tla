----------------------------- MODULE Dictionary -----------------------------
(***************************************************************************)
(* The dictionary program: the list the colon macro builds, find_word, and *)
(* _start, which looks up the first word of stdin and prints its value.    *)
(* Reading the word is WordReader's.                                       *)
(***************************************************************************)
EXTENDS WordReader

CONSTANTS
  Words,       \* the lines of words.inc: pairs of a key and a value, top down
  BUFFER_SIZE, \* buffer_size
  Values       \* of the words

ASSUME WordsAssumption == Words \in Seq(Seq(Letters) \X Values)
ASSUME BufferAssumption == BUFFER_SIZE \in BufferSizes

VARIABLES
  entry,       \* the entry find_word is at: a line of words.inc; 0 is no entry
  out, err,    \* what has been written to stdout and stderr
  lost,        \* history: a write has not written all it should
  exitCode     \* -1: still running

dictVars == <<entry, out, err, lost, exitCode>>
vars == <<readerVars, dictVars>>

\* Variants: an entry points to itself; the pointer is left behind the last entry.
next_word_itself(e) == e

\* The colon macro: each entry points to the one before, and next_word_pointer is
\* left at the last.
next_word(e) == e - 1
next_word_pointer == Len(Words)
Key(e) == Words[e][1]
Value(e) == Words[e][2]

\* Variant: the zero that ends the word in the buffer is not compared.
string_equals_prefix(key) == \A i \in 1 .. Len(key) : buffer[i - 1] = key[i]

\* string_equals of the buffer and a key: all bytes, the zero included.
string_equals(key) ==
  (\A i \in 1 .. Len(key) : buffer[i - 1] = key[i]) /\ buffer[Len(key)] = NUL

Init ==
  /\ ReaderInit
  /\ slot = NUL          \* a fresh stack
  /\ entry = 0
  /\ out = <<>>
  /\ err = "none"
  /\ lost = FALSE
  /\ exitCode = -1

\* _start calls read_word.
ReadKey == Call(BUFFER_SIZE) /\ exitCode = -1 /\ UNCHANGED dictVars

ReadStep == Reading /\ UNCHANGED dictVars

\* ... and goes on to find_word when it returns a word.
StartSearch ==
  /\ pc = "done" /\ returned = "buffer"
  /\ entry' = next_word_pointer
  /\ pc' = "find_word"
  /\ UNCHANGED <<stdin, taken, slot, al, buffer, size, length, returned, from, failed,
                 out, err, lost, exitCode>>

\* An entry of find_word's loop that does not match.
Advance ==
  /\ pc = "find_word"
  /\ entry # 0
  /\ ~string_equals(Key(entry))
  /\ entry' = next_word(entry)
  /\ UNCHANGED <<readerVars, out, err, lost, exitCode>>

Finish(code) == exitCode' = code /\ pc' = "exit"

\* print_string of the value behind the key, print_newline and exit.  The result
\* of write is not looked at.
Found ==
  /\ pc = "find_word"
  /\ entry # 0
  /\ string_equals(Key(entry))
  /\ \/ out' = <<Value(entry), "newline">> /\ UNCHANGED lost
     \/ out' \in {<<>>, <<"newline">>, <<Value(entry)>>} /\ lost' = TRUE
  /\ Finish(0)
  /\ UNCHANGED <<stdin, taken, slot, al, buffer, size, length, returned, from, failed,
                 entry, err>>

PrintError(message) ==
  /\ \/ err' = message /\ UNCHANGED lost
     \/ lost' = TRUE /\ UNCHANGED err
  /\ Finish(1)
  /\ UNCHANGED <<stdin, taken, slot, al, buffer, size, length, returned, from, failed,
                 entry, out>>

NotFound ==
  /\ pc = "find_word"
  /\ entry = 0
  /\ PrintError("Not found!")

TooLongOrEmpty ==
  /\ pc = "done" /\ returned = "null"
  /\ PrintError("Word is too long for buffer!")

Exited == pc = "exit" /\ UNCHANGED vars

Step == ReadStep \/ StartSearch \/ Advance \/ Found \/ NotFound \/ TooLongOrEmpty

Next == ReadKey \/ Step \/ Exited

\* The program goes on, and fairness never owes it a read that fails.
Spec == Init /\ [][Next]_vars /\ WF_vars(Step /\ UNCHANGED failed)

-----------------------------------------------------------------------------
(* What must hold *)

\* The word of the input, and the entries it names.
Asked == SubSeq(stdin, WordStart(0) + 1, WordStart(0) + WordLength(0))
Matching == {e \in 1 .. Len(Words) : Key(e) = Asked}
Newest == CHOOSE e \in Matching : \A f \in Matching : f <= e

\* Unless the kernel refuses to read or write, the program answers the first word
\* of stdin with the value last given to it in words.inc and status 0, and any
\* other input with its own message on stderr and status 1.
AnswerIsRight ==
  exitCode # -1 /\ ~failed /\ ~lost =>
    CASE Len(Asked) = 0 \/ Len(Asked) >= BUFFER_SIZE ->
           exitCode = 1 /\ out = <<>> /\ err = "Word is too long for buffer!"
      [] Len(Asked) \in 1 .. BUFFER_SIZE - 1 /\ Matching = {} ->
           exitCode = 1 /\ out = <<>> /\ err = "Not found!"
      [] OTHER ->
           exitCode = 0 /\ out = <<Value(Newest), "newline">> /\ err = "none"

\* find_word never compares a byte that read_word has not written.
ComparesWrittenBytes ==
  pc = "find_word" /\ entry # 0 =>
    \A i \in 0 .. Len(Key(entry)) :
      (\A j \in 0 .. i - 1 : buffer[j] = Key(entry)[j + 1]) => buffer[i] # Garbage

\* The entry that is printed was asked for, even if a read fails on the way.
FoundWasAsked == exitCode = 0 => entry \in Matching

\* As long as no read fails, the program ends.
Terminates == []~failed => (pc = "skip_spaces" ~> pc = "exit")
=============================================================================
