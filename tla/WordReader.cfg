\* Buffers without room, with room for the zero only, and for one and two
\* letters; inputs long enough for two words, blanks before, between and behind
\* them, zero bytes, and a word that is too long.
CONSTANTS
  Letters = {"a", "b"}
  Blank = " "
  NUL = "0"
  Garbage = "?"
  MaxInput = 5
  Inputs <- MCInputs
  BufferSizes = {0, 1, 2, 3}
SPECIFICATION ReaderSpec
INVARIANTS
  NoOverrun
  WordIsNext
  FailureIsJustified
