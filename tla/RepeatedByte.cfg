\* The dictionary with reads that fail.
CONSTANTS
  Letters = {"a", "b"}
  Blank = " "
  NUL = "0"
  Garbage = "?"
  MaxInput = 5
  Inputs <- MCInputs
  BufferSizes = {3}
  BUFFER_SIZE = 3
  Words <- MCWords
  Values = {"v1", "v2", "v3", "v4"}
SPECIFICATION Spec
INVARIANT
  FoundWasAsked
