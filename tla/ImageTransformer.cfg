\* Rows that need 1, 2, 3 and 0 bytes of padding (widths 1 to 4), up to three rows
\* in either order, the least int, a gap behind the header, files that lack bytes
\* of the padding, of a row and of the header, or have a byte too many.
CONSTANTS
  INT_MOD = 1024
  LONG_MOD = 1048576
  MaxAlloc = 27
  Arguments <- MCArguments
  NotANumber = NotANumber
  Missing = Missing
  Offsets = {54, 56}
  Widths = {1, 2, 3, 4}
  RowCounts = {1, 2, 3}
  CutOff = {0, 1, 2, 4, 40}
  SourceFiles <- MCSourceFiles
  CMP_BUFFER_SIZE = 2
  Strange = Strange
SPECIFICATION TestSpec
INVARIANTS
  ExitReleasesAll
  ReadShowsFile
  RowsFitTheBuffer
  ShortFileIsRejected
  TargetIsBeginning
  SuccessIsTurnedPicture
  PassMeansTurned
