------------------------ MODULE MCImageTransformer ------------------------
(***************************************************************************)
(* The image transformer and its tests on small files.                     *)
(***************************************************************************)
EXTENDS RotationTest

CONSTANTS
  Offsets, Widths, RowCounts,   \* what headers say
  CutOff                        \* how many bytes a file may lack

\* Both orders of rows, and the least int.
MCHeights == RowCounts \union {-r : r \in RowCounts} \union {-(INT_MOD \div 2)}

\* The angles of the list, other numbers and no number.
MCArguments == AllowedAngles \union {45, 360, NotANumber, Missing}

MCHeader(off, w, h) ==
  [bfType |-> "BM", biBitCount |-> 24, fixed |-> TRUE, bOffBits |-> off,
   biWidth |-> w, biHeight |-> h]

\* Headers that pass read_header, and one for each check that fails.
MCHeaders ==
  {MCHeader(off, w, h) : off \in Offsets, w \in Widths, h \in MCHeights}
    \union {[MCHeader(HEADER_SIZE, 1, 1) EXCEPT !.bfType = "other"],
            [MCHeader(HEADER_SIZE, 1, 1) EXCEPT !.biBitCount = 32],
            [MCHeader(HEADER_SIZE, 1, 1) EXCEPT !.fixed = FALSE],
            MCHeader(HEADER_SIZE - 1, 1, 1),
            MCHeader(HEADER_SIZE, 0, 1), MCHeader(HEADER_SIZE, -1, 1),
            MCHeader(HEADER_SIZE, 1, 0)}

\* The bytes a file with such a header should have; a file of a height that
\* cannot be read ends somewhere.
MCBytes(f) ==
  IF f.biHeight = -(INT_MOD \div 2) THEN HEADER_SIZE + 30
  ELSE f.bOffBits + BytesIn(Shown(f.bOffBits, f.biWidth, f.biHeight))

MCSourceFiles ==
  {[bfType |-> f.bfType, biBitCount |-> f.biBitCount, fixed |-> f.fixed,
    bOffBits |-> f.bOffBits, biWidth |-> f.biWidth, biHeight |-> f.biHeight,
    length |-> MCBytes(f) - cut] : f \in MCHeaders, cut \in CutOff \union {-1}}
=============================================================================
