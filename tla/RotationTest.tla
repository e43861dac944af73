---------------------------- MODULE RotationTest ----------------------------
(***************************************************************************)
(* A test of laboratory work 3, as tester.cmake runs it: the image         *)
(* transformer (ImageTransformer) makes output.bmp, and image-matcher      *)
(* compares it with output_expected.bmp by bmp_cmp and file_cmp.  Files    *)
(* are counted in the items of target.body: a pixel is one item, and so is *)
(* a byte of padding; the matcher's buffer is counted in pixels.           *)
(***************************************************************************)
EXTENDS ImageTransformer

CONSTANTS
  CMP_BUFFER_SIZE,   \* pixels the matcher reads at once
  Strange            \* a pixel that is not in the source

ASSUME BufferAssumption == CMP_BUFFER_SIZE \in Nat \ {0}

VARIABLES
  test,       \* what the test is about to do, or its result
  expected,   \* output_expected.bmp
  at,         \* where the matcher is in the two files
  line,       \* rows it has compared
  sz,         \* pixels of the row that file_cmp has not looked at
  misread     \* history: an fread returned less than there is

testVars == <<test, expected, at, line, sz, misread>>

NoFile == [header |-> <<>>, body |-> <<>>]
RightFile == [header |-> <<RightHeader>>, body |-> Body(TurnedPicture)]

\* What a test may expect: the right picture, one with another first or last pixel,
\* one that ends early, one of another size, or no picture.
ExpectedFiles ==
  LET right == Body(TurnedPicture)
      last == Len(right) - RowPadding(TurnedPicture.x)
  IN  { RightFile, NoFile,
        [RightFile EXCEPT !.body[1] = Strange], [RightFile EXCEPT !.body[last] = Strange],
        [RightFile EXCEPT !.body = SubSeq(@, 1, last - 1)],
        [RightFile EXCEPT !.header[1].biHeight = @ + 1] }

TestInit ==
  /\ Init
  /\ test = "transform" /\ expected = NoFile /\ at = <<0, 0>> /\ line = 0 /\ sz = 0
  /\ misread = FALSE

Transforms == Step /\ UNCHANGED testVars

\* exec_check: a status other than 0 fails the test.
TransformerFails ==
  /\ test = "transform" /\ pc = "exit" /\ exitStatus # 0
  /\ test' = "failed"
  /\ UNCHANGED <<vars, expected, at, line, sz, misread>>

----------------------------------------------------------------------------
(* image-matcher *)

matcher_padding(width) == width % 4

\* main opens both files, and bmp_cmp reads and compares the headers.
MatcherStarts ==
  /\ test = "transform" /\ pc = "exit" /\ exitStatus = 0
  /\ expected' \in ExpectedFiles
  /\ LET sameSize == target.header # <<>> /\ expected'.header # <<>>
                       /\ target.header[1].biWidth = expected'.header[1].biWidth
                       /\ target.header[1].biHeight = expected'.header[1].biHeight
     IN  test' = IF sameSize THEN "line" ELSE "failed"
  /\ UNCHANGED <<vars, at, line, sz, misread>>

MatcherFailsToOpen ==
  /\ test = "transform" /\ pc = "exit" /\ exitStatus = 0
  /\ test' = "failed"
  /\ UNCHANGED <<vars, expected, at, line, sz, misread>>

\* The loop of bmp_cmp: the next row, or the files are equal.
NextLine ==
  /\ test = "line"
  /\ IF line < target.header[1].biHeight
     THEN test' = "file_cmp" /\ sz' = target.header[1].biWidth
     ELSE test' = "passed" /\ UNCHANGED sz
  /\ UNCHANGED <<vars, expected, at, line, misread>>

Smaller(m, n) == IF m < n THEN m ELSE n

\* What fread gives of n items from place p on, unless it fails.
Rest(body, p, n) == IF p >= Len(body) THEN <<>> ELSE SubSeq(body, p + 1, p + Smaller(n, Len(body) - p))

\* Variant: the lengths are not compared.
cmp_chunk_same_length(buf1, buf2) ==
  LET n == Smaller(Len(buf1), Len(buf2))
  IN  IF SubSeq(buf1, 1, n) # SubSeq(buf2, 1, n) THEN "CMP_INT_DIFF"
      ELSE IF n = CMP_BUFFER_SIZE THEN "CMP_INT_UNDEF" ELSE "CMP_INT_EQ"

cmp_chunk(buf1, buf2) ==
  IF buf1 # buf2 THEN "CMP_INT_DIFF"
  ELSE IF Len(buf1) = CMP_BUFFER_SIZE THEN "CMP_INT_UNDEF" ELSE "CMP_INT_EQ"

\* A turn of the loop of file_cmp; each fread may give less than there is.
CompareChunk ==
  LET chunk_size == Smaller(CMP_BUFFER_SIZE, sz)
      full1 == Rest(target.body, at[1], chunk_size)
      full2 == Rest(expected.body, at[2], chunk_size)
  IN  /\ test = "file_cmp" /\ sz > 0
      /\ \E buf1 \in {full1, <<>>}, buf2 \in {full2, <<>>} :
           /\ at' = <<at[1] + Len(buf1), at[2] + Len(buf2)>>
           /\ misread' = (misread \/ buf1 # full1 \/ buf2 # full2)
           /\ CASE cmp_chunk(buf1, buf2) = "CMP_INT_DIFF" -> test' = "failed" /\ UNCHANGED sz
                [] cmp_chunk(buf1, buf2) = "CMP_INT_EQ" -> test' = "skip" /\ UNCHANGED sz
                [] OTHER -> sz' = sz - CMP_BUFFER_SIZE /\ UNCHANGED test
      /\ UNCHANGED <<vars, expected, line>>

RowIsEqual ==
  /\ test = "file_cmp" /\ sz = 0
  /\ test' = "skip"
  /\ UNCHANGED <<vars, expected, at, line, sz, misread>>

\* fseek over the padding of both files.
SkipPadding ==
  /\ test = "skip"
  /\ at' = [f \in {1, 2} |-> at[f] + matcher_padding(target.header[1].biWidth)]
  /\ line' = line + 1
  /\ test' = "line"
  /\ UNCHANGED <<vars, expected, sz, misread>>

SkipPaddingFails ==
  /\ test = "skip"
  /\ test' = "failed"
  /\ UNCHANGED <<vars, expected, at, line, sz, misread>>

TestEnded == test \in {"passed", "failed"} /\ UNCHANGED <<vars, testVars>>

TestNext ==
  \/ Transforms \/ TransformerFails \/ MatcherStarts \/ MatcherFailsToOpen \/ NextLine
  \/ CompareChunk \/ RowIsEqual \/ SkipPadding \/ SkipPaddingFails \/ TestEnded

TestSpec == TestInit /\ [][TestNext]_<<vars, testVars>>
-----------------------------------------------------------------------------
(* What must hold *)

\* A test that passes with the right file as its expectation shows that every pixel
\* has arrived, also when the transformer lost a part of the target on closing it:
\* the matcher misses nothing but bytes of padding behind the last row, unless it
\* has itself failed to read.
PassMeansTurned ==
  test = "passed" /\ expected = RightFile /\ ~misread =>
    /\ target.header = <<RightHeader>>
    /\ Len(target.body) >= Len(RightFile.body) - RowPadding(TurnedPicture.x)
    /\ target.body = SubSeq(RightFile.body, 1, Len(target.body))
=============================================================================
