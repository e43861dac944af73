----------------------- MODULE ImageTransformerProofs -----------------------
(***************************************************************************)
(* For images of every size: the rotations move pixels within the new      *)
(* image and undo each other, and the padding completes a row.  For every  *)
(* file and every run of the transformer: rows stay inside their buffer,   *)
(* what is read is what the file shows, what is written is that picture    *)
(* turned, and every way out of main gives back what was taken.            *)
(***************************************************************************)
EXTENDS RotationTest, TLAPS

Sizes == [x : Nat, y : Nat]

-----------------------------------------------------------------------------
(* Coordinates *)

LEMMA RowInside ==
  ASSUME NEW w \in Nat, NEW h \in Nat, NEW r \in 0 .. h - 1
  PROVE  r * w \in Nat /\ r * w + w <= w * h
<1>1. (h - 1 - r) * w \in Nat
  OBVIOUS
<1>2. (h - 1 - r) * w = h * w - w - r * w
  OBVIOUS
<1> QED
  BY <1>1, <1>2

\* get_padding makes the bytes of a row a multiple of four, with the fewest bytes:
\* it is the padding of the format.
THEOREM PaddingCompletesRow ==
  \A w \in Nat : /\ get_padding(w) \in 0 .. 3
                 /\ (3 * w + get_padding(w)) % 4 = 0
                 /\ RowPadding(w) = get_padding(w)
<1> SUFFICES ASSUME NEW w \in Nat
             PROVE  /\ get_padding(w) \in 0 .. 3
                    /\ (3 * w + get_padding(w)) % 4 = 0
                    /\ RowPadding(w) = get_padding(w)
  OBVIOUS
<1>1. get_padding(w) \in 0 .. 3 /\ (3 * w + get_padding(w)) % 4 = 0
  BY DEF get_padding, PIXEL
<1>2. \A p, q \in 0 .. 3 : (3 * w + p) % 4 = 0 /\ (3 * w + q) % 4 = 0 => p = q
  OBVIOUS
<1> QED
  BY <1>1, <1>2 DEF RowPadding

\* Every position of an image has an index in its buffer.
THEOREM PixelsHaveIndices ==
  \A s \in Sizes : \A p \in Positions(s) : image_pixel_at(s, p) \in Indices(s)
<1> SUFFICES ASSUME NEW s \in Sizes, NEW p \in Positions(s)
             PROVE  image_pixel_at(s, p) \in Indices(s)
  OBVIOUS
<1>1. s.x \in Nat /\ s.y \in Nat /\ p[1] \in 0 .. s.x - 1 /\ p[2] \in 0 .. s.y - 1
  BY DEF Sizes, Positions
<1>2. p[2] * s.x \in Nat /\ p[2] * s.x + s.x <= s.x * s.y
  BY <1>1, RowInside
<1>3. s.x * s.y \in Nat
  BY <1>1
<1> QED
  BY <1>1, <1>2, <1>3 DEF image_pixel_at, Indices

\* Two positions of an image never share an index.
LEMMA IndicesDiffer ==
  ASSUME NEW s \in Sizes, NEW p \in Positions(s), NEW q \in Positions(s),
         image_pixel_at(s, p) = image_pixel_at(s, q)
  PROVE  p = q
<1>1. /\ s.x \in Nat /\ s.y \in Nat
      /\ p[1] \in 0 .. s.x - 1 /\ p[2] \in 0 .. s.y - 1 /\ p = <<p[1], p[2]>>
      /\ q[1] \in 0 .. s.x - 1 /\ q[2] \in 0 .. s.y - 1 /\ q = <<q[1], q[2]>>
  BY DEF Sizes, Positions
<1>2. p[2] * s.x \in Nat /\ q[2] * s.x \in Nat /\ p[2] * s.x + p[1] = q[2] * s.x + q[1]
  BY <1>1 DEF image_pixel_at
<1>3. CASE p[2] < q[2]
  <2>1. p[2] * s.x + s.x <= s.x * q[2]
    BY <1>1, <1>3, RowInside
  <2>2. s.x * q[2] = q[2] * s.x
    BY <1>1
  <2> QED
    BY <1>1, <1>2, <2>1, <2>2
<1>4. CASE q[2] < p[2]
  <2>1. q[2] * s.x + s.x <= s.x * p[2]
    BY <1>1, <1>4, RowInside
  <2>2. s.x * p[2] = p[2] * s.x
    BY <1>1
  <2> QED
    BY <1>1, <1>2, <2>1, <2>2
<1>5. CASE p[2] = q[2]
  BY <1>1, <1>2, <1>5
<1> QED
  BY <1>1, <1>3, <1>4, <1>5

\* Whatever the angle, image_rotate moves a pixel to a position of the new image.
THEOREM RotationsStayInside ==
  \A a \in Int : \A s \in Sizes : \A p \in Positions(s) :
    image_rotate(a, s, p) \in Positions(rotated_size(a, s))
<1> SUFFICES ASSUME NEW a \in Int, NEW s \in Sizes, NEW p \in Positions(s)
             PROVE  image_rotate(a, s, p) \in Positions(rotated_size(a, s))
  OBVIOUS
<1>1. s.x \in Nat /\ s.y \in Nat /\ p[1] \in 0 .. s.x - 1 /\ p[2] \in 0 .. s.y - 1
  BY DEF Sizes, Positions
<1>2. CASE a \in {90, -270}
  BY <1>1, <1>2 DEF image_rotate, rotated_size, rotate_90, Positions, dimensions_reverse
<1>3. CASE a \in {180, -180}
  BY <1>1, <1>3 DEF image_rotate, rotated_size, rotate_180, Positions, dimensions_reverse
<1>4. CASE a \in {270, -90}
  BY <1>1, <1>4 DEF image_rotate, rotated_size, rotate_270, Positions, dimensions_reverse
<1>5. CASE a \notin {90, -270, 180, -180, 270, -90}
  BY <1>5 DEF image_rotate, rotated_size
<1> QED
  BY <1>2, <1>3, <1>4, <1>5

\* Turning an image by an angle and then by the opposite angle puts every pixel back:
\* no two pixels are moved to the same place, and 270 is the opposite of 90.
THEOREM RotationsUndo ==
  \A a \in AllowedAngles : \A s \in Sizes : \A p \in Positions(s) :
    image_rotate(-a, rotated_size(a, s), image_rotate(a, s, p)) = p
<1> SUFFICES ASSUME NEW a \in AllowedAngles, NEW s \in Sizes, NEW p \in Positions(s)
             PROVE  image_rotate(-a, rotated_size(a, s), image_rotate(a, s, p)) = p
  OBVIOUS
<1>1. /\ s.x \in Nat /\ s.y \in Nat /\ p[1] \in Int /\ p[2] \in Int
      /\ p = <<p[1], p[2]>>
  BY DEF Sizes, Positions
<1>2. CASE a \in {90, -270}
  <2>1. -a \in {270, -90}
    BY <1>2
  <2>2. image_rotate(a, s, p) = <<s.y - 1 - p[2], p[1]>>
    BY <1>2 DEF image_rotate, rotate_90
  <2>3. rotated_size(a, s) = [x |-> s.y, y |-> s.x]
    BY <1>2 DEF rotated_size, dimensions_reverse
  <2> QED
    BY <1>1, <2>1, <2>2, <2>3 DEF image_rotate, rotate_270
<1>3. CASE a \in {180, -180}
  <2>1. -a \in {180, -180}
    BY <1>3
  <2> QED
    BY <1>1, <1>3, <2>1 DEF image_rotate, rotated_size, rotate_180
<1>4. CASE a \in {270, -90}
  <2>1. -a \in {90, -270}
    BY <1>4
  <2>2. image_rotate(a, s, p) = <<p[2], s.x - 1 - p[1]>>
    BY <1>4 DEF image_rotate, rotate_270
  <2>3. rotated_size(a, s) = [x |-> s.y, y |-> s.x]
    BY <1>4 DEF rotated_size, dimensions_reverse
  <2> QED
    BY <1>1, <2>1, <2>2, <2>3 DEF image_rotate, rotate_90
<1>5. CASE a = 0
  <2>1. -a \notin {90, -270, 180, -180, 270, -90}
    <3>1. a \in Int
      BY DEF AllowedAngles
    <3> QED
      BY <1>5, <3>1
  <2> QED
    BY <1>5, <2>1 DEF image_rotate, rotated_size
<1> QED
  BY <1>2, <1>3, <1>4, <1>5 DEF AllowedAngles

\* The loops of a rotation copy every pixel of the image to its place, and no later
\* assignment replaces it.
THEOREM EveryPixelArrives ==
  \A a \in AllowedAngles : \A s \in Sizes : \A p \in Positions(s) : \A data :
    RotatedData(a, s, data)[image_pixel_at(rotated_size(a, s), image_rotate(a, s, p))]
      = data[image_pixel_at(s, p)]
<1> SUFFICES ASSUME NEW a \in AllowedAngles, NEW s \in Sizes, NEW p \in Positions(s),
                    NEW data
             PROVE  RotatedData(a, s, data)
                      [image_pixel_at(rotated_size(a, s), image_rotate(a, s, p))]
                      = data[image_pixel_at(s, p)]
  OBVIOUS
<1> DEFINE t == rotated_size(a, s)
           Place(q) == image_rotate(a, s, q)
           i == image_pixel_at(t, Place(p))
           P == {q \in Positions(s) : image_pixel_at(t, Place(q)) = i}
<1>1. a \in Int /\ t \in Sizes
  BY DEF AllowedAngles, rotated_size, dimensions_reverse, Sizes
<1>2. \A q \in Positions(s) : Place(q) \in Positions(t)
  BY <1>1, RotationsStayInside
<1>3. i \in Indices(t)
  BY <1>1, <1>2, PixelsHaveIndices
<1>4. ASSUME NEW q \in P
      PROVE  q = p
  <2>1. Place(q) = Place(p)
    BY <1>1, <1>2, IndicesDiffer
  <2> QED
    BY <2>1, RotationsUndo
<1>5. p \in P /\ P # {} /\ \A q \in P : q = p
  BY <1>4
<1>6. \A q \in P : image_pixel_at(s, q) <= image_pixel_at(s, p)
  <2>1. image_pixel_at(s, p) \in Int
    BY PixelsHaveIndices DEF Indices
  <2> QED
    BY <1>5, <2>1
<1>7. (CHOOSE r \in P : \A q \in P : image_pixel_at(s, q) <= image_pixel_at(s, r)) = p
  <2> HIDE DEF P
  <2> QED
    BY <1>5, <1>6
<1>8. RotatedData(a, s, data)[i] =
        IF P = {} THEN Garbage
        ELSE data[image_pixel_at(s,
               CHOOSE r \in P : \A q \in P : image_pixel_at(s, q) <= image_pixel_at(s, r))]
  BY <1>3 DEF RotatedData
<1> QED
  BY <1>5, <1>7, <1>8
-----------------------------------------------------------------------------
(* Runs of the transformer *)

\* The buffers main and from_bmp have to give back, by the place they are at.
BuffersHeld ==
  /\ pc \in {"arguments", "open_source", "read_header", "skip", "create_source", "exit"} =>
       DOMAIN heap = {}
  /\ pc \in {"read_row", "read_padding", "rotate"} => DOMAIN heap = {"source"}
  /\ pc = "close_source" =>
       DOMAIN heap = IF ioStatus = "READ_OK" THEN {"source"} ELSE {}
  /\ pc \in {"open_target", "write_header", "write_row", "write_padding", "close_target"} =>
       DOMAIN heap = {"source", "rotated"}

\* The streams main has to close.
StreamsHeld ==
  /\ pc \in {"arguments", "open_source", "rotate", "open_target", "exit"} => streams = {}
  /\ pc \in {"read_header", "skip", "create_source", "read_row", "read_padding",
             "close_source"} => streams = {"source"}
  /\ pc \in {"write_header", "write_row", "write_padding", "close_target"} =>
       streams = {"target"}

\* While rows are read, the image is as large as malloc was asked for, and the
\* loop is before its end.
ReadingState ==
  pc \in {"read_row", "read_padding"} =>
    /\ source.size.x \in Nat \ {0}
    /\ source.size.y \in Nat \ {0}
    /\ row \in 0 .. source.size.y - 1
    /\ DOMAIN heap["source"] = Indices(source.size)

\* The header that was read is of a file that may be there, and has been checked.
HeaderRead ==
  /\ file \in SourceFiles
  /\ pc \in {"skip", "create_source"} => file.biWidth > 0 /\ file.biHeight # 0

IInv == BuffersHeld /\ StreamsHeld /\ ReadingState /\ HeaderRead

LEMMA InitInv == Init => IInv
BY DEF Init, IInv, BuffersHeld, StreamsHeld, ReadingState, HeaderRead, NoBuffers

\* Whatever a build makes of the least int, from_bmp works with a positive height.
LEMMA HeightsArePositive ==
  ASSUME NEW f \in SourceFiles, f.biHeight # 0, NEW h \in HeightsOf(f.biHeight)
  PROVE  h \in Nat \ {0}
<1>1. f.biHeight \in Int /\ f.biHeight >= -(INT_MOD \div 2)
  BY InputAssumption DEF FileType
<1>2. INT_MOD \div 2 \in Nat \ {0} /\ INT_MOD \in Nat /\ INT_MOD \div 2 < INT_MOD
  BY WidthAssumption
<1>3. LONG_MOD - (INT_MOD \div 2) \in Nat \ {0}
  <2>1. INT_MOD * INT_MOD \in Nat /\ INT_MOD * INT_MOD >= INT_MOD
    BY WidthAssumption
  <2> QED
    BY <1>2, <2>1, WidthAssumption
<1> QED
  BY <1>1, <1>2, <1>3 DEF HeightsOf

\* image_create for the source: a buffer for every pixel, and the loop at row 0.
LEMMA CreateSourceKeeps == IInv /\ CreateSource => IInv'
<1> SUFFICES ASSUME IInv, CreateSource PROVE IInv'
  OBVIOUS
<1>1. /\ pc = "create_source" /\ pc' = "read_row" /\ row' = 0
      /\ UNCHANGED <<file, streams>>
  BY DEF CreateSource, inputs
<1>2. PICK height \in HeightsOf(file.biHeight) :
        /\ source' = [size |-> [x |-> file.biWidth, y |-> height], data |-> TRUE]
        /\ heap' = [b \in {"source"} |->
                      [k \in Indices([x |-> file.biWidth, y |-> height]) |-> Garbage]]
  BY DEF CreateSource
<1>3. file.biWidth \in Nat \ {0} /\ height \in Nat \ {0}
  BY <1>1, HeightsArePositive, InputAssumption DEF IInv, HeaderRead, FileType
<1>4. /\ source'.size.x \in Nat \ {0} /\ source'.size.y \in Nat \ {0}
      /\ row' \in 0 .. source'.size.y - 1
      /\ source'.size = [x |-> file.biWidth, y |-> height]
  BY <1>1, <1>2, <1>3
<1>5. DOMAIN heap' = {"source"} /\ DOMAIN heap'["source"] = Indices(source.size)'
  BY <1>2, <1>4 DEF Indices
<1> QED
  BY <1>1, <1>4, <1>5 DEF IInv, BuffersHeld, StreamsHeld, ReadingState, HeaderRead

\* NextRow, and what it leaves alone: one more row, or the end with status READ_OK.
LEMMA NextRowKeeps ==
  ASSUME IInv, pc \in {"read_row", "read_padding"}, NextRow,
         UNCHANGED <<file, streams, source>>,
         DOMAIN heap' = {"source"}, DOMAIN heap'["source"] = DOMAIN heap["source"]
  PROVE  IInv'
<1>1. /\ source.size.x \in Nat \ {0} /\ source.size.y \in Nat \ {0}
      /\ row \in 0 .. source.size.y - 1 /\ DOMAIN heap["source"] = Indices(source.size)
  BY DEF IInv, ReadingState
<1>2. CASE row + 1 < source.size.y
  <2>1. row' = row + 1 /\ pc' = "read_row" /\ row' \in 0 .. source.size.y - 1
    BY <1>1, <1>2 DEF NextRow
  <2> QED
    BY <1>1, <2>1 DEF IInv, BuffersHeld, StreamsHeld, ReadingState, HeaderRead, Indices
<1>3. CASE ~(row + 1 < source.size.y)
  <2>1. pc' = "close_source" /\ ioStatus' = "READ_OK"
    BY <1>3 DEF NextRow, ReadReturns
  <2> QED
    BY <2>1 DEF IInv, BuffersHeld, StreamsHeld, ReadingState, HeaderRead
<1> QED
  BY <1>2, <1>3

LEMMA ReadRowKeeps == IInv /\ ReadRow => IInv'
<1> SUFFICES ASSUME IInv, ReadRow PROVE IInv'
  OBVIOUS
<1>1. pc = "read_row" /\ DOMAIN heap = {"source"} /\ UNCHANGED <<file, streams, source>>
  BY DEF IInv, BuffersHeld, ReadRow, inputs
<1>2. DOMAIN heap' = {"source"} /\ DOMAIN heap'["source"] = DOMAIN heap["source"]
  BY <1>1 DEF ReadRow
<1>3. CASE NextRow
  BY <1>1, <1>2, <1>3, NextRowKeeps
<1>4. CASE pc' = "read_padding" /\ UNCHANGED <<row, ioStatus>>
  BY <1>1, <1>2, <1>4
     DEF IInv, BuffersHeld, StreamsHeld, ReadingState, HeaderRead, Indices
<1> QED
  BY <1>3, <1>4 DEF ReadRow

LEMMA ReadPaddingKeeps == IInv /\ ReadPadding => IInv'
<1> SUFFICES ASSUME IInv, ReadPadding PROVE IInv'
  OBVIOUS
<1>1. /\ pc = "read_padding" /\ DOMAIN heap = {"source"}
      /\ UNCHANGED <<file, streams, source, heap>>
  BY DEF IInv, BuffersHeld, ReadPadding, inputs, images
<1> QED
  BY <1>1, NextRowKeeps DEF ReadPadding

\* The other steps until from_bmp returns.
LEMMA ReadingKeeps ==
  ASSUME IInv,
         \/ AcceptArguments \/ RejectArguments \/ OpenSource \/ OpenSourceFails
         \/ ReadHeader \/ ReadHeaderFails \/ SkipToPixelArray \/ SkipFails
         \/ CreateSourceFails \/ ReadBodyFails
  PROVE  IInv'
<1> USE DEF IInv, BuffersHeld, StreamsHeld, ReadingState, HeaderRead, inputs, images
<1>1. CASE AcceptArguments
  BY <1>1 DEF AcceptArguments
<1>2. CASE RejectArguments
  BY <1>2 DEF RejectArguments, Exit
<1>3. CASE OpenSource
  BY <1>3 DEF OpenSource
<1>4. CASE OpenSourceFails
  BY <1>4 DEF OpenSourceFails, Exit
<1>5. CASE ReadHeader
  BY <1>5 DEF ReadHeader, ReadReturns, HeaderStatus, header_is_valid
<1>6. CASE ReadHeaderFails
  BY <1>6 DEF ReadHeaderFails, ReadReturns
<1>7. CASE SkipToPixelArray
  BY <1>7 DEF SkipToPixelArray
<1>8. CASE SkipFails
  BY <1>8 DEF SkipFails, ReadReturns
<1>9. CASE CreateSourceFails
  BY <1>9 DEF CreateSourceFails, ReadReturns
<1>10. CASE ReadBodyFails
  BY <1>10 DEF ReadBodyFails, ReadReturns, Free
<1> QED
  BY <1>1, <1>2, <1>3, <1>4, <1>5, <1>6, <1>7, <1>8, <1>9, <1>10

\* The steps of main behind from_bmp, and to_bmp.
LEMMA WritingKeeps ==
  ASSUME IInv,
         \/ CloseSource \/ Rotate \/ RotateFails \/ OpenTarget
         \/ OpenTargetFails \/ WriteHeader \/ WriteRow \/ WritePadding
         \/ WriteFails \/ CloseTarget \/ CloseTargetLoses
  PROVE  IInv'
<1> USE DEF IInv, BuffersHeld, StreamsHeld, ReadingState, HeaderRead, inputs, images
<1>1. CASE CloseSource
  BY <1>1 DEF CloseSource, Exit
<1>2. CASE Rotate
  BY <1>2 DEF Rotate
<1>3. CASE RotateFails
  BY <1>3 DEF RotateFails, Exit, Free
<1>4. CASE OpenTarget
  BY <1>4 DEF OpenTarget
<1>5. CASE OpenTargetFails
  BY <1>5 DEF OpenTargetFails, Exit, DestroyBoth, Free
<1>6. CASE WriteHeader
  BY <1>6 DEF WriteHeader
<1>7. CASE WriteRow
  BY <1>7 DEF WriteRow, NextRowWritten, WriteReturns
<1>8. CASE WritePadding
  BY <1>8 DEF WritePadding, NextRowWritten, WriteReturns
<1>9. CASE WriteFails
  BY <1>9 DEF WriteFails, WriteReturns
<1>10. CASE CloseTarget
  BY <1>10 DEF CloseTarget, Finish, DestroyBoth, Free, Exit
<1>11. CASE CloseTargetLoses
  BY <1>11 DEF CloseTargetLoses, Finish, DestroyBoth, Free, Exit
<1> QED
  BY <1>1, <1>2, <1>3, <1>4, <1>5, <1>6, <1>7, <1>8, <1>9, <1>10, <1>11

\* The invariant: at every place main and from_bmp hold exactly the buffers and
\* streams that the code behind it gives back, and rows are read into a buffer with
\* room for all of them.
THEOREM TakenIsGivenBack == Spec => []IInv
<1>1. Init => IInv
  BY InitInv
<1>2. IInv /\ [Next]_vars => IInv'
  <2> SUFFICES ASSUME IInv, [Next]_vars PROVE IInv'
    OBVIOUS
  <2>1. CASE Step
    BY <2>1, ReadingKeeps, WritingKeeps, CreateSourceKeeps, ReadRowKeeps, ReadPaddingKeeps
       DEF Step
  <2>2. CASE Exited \/ UNCHANGED vars
    BY <2>2 DEF Exited, vars, inputs, images, IInv, BuffersHeld, StreamsHeld, ReadingState,
                HeaderRead, Indices
  <2> QED
    BY <2>1, <2>2 DEF Next
<1> QED
  BY <1>1, <1>2, PTL DEF Spec

\* On every way out of main all buffers are freed and all streams closed.
THEOREM ExitGivesAllBack == Spec => []ExitReleasesAll
<1>1. IInv => ExitReleasesAll
  BY DEF IInv, BuffersHeld, StreamsHeld, ExitReleasesAll
<1> QED
  BY <1>1, TakenIsGivenBack, PTL

\* from_bmp puts every row inside the buffer malloc gave it: for every width and
\* height, in both orders of rows, whatever becomes of the least int.
THEOREM RowsStayInside == Spec => []RowsFitTheBuffer
<1>1. IInv => RowsFitTheBuffer
  <2> SUFFICES ASSUME IInv, pc = "read_row" PROVE
        LET first == TargetRow(file.biHeight, source.size.y, row) * source.size.x
        IN  first .. first + source.size.x - 1 \subseteq DOMAIN heap["source"]
    BY DEF RowsFitTheBuffer
  <2> DEFINE r == TargetRow(file.biHeight, source.size.y, row)
             w == source.size.x
             h == source.size.y
  <2>1. /\ w \in Nat \ {0} /\ h \in Nat \ {0} /\ row \in 0 .. h - 1
        /\ DOMAIN heap["source"] = 0 .. w * h - 1
    BY DEF IInv, ReadingState, Indices
  <2>2. r \in 0 .. h - 1
    BY <2>1 DEF TargetRow
  <2> HIDE DEF r, w, h
  <2>3. r * w \in Nat /\ r * w + w <= w * h /\ w * h \in Nat
    BY <2>1, <2>2, RowInside
  <2>4. (r * w) .. (r * w) + w - 1 \subseteq 0 .. w * h - 1
    BY <2>1, <2>3
  <2> QED
    BY <2>1, <2>4 DEF r, w
<1> QED
  BY <1>1, TakenIsGivenBack, PTL

-----------------------------------------------------------------------------
(* What from_bmp has read *)

SourceRows == IF file.biHeight > 0 THEN file.biHeight ELSE -file.biHeight
RowBytes == 3 * file.biWidth + get_padding(file.biWidth)

\* Where row r of the file begins.
RowStart(r) == file.bOffBits + r * RowBytes

\* The first n rows of the file are in the buffer, each at its place.
RowsRead(n) ==
  \A r \in 0 .. n - 1 : \A k \in 0 .. file.biWidth - 1 :
    heap["source"][TargetRow(file.biHeight, SourceRows, r) * file.biWidth + k]
      = RowStart(r) + 3 * k

Reading == pc \in {"read_row", "read_padding"}
AllRead == pc = "rotate" \/ (pc = "close_source" /\ ioStatus = "READ_OK")

\* The image has the size the header says.
SizeRead ==
  /\ file.biWidth \in Nat \ {0}
  /\ SourceRows \in Nat \ {0}
  /\ source.size = [x |-> file.biWidth, y |-> SourceRows]

\* The position in the file tells the rows that are in the buffer, and no byte
\* behind the end of the file has been read.
FileRead ==
  /\ pc = "create_source" => pos = file.bOffBits
  /\ Reading \/ AllRead => SizeRead
  /\ pc = "read_row" => /\ pos = RowStart(row) /\ (row > 0 => pos <= file.length)
                        /\ RowsRead(row)
  /\ pc = "read_padding" => /\ pos = RowStart(row) + 3 * file.biWidth /\ pos <= file.length
                            /\ RowsRead(row + 1)
  /\ AllRead => RowsRead(SourceRows)
  /\ AllRead \/ pc = "open_target" => /\ pos = RowStart(SourceRows) /\ pos <= file.length
                                      /\ file.biWidth \in Nat \ {0}

\* A buffer of LONG_MOD - INT_MOD \div 2 rows is more than malloc can meet, so only
\* one of the heights a build may make of the least int gets past image_create.
LEMMA ModBelow ==
  ASSUME NEW a \in Nat \ {0}, NEW l \in Nat \ {0}, NEW b \in 1 .. l
  PROVE  (a * l - b) % l = l - b
<1> DEFINE x == a * l - b
           q == x \div l
           m == x % l
<1>1. x = (a - 1) * l + (l - b) /\ l - b \in 0 .. l - 1 /\ a - 1 \in Nat
  OBVIOUS
<1>2. (a - 1) * l \in Nat
  BY <1>1
<1>3. x \in Nat
  BY <1>1, <1>2
<1> HIDE DEF x
<1>4. q \in Nat /\ m \in 0 .. l - 1 /\ x = l * q + m
  BY <1>3
<1> HIDE DEF q, m
<1>5. (q - (a - 1)) * l = (l - b) - m
  BY <1>1, <1>4
<1>6. q - (a - 1) = 0
  <2>1. CASE q - (a - 1) >= 1
    <3>1. (q - (a - 1)) * l >= l
      BY <1>1, <1>4, <2>1
    <3> QED
      BY <1>1, <1>4, <1>5, <3>1
  <2>2. CASE q - (a - 1) <= -1
    <3>1. (q - (a - 1)) * l <= -l
      BY <1>1, <1>4, <2>2
    <3> QED
      BY <1>1, <1>4, <1>5, <3>1
  <2> QED
    BY <1>1, <1>4, <2>1, <2>2
<1>7. m = l - b
  BY <1>1, <1>4, <1>5, <1>6
<1> QED
  BY <1>7 DEF m, x

\* The fields of a header are ints.
LEMMA FieldsAreInts ==
  ASSUME NEW f \in SourceFiles
  PROVE  /\ f.biWidth \in Int /\ f.biWidth < INT_MOD \div 2
         /\ f.biHeight \in Int /\ f.biHeight < INT_MOD \div 2
         /\ f.biHeight >= -(INT_MOD \div 2)
<1> DEFINE half == INT_MOD \div 2
<1>1. half \in Nat
  BY WidthAssumption
<1> HIDE DEF half
<1>2. f.biWidth \in -half .. half - 1 /\ f.biHeight \in -half .. half - 1
  BY InputAssumption DEF half
<1>3. /\ f.biWidth \in Int /\ f.biWidth < half
      /\ f.biHeight \in Int /\ f.biHeight < half /\ f.biHeight >= -half
  BY <1>1, <1>2
<1> QED
  BY <1>3 DEF half

LEMMA HeightIsRows ==
  ASSUME file \in SourceFiles, file.biWidth > 0, file.biHeight # 0,
         NEW height \in HeightsOf(file.biHeight),
         BytesOf([x |-> file.biWidth, y |-> height]) <= MaxAlloc
  PROVE  height = SourceRows /\ SourceRows \in Nat \ {0} /\ file.biWidth \in Nat \ {0}
<1> DEFINE half == INT_MOD \div 2
           w == file.biWidth
<1>1. /\ file.biHeight \in Int /\ file.biHeight >= -half
      /\ w \in Nat \ {0} /\ w < half
  BY FieldsAreInts
<1>2. half \in Nat \ {0} /\ INT_MOD = 2 * half
  BY WidthAssumption
<1>3. LONG_MOD = 4 * (half * half) /\ half * half \in Nat \ {0}
  <2>1. LONG_MOD = (2 * half) * (2 * half)
    BY <1>2, WidthAssumption
  <2> HIDE DEF half
  <2> QED
    BY <1>2, <2>1
<1> HIDE DEF half, w
<1>4. SourceRows \in Nat \ {0}
  BY <1>1 DEF SourceRows
<1>5. CASE file.biHeight # -half
  BY <1>1, <1>4, <1>5 DEF HeightsOf, SourceRows, half, w
<1>6. CASE file.biHeight = -half
  <2>1. height \in {half, LONG_MOD - half} /\ SourceRows = half
    BY <1>2, <1>6 DEF HeightsOf, SourceRows, half
  <2>2. height # LONG_MOD - half
    <3> SUFFICES ASSUME height = LONG_MOD - half PROVE FALSE
      OBVIOUS
    <3> DEFINE b == 3 * (w * half)
    <3>1. w * half \in Nat \ {0} /\ w * half <= half * half
      BY <1>1, <1>2
    <3>2. b \in 1 .. LONG_MOD /\ b <= 3 * (half * half)
      BY <1>3, <3>1
    <3>3. w * height * 3 = (3 * w) * LONG_MOD - b
      BY <1>1, <1>2, <1>3
    <3>4. 3 * w \in Nat \ {0} /\ LONG_MOD \in Nat \ {0}
      BY <1>1, <1>3
    <3> HIDE DEF b
    <3>5. BytesOf([x |-> w, y |-> height]) = LONG_MOD - b
      BY <3>2, <3>3, <3>4, ModBelow DEF BytesOf, PIXEL
    <3>6. LONG_MOD - b <= MaxAlloc
      BY <3>5 DEF w
    <3>7. LONG_MOD \div 4 = half * half
      BY <1>3
    <3> QED
      BY <1>3, <3>2, <3>6, <3>7, MemoryAssumption
  <2> QED
    BY <1>1, <1>4, <2>1, <2>2 DEF w
<1> QED
  BY <1>5, <1>6

\* Rows go to different places of the buffer, and do not overlap there.
LEMMA RowsHavePlaces ==
  ASSUME NEW h \in Int, NEW n \in Nat, NEW r \in 0 .. n - 1
  PROVE  /\ TargetRow(h, n, r) \in 0 .. n - 1
         /\ \A q \in 0 .. n - 1 : q # r => TargetRow(h, n, q) # TargetRow(h, n, r)
BY DEF TargetRow

LEMMA RowsApart ==
  ASSUME NEW w \in Nat, NEW a \in Nat, NEW b \in Nat, a # b, NEW k \in 0 .. w - 1
  PROVE  a * w \in Nat /\ b * w \in Nat /\ b * w + k \notin a * w .. a * w + w - 1
<1>1. a * w \in Nat /\ b * w \in Nat
  OBVIOUS
<1>2. CASE a < b
  <2>1. (b - a - 1) * w \in Nat
    BY <1>2
  <2>2. (b - a - 1) * w = b * w - a * w - w
    OBVIOUS
  <2> QED
    BY <1>1, <2>1, <2>2
<1>3. CASE b < a
  <2>1. (a - b - 1) * w \in Nat
    BY <1>3
  <2>2. (a - b - 1) * w = a * w - b * w - w
    OBVIOUS
  <2> QED
    BY <1>1, <2>1, <2>2
<1> QED
  BY <1>2, <1>3

LEMMA NextRowStart ==
  ASSUME NEW off \in Int, NEW n \in Int, NEW b \in Int
  PROVE  off + (n + 1) * b = off + n * b + b /\ off + 0 * b = off
OBVIOUS

LEMMA SizeFacts ==
  ASSUME file \in SourceFiles, SizeRead
  PROVE  /\ file.biWidth \in Nat \ {0} /\ SourceRows \in Nat \ {0}
         /\ source.size.x = file.biWidth /\ source.size.y = SourceRows
         /\ get_padding(file.biWidth) \in 0 .. 3
         /\ RowBytes \in Nat /\ file.bOffBits \in Nat /\ file.length \in Nat
         /\ file.biHeight \in Int
<1>1. file.bOffBits \in Nat /\ file.length \in Nat /\ file.biHeight \in Int
  BY InputAssumption DEF FileType
<1>2. file.biWidth \in Nat \ {0} /\ get_padding(file.biWidth) \in 0 .. 3
  BY PaddingCompletesRow DEF SizeRead
<1> QED
  BY <1>1, <1>2 DEF SizeRead, RowBytes

\* One more row is in the buffer: the next is due, or all are there.
LEMMA NextRowReads ==
  ASSUME file \in SourceFiles, SizeRead, row \in 0 .. SourceRows - 1, NextRow,
         UNCHANGED <<file, source>>,
         NEW n \in Nat, n = row + 1,
         pos' = RowStart(n), pos' <= file.length, RowsRead(n)'
  PROVE  FileRead'
<1>1. /\ file.biWidth \in Nat \ {0} /\ SourceRows \in Nat \ {0}
      /\ source.size.y = SourceRows
  BY SizeFacts
<1>2. SizeRead' /\ SourceRows' = SourceRows /\ RowStart(n)' = RowStart(n) /\ row' = n
  BY DEF SizeRead, SourceRows, RowStart, RowBytes, NextRow
<1>3. CASE n < SourceRows
  <2>1. pc' = "read_row"
    BY <1>1, <1>3 DEF NextRow
  <2>2. RowsRead(row)' /\ RowStart(row)' = RowStart(n)'
    BY <1>2 DEF RowsRead, RowStart
  <2> QED
    BY <1>2, <2>1, <2>2 DEF FileRead, Reading, AllRead
<1>4. CASE ~(n < SourceRows)
  <2>1. pc' = "close_source" /\ ioStatus' = "READ_OK" /\ n = SourceRows
    BY <1>1, <1>4 DEF NextRow, ReadReturns
  <2>2. RowsRead(SourceRows)' /\ RowStart(SourceRows)' = RowStart(n)'
    BY <1>2, <2>1 DEF RowsRead, RowStart
  <2> QED
    BY <1>1, <1>2, <2>1, <2>2 DEF FileRead, Reading, AllRead
<1> QED
  BY <1>3, <1>4

LEMMA CreateSourceReads == IInv /\ FileRead /\ CreateSource => FileRead'
<1> SUFFICES ASSUME IInv, FileRead, CreateSource PROVE FileRead'
  OBVIOUS
<1>1. /\ pc = "create_source" /\ pc' = "read_row" /\ row' = 0
      /\ file' = file /\ pos' = pos /\ pos = file.bOffBits
  BY DEF CreateSource, inputs, FileRead
<1>2. file \in SourceFiles /\ file.biWidth > 0 /\ file.biHeight # 0
  BY <1>1 DEF IInv, HeaderRead
<1>3. PICK height \in HeightsOf(file.biHeight) :
        /\ BytesOf([x |-> file.biWidth, y |-> height]) <= MaxAlloc
        /\ source' = [size |-> [x |-> file.biWidth, y |-> height], data |-> TRUE]
  BY DEF CreateSource
<1>4. height = SourceRows /\ SourceRows \in Nat \ {0} /\ file.biWidth \in Nat \ {0}
  BY <1>2, <1>3, HeightIsRows
<1>5. SourceRows' = SourceRows /\ SizeRead'
  BY <1>1, <1>3, <1>4 DEF SizeRead, SourceRows
<1>6. RowsRead(row)'
  BY <1>1 DEF RowsRead
<1>7. RowStart(row)' = pos'
  <2>1. RowBytes' = RowBytes /\ RowBytes \in Int /\ file.bOffBits \in Int
    BY <1>1, <1>2, <1>4, PaddingCompletesRow, InputAssumption DEF RowBytes, FileType
  <2>2. file.bOffBits + 0 * RowBytes = file.bOffBits
    BY <2>1, NextRowStart
  <2> QED
    BY <1>1, <2>1, <2>2 DEF RowStart
<1> QED
  BY <1>1, <1>5, <1>6, <1>7 DEF FileRead, Reading, AllRead

\* fread stores the row the position stands at, and leaves the rows before it alone.
LEMMA ReadRowReads == IInv /\ FileRead /\ ReadRow => FileRead'
<1> SUFFICES ASSUME IInv, FileRead, ReadRow PROVE FileRead'
  OBVIOUS
<1> DEFINE w == file.biWidth
           At(r) == TargetRow(file.biHeight, SourceRows, r)
           first == At(row) * w
<1>1. /\ pc = "read_row" /\ SizeRead /\ file \in SourceFiles
      /\ pos = RowStart(row) /\ RowsRead(row)
      /\ file' = file /\ source' = source
      /\ DOMAIN heap = {"source"} /\ row \in 0 .. source.size.y - 1
      /\ DOMAIN heap["source"] = Indices(source.size)
  BY DEF ReadRow, FileRead, Reading, IInv, HeaderRead, BuffersHeld, ReadingState, inputs
<1>2. /\ w \in Nat \ {0} /\ SourceRows \in Nat \ {0}
      /\ source.size.x = w /\ source.size.y = SourceRows
      /\ get_padding(w) \in 0 .. 3
      /\ RowBytes \in Nat /\ file.bOffBits \in Nat /\ file.length \in Nat
      /\ file.biHeight \in Int
  BY <1>1, SizeFacts
<1>3. /\ pos' = pos + 3 * w /\ pos' <= file.length
      /\ heap'["source"] = [i \in DOMAIN heap["source"] |->
                              IF i \in first .. first + w - 1
                              THEN pos + 3 * (i - first) ELSE heap["source"][i]]
  BY <1>1, <1>2 DEF ReadRow, PIXEL
<1>4. row \in 0 .. SourceRows - 1 /\ SourceRows' = SourceRows
  BY <1>1, <1>2 DEF SourceRows
<1>5. DOMAIN heap["source"] = 0 .. w * SourceRows - 1
  BY <1>1, <1>2 DEF Indices
<1>6. \A r \in 0 .. SourceRows - 1 : RowStart(r)' = RowStart(r) /\ RowStart(r) \in Int
  <2>1. \A r \in Int : r * RowBytes \in Int
    BY <1>2
  <2> QED
    BY <1>1, <1>2, <2>1 DEF RowStart, RowBytes
<1>7. ASSUME NEW r \in 0 .. row, NEW k \in 0 .. w - 1
      PROVE  heap'["source"][At(r) * w + k] = RowStart(r) + 3 * k
  <2>a. r \in 0 .. SourceRows - 1 /\ SourceRows \in Nat /\ file.biHeight \in Int
    BY <1>2, <1>4
  <2>b. /\ At(r) \in 0 .. SourceRows - 1 /\ At(row) \in 0 .. SourceRows - 1
        /\ r # row => At(r) # At(row)
    BY <1>4, <2>a, RowsHavePlaces
  <2>1. /\ r \in 0 .. SourceRows - 1
        /\ At(r) \in 0 .. SourceRows - 1 /\ At(row) \in 0 .. SourceRows - 1
    BY <2>a, <2>b
  <2>2. At(r) * w \in Nat /\ At(r) * w + w <= w * SourceRows /\ w * SourceRows \in Nat
    BY <1>2, <2>1, RowInside
  <2>3. At(r) * w + k \in DOMAIN heap["source"]
    BY <1>2, <1>5, <2>2
  <2>4. CASE r = row
    <3>1. At(r) * w + k \in first .. first + w - 1 /\ (At(r) * w + k) - first = k
      BY <1>2, <2>2, <2>4
    <3> HIDE DEF first, At, w
    <3> QED
      BY <1>1, <1>3, <2>3, <2>4, <3>1
  <2>5. CASE r # row
    <3>1. At(r) # At(row)
      BY <2>b, <2>5
    <3> HIDE DEF At
    <3>2. At(r) * w + k \notin first .. first + w - 1
      BY <1>2, <2>1, <3>1, RowsApart
    <3>3. r \in 0 .. row - 1
      BY <1>4, <2>5
    <3>4. heap["source"][At(r) * w + k] = RowStart(r) + 3 * k
      BY <1>1, <3>3 DEF RowsRead, At
    <3> HIDE DEF first, w
    <3> QED
      BY <1>3, <2>3, <3>2, <3>4
  <2> QED
    BY <2>4, <2>5
<1> DEFINE n == row + 1
<1>8. n \in Nat /\ \A r \in 0 .. n - 1 : r \in 0 .. row
  BY <1>4
<1>9. \A r \in 0 .. n - 1 : \A k \in 0 .. w - 1 :
        heap'["source"][At(r) * w + k] = RowStart(r)' + 3 * k
  <2> SUFFICES ASSUME NEW r \in 0 .. n - 1, NEW k \in 0 .. w - 1
               PROVE  heap'["source"][At(r) * w + k] = RowStart(r)' + 3 * k
    OBVIOUS
  <2>1. r \in 0 .. row /\ r \in 0 .. SourceRows - 1
    BY <1>2, <1>4, <1>8
  <2>2. RowStart(r)' = RowStart(r)
    BY <1>6, <2>1
  <2>3. heap'["source"][At(r) * w + k] = RowStart(r) + 3 * k
    BY <1>7, <2>1
  <2> QED
    BY <2>2, <2>3
<1>10. CASE get_padding(w) > 0
  <2>1. pc' = "read_padding" /\ row' = row
    BY <1>2, <1>10 DEF ReadRow
  <2>2. SizeRead'
    BY <1>1, <1>4 DEF SizeRead
  <2>3. RowsRead(row + 1)'
    BY <1>1, <1>4, <1>9, <2>1 DEF RowsRead
  <2>4. pos' = RowStart(row)' + 3 * w
    <3>1. RowStart(row)' = RowStart(row)
      BY <1>1, <2>1 DEF RowStart, RowBytes
    <3> QED
      BY <1>1, <1>3, <3>1
  <2> QED
    BY <1>1, <1>3, <2>1, <2>2, <2>3, <2>4 DEF FileRead, Reading, AllRead
<1>11. CASE ~(get_padding(w) > 0)
  <2>1. NextRow
    BY <1>2, <1>11 DEF ReadRow
  <2>2. PICK m \in Nat : m = row + 1
    BY <1>8
  <2>3. RowsRead(m)'
    BY <1>1, <1>4, <1>9, <2>2 DEF RowsRead
  <2>4. pos' = RowStart(m)
    <3>1. RowBytes = 3 * w
      BY <1>2, <1>11 DEF RowBytes
    <3>2. RowStart(m) = RowStart(row) + RowBytes
      BY <1>2, <1>4, <2>2, NextRowStart DEF RowStart
    <3> QED
      BY <1>1, <1>3, <3>1, <3>2
  <2> QED
    BY <1>1, <1>3, <1>4, <2>1, <2>2, <2>3, <2>4, NextRowReads
<1> QED
  BY <1>10, <1>11

LEMMA ReadPaddingReads == IInv /\ FileRead /\ ReadPadding => FileRead'
<1> SUFFICES ASSUME IInv, FileRead, ReadPadding PROVE FileRead'
  OBVIOUS
<1>1. /\ pc = "read_padding" /\ SizeRead /\ file \in SourceFiles /\ NextRow
      /\ pos = RowStart(row) + 3 * file.biWidth /\ RowsRead(row + 1)
      /\ file' = file /\ source' = source /\ heap' = heap
      /\ row \in 0 .. source.size.y - 1
      /\ pos' = pos + get_padding(source.size.x) /\ pos' <= file.length
  BY DEF ReadPadding, FileRead, Reading, IInv, HeaderRead, ReadingState, inputs, images
<1>2. /\ file.biWidth \in Nat \ {0} /\ SourceRows \in Nat \ {0}
      /\ source.size.x = file.biWidth /\ source.size.y = SourceRows
      /\ get_padding(file.biWidth) \in 0 .. 3 /\ RowBytes \in Nat /\ file.bOffBits \in Nat
  BY <1>1, SizeFacts
<1>3. PICK n \in Nat : n = row + 1
  BY <1>1, <1>2
<1>4. RowsRead(n)'
  BY <1>1, <1>3 DEF RowsRead, RowStart, RowBytes, SourceRows
<1>5. pos' = RowStart(n)
  <2>1. RowStart(n) = file.bOffBits + row * RowBytes + RowBytes
    BY <1>1, <1>2, <1>3, NextRowStart DEF RowStart
  <2>2. row * RowBytes \in Nat
    BY <1>1, <1>2
  <2> QED
    BY <1>1, <1>2, <2>1, <2>2 DEF RowStart, RowBytes
<1> QED
  BY <1>1, <1>2, <1>3, <1>4, <1>5, NextRowReads

\* The other steps do not touch what has been read as long as it matters.
LEMMA OtherStepsRead ==
  ASSUME IInv, FileRead,
         \/ AcceptArguments \/ RejectArguments \/ OpenSource \/ OpenSourceFails
         \/ ReadHeader \/ ReadHeaderFails \/ SkipToPixelArray \/ SkipFails
         \/ CreateSourceFails \/ ReadBodyFails
         \/ CloseSource \/ Rotate \/ RotateFails \/ OpenTarget
         \/ OpenTargetFails \/ WriteHeader \/ WriteRow \/ WritePadding
         \/ WriteFails \/ CloseTarget \/ CloseTargetLoses
  PROVE  FileRead'
<1> USE DEF FileRead, Reading, AllRead, inputs, images
<1>1. CASE AcceptArguments
  BY <1>1 DEF AcceptArguments
<1>2. CASE RejectArguments \/ OpenSourceFails
  BY <1>2 DEF RejectArguments, OpenSourceFails, Exit
<1>3. CASE OpenSource
  BY <1>3 DEF OpenSource
<1>4. CASE ReadHeader
  BY <1>4 DEF ReadHeader, ReadReturns
<1>5. CASE ReadHeaderFails \/ SkipFails \/ CreateSourceFails \/ ReadBodyFails
  BY <1>5 DEF ReadHeaderFails, SkipFails, CreateSourceFails, ReadBodyFails, ReadReturns
<1>6. CASE SkipToPixelArray
  BY <1>6 DEF SkipToPixelArray
<1>7. CASE CloseSource
  BY <1>7 DEF CloseSource, Exit, SizeRead, RowsRead, RowStart, RowBytes, SourceRows
<1>8. CASE Rotate
  BY <1>8 DEF Rotate, RowStart, RowBytes, SourceRows
<1>9. CASE RotateFails \/ OpenTargetFails
  BY <1>9 DEF RotateFails, OpenTargetFails, Exit
<1>10. CASE OpenTarget \/ WriteHeader
  BY <1>10 DEF OpenTarget, WriteHeader
<1>11. CASE WriteRow \/ WritePadding \/ WriteFails
  BY <1>11 DEF WriteRow, WritePadding, WriteFails, NextRowWritten, WriteReturns
<1>12. CASE CloseTarget \/ CloseTargetLoses
  BY <1>12 DEF CloseTarget, CloseTargetLoses, Finish, Exit
<1> QED
  BY <1>1, <1>2, <1>3, <1>4, <1>5, <1>6, <1>7, <1>8, <1>9, <1>10, <1>11, <1>12

\* The invariant of from_bmp: what is in the buffer is what the file has up to the
\* position, row by row.
THEOREM RowsReadAreTheFiles == Spec => []FileRead
<1>1. Init => FileRead
  BY DEF Init, FileRead, Reading, AllRead
<1>2. IInv /\ FileRead /\ [Next]_vars => FileRead'
  <2> SUFFICES ASSUME IInv, FileRead, [Next]_vars PROVE FileRead'
    OBVIOUS
  <2>1. CASE CreateSource \/ ReadRow \/ ReadPadding
    BY <2>1, CreateSourceReads, ReadRowReads, ReadPaddingReads
  <2>2. CASE Step /\ ~(CreateSource \/ ReadRow \/ ReadPadding)
    BY <2>2, OtherStepsRead DEF Step
  <2>3. CASE Exited \/ UNCHANGED vars
    BY <2>3 DEF Exited, vars, inputs, images, FileRead, Reading, AllRead, SizeRead, RowsRead,
                RowStart, RowBytes, SourceRows
  <2> QED
    BY <2>1, <2>2, <2>3 DEF Next
<1> QED
  BY <1>1, <1>2, TakenIsGivenBack, PTL DEF Spec

LEMMA PictureOfSource ==
  ASSUME file \in SourceFiles, file.biWidth \in Nat
  PROVE  /\ SourcePicture.x = file.biWidth /\ SourcePicture.y = SourceRows
         /\ 3 * file.biWidth + RowPadding(file.biWidth) = RowBytes
         /\ \A p \in (0 .. file.biWidth - 1) \X (0 .. SourceRows - 1) :
              SourcePicture.at[p]
                = RowStart(TargetRow(file.biHeight, SourceRows, p[2])) + 3 * p[1]
<1>1. 3 * file.biWidth + RowPadding(file.biWidth) = RowBytes
  BY PaddingCompletesRow DEF RowBytes
<1>2. SourcePicture.x = file.biWidth /\ SourcePicture.y = SourceRows
  BY DEF SourcePicture, Shown, SourceRows
<1>3. ASSUME NEW p \in (0 .. file.biWidth - 1) \X (0 .. SourceRows - 1)
      PROVE  SourcePicture.at[p]
               = RowStart(TargetRow(file.biHeight, SourceRows, p[2])) + 3 * p[1]
  <2>1. CASE file.biHeight > 0
    BY <1>1, <2>1 DEF SourcePicture, Shown, SourceRows, RowStart, TargetRow
  <2>2. CASE ~(file.biHeight > 0)
    BY <1>1, <2>2 DEF SourcePicture, Shown, SourceRows, RowStart, TargetRow
  <2> QED
    BY <2>1, <2>2
<1> QED
  BY <1>1, <1>2, <1>3

\* from_bmp accepts only files that have all their pixels and paddings: for every
\* width, height, offset and length.
THEOREM ShortFilesRejected == Spec => []ShortFileIsRejected
<1>1. IInv /\ FileRead => ShortFileIsRejected
  <2> SUFFICES ASSUME IInv, FileRead, pc \in {"rotate", "open_target"}
               PROVE  file.length >= file.bOffBits
                        + SourcePicture.y * (3 * SourcePicture.x + RowPadding(SourcePicture.x))
    BY DEF ShortFileIsRejected
  <2>1. /\ file \in SourceFiles /\ file.biWidth \in Nat
        /\ pos = RowStart(SourceRows) /\ pos <= file.length
    BY DEF IInv, HeaderRead, FileRead, AllRead
  <2>2. file.length \in Nat /\ pos = file.bOffBits + SourceRows * RowBytes
    BY <2>1, InputAssumption DEF RowStart, FileType
  <2>3. SourcePicture.x = file.biWidth /\ SourcePicture.y = SourceRows
        /\ 3 * file.biWidth + RowPadding(file.biWidth) = RowBytes
    BY <2>1, PictureOfSource
  <2>4. pos \in Int
    <3>1. file.bOffBits \in Nat /\ file.biHeight \in Int
      BY <2>1, InputAssumption DEF FileType
    <3>2. get_padding(file.biWidth) \in 0 .. 3
      BY <2>1, PaddingCompletesRow
    <3>3. SourceRows \in Int /\ RowBytes \in Int
      BY <2>1, <3>1, <3>2 DEF SourceRows, RowBytes
    <3> QED
      BY <2>2, <3>1, <3>3
  <2> QED
    BY <2>1, <2>2, <2>3, <2>4
<1> QED
  BY <1>1, TakenIsGivenBack, RowsReadAreTheFiles, PTL

LEMMA FileShown == IInv /\ FileRead => ReadShowsFile
<1> SUFFICES ASSUME IInv, FileRead, pc = "rotate"
             PROVE  /\ source.size = [x |-> SourcePicture.x, y |-> SourcePicture.y]
                    /\ \A p \in Positions(source.size) :
                         heap["source"][image_pixel_at(source.size, p)] = SourcePicture.at[p]
  BY DEF ReadShowsFile
<1>1. file \in SourceFiles /\ SizeRead /\ RowsRead(SourceRows)
  BY DEF IInv, HeaderRead, FileRead, Reading, AllRead
<1>2. /\ file.biWidth \in Nat \ {0} /\ SourceRows \in Nat \ {0}
      /\ source.size.x = file.biWidth /\ source.size.y = SourceRows
      /\ file.biHeight \in Int
  BY <1>1, SizeFacts
<1>3. source.size = [x |-> SourcePicture.x, y |-> SourcePicture.y]
  BY <1>1, <1>2, PictureOfSource DEF SizeRead
<1>4. ASSUME NEW p \in Positions(source.size)
      PROVE  heap["source"][image_pixel_at(source.size, p)] = SourcePicture.at[p]
  <2> DEFINE r == TargetRow(file.biHeight, SourceRows, p[2])
  <2>1. /\ p \in (0 .. file.biWidth - 1) \X (0 .. SourceRows - 1)
        /\ p[1] \in 0 .. file.biWidth - 1 /\ p[2] \in 0 .. SourceRows - 1
    BY <1>2 DEF Positions
  <2>2. r \in 0 .. SourceRows - 1 /\ TargetRow(file.biHeight, SourceRows, r) = p[2]
    BY <1>2, <2>1 DEF TargetRow
  <2> HIDE DEF r
  <2>3. heap["source"][p[2] * file.biWidth + p[1]] = RowStart(r) + 3 * p[1]
    BY <1>1, <2>1, <2>2 DEF RowsRead
  <2>4. SourcePicture.at[p] = RowStart(r) + 3 * p[1]
    BY <1>1, <1>2, <2>1, PictureOfSource DEF r
  <2> QED
    BY <1>2, <2>3, <2>4 DEF image_pixel_at
<1> QED
  BY <1>3, <1>4

\* When from_bmp has succeeded, the buffer holds what the file shows, from the top row
\* down: for every file, with rows in either order and whatever padding.
THEOREM BufferShowsFile == Spec => []ReadShowsFile
<1> QED
  BY FileShown, TakenIsGivenBack, RowsReadAreTheFiles, PTL

-----------------------------------------------------------------------------
(* What to_bmp writes *)

\* The items of a stored row, and everything that is stored.
Items(pic) == pic.x + RowPadding(pic.x)
Contents(pic) == {Body(pic)[i] : i \in 1 .. Items(pic) * pic.y}

Begins(b, pic) ==
  /\ b \in Seq(Contents(pic))
  /\ Len(b) <= Items(pic) * pic.y
  /\ \A i \in 1 .. Len(b) : b[i] = Body(pic)[i]

HasPixels(pic) == pic.x \in Nat \ {0} /\ pic.y \in Nat \ {0}

\* The rotated image shows the turned picture, and its header tells so.
RotatedShows(pic) ==
  /\ HasPixels(pic)
  /\ rotated.size = [x |-> pic.x, y |-> pic.y]
  /\ \A q \in Positions(rotated.size) :
       heap["rotated"][image_pixel_at(rotated.size, q)] = pic.at[q]
  /\ bmp_header_create(rotated.size) = RightHeader

\* The target holds the rows done, with their paddings, behind the right header.
FileWritten(pic) ==
  /\ DOMAIN target = {"opened", "header", "body"}
  /\ pc \notin {"arguments", "exit"} => angle \in AllowedAngles
  /\ pc \in {"arguments", "open_source", "read_header", "skip", "create_source", "read_row",
             "read_padding", "close_source", "rotate", "open_target"} => ~target.opened
  /\ pc \in {"open_target", "write_header", "write_row", "write_padding"} => RotatedShows(pic)
  /\ target.opened => /\ HasPixels(pic)
                      /\ target.header \in {<<>>, <<RightHeader>>}
                      /\ Begins(target.body, pic)
  /\ pc \in {"write_header", "write_row", "write_padding", "close_target"} => target.opened
  /\ pc = "write_header" => target.body = <<>>
  /\ pc \in {"write_row", "write_padding"} => /\ target.header = <<RightHeader>>
                                              /\ row \in 0 .. pic.y - 1
  /\ pc = "write_row" => Len(target.body) = row * Items(pic)
  /\ pc = "write_padding" => Len(target.body) = row * Items(pic) + pic.x
  /\ \/ pc = "close_target" /\ ioStatus = "WRITE_OK"
     \/ pc = "exit" /\ exitStatus = 0 /\ ~unsaved
     => /\ target.opened /\ target.header = <<RightHeader>>
        /\ Len(target.body) = Items(pic) * pic.y

LEMMA ModSmall ==
  ASSUME NEW m \in Nat \ {0}, NEW v \in 0 .. m - 1
  PROVE  v % m = v
OBVIOUS

\* Where item j of row r is, counted in items.
LEMMA ItemOfRow ==
  ASSUME NEW n \in Nat \ {0}, NEW r \in Nat, NEW j \in 0 .. n - 1
  PROVE  (r * n + j) % n = j /\ (r * n + j) \div n = r
<1> DEFINE x == r * n + j
           q == x \div n
           m == x % n
<1>1. r * n \in Nat /\ x \in Nat
  OBVIOUS
<1>2. x = r * n + j
  OBVIOUS
<1> HIDE DEF x
<1>3. q \in Nat /\ m \in 0 .. n - 1 /\ x = n * q + m
  BY <1>1
<1> HIDE DEF q, m
<1>4. (q - r) * n = j - m
  BY <1>1, <1>2, <1>3
<1>5. q = r
  <2>1. CASE q - r >= 1
    <3>1. (q - r) * n >= n
      BY <1>3, <2>1
    <3> QED
      BY <1>3, <1>4, <3>1
  <2>2. CASE q - r <= -1
    <3>1. (q - r) * n <= -n
      BY <1>3, <2>2
    <3> QED
      BY <1>3, <1>4, <3>1
  <2> QED
    BY <1>3, <2>1, <2>2
<1>6. m = j
  BY <1>3, <1>4, <1>5
<1> QED
  BY <1>5, <1>6 DEF q, m, x

LEMMA BodyItems ==
  ASSUME NEW pic, HasPixels(pic), NEW r \in 0 .. pic.y - 1, NEW j \in 1 .. Items(pic)
  PROVE  /\ r * Items(pic) + j \in 1 .. Items(pic) * pic.y
         /\ Body(pic)[r * Items(pic) + j]
              = IF j <= pic.x THEN pic.at[<<j - 1, pic.y - 1 - r>>] ELSE 0
<1> DEFINE n == Items(pic)
           i == r * n + j
<1>1. /\ pic.x \in Nat \ {0} /\ pic.y \in Nat \ {0} /\ n \in Nat \ {0}
      /\ n = pic.x + RowPadding(pic.x)
  <2>1. pic.x \in Nat \ {0} /\ pic.y \in Nat \ {0}
    BY DEF HasPixels
  <2>2. RowPadding(pic.x) \in 0 .. 3
    BY <2>1, PaddingCompletesRow
  <2> QED
    BY <2>1, <2>2 DEF Items
<1> HIDE DEF n
<1>2. r * n \in Nat /\ r * n + n <= n * pic.y /\ n * pic.y \in Nat
  BY <1>1, RowInside
<1>3. j \in 1 .. n
  BY DEF n
<1>4. i \in 1 .. n * pic.y
  BY <1>2, <1>3, <1>1
<1>5. i - 1 = r * n + (j - 1) /\ j - 1 \in 0 .. n - 1
  BY <1>1, <1>2, <1>3
<1> HIDE DEF i
<1>6. (i - 1) % n = j - 1 /\ (i - 1) \div n = r
  <2>1. r \in Nat
    BY <1>1
  <2>2. (r * n + (j - 1)) % n = j - 1 /\ (r * n + (j - 1)) \div n = r
    BY <1>1, <1>5, <2>1, ItemOfRow
  <2> QED
    BY <1>5, <2>2
<1>7. Body(pic)[i] = IF (i - 1) % n < pic.x
                     THEN pic.at[<<(i - 1) % n, pic.y - 1 - ((i - 1) \div n)>>] ELSE 0
  BY <1>1, <1>4 DEF Body
<1>8. Body(pic)[i] = IF j <= pic.x THEN pic.at[<<j - 1, pic.y - 1 - r>>] ELSE 0
  BY <1>1, <1>3, <1>6, <1>7
<1> QED
  BY <1>4, <1>8 DEF i, n

LEMMA CutShort ==
  ASSUME NEW S, NEW s \in Seq(S), NEW k \in 0 .. Len(s)
  PROVE  /\ SubSeq(s, 1, k) \in Seq(S)
         /\ Len(SubSeq(s, 1, k)) = k
         /\ \A j \in 1 .. k : SubSeq(s, 1, k)[j] = s[j]
OBVIOUS

LEMMA FunctionIsSequence ==
  ASSUME NEW S, NEW n \in Nat, NEW s \in [1 .. n -> S]
  PROVE  s \in Seq(S) /\ Len(s) = n
OBVIOUS

LEMMA Joined ==
  ASSUME NEW S, NEW s \in Seq(S), NEW t \in Seq(S)
  PROVE  /\ s \o t \in Seq(S)
         /\ Len(s \o t) = Len(s) + Len(t)
         /\ \A i \in 1 .. Len(s) : (s \o t)[i] = s[i]
         /\ \A j \in 1 .. Len(t) : (s \o t)[Len(s) + j] = t[j]
OBVIOUS

LEMMA TotalItems ==
  ASSUME NEW pic, HasPixels(pic)
  PROVE  Items(pic) \in Nat \ {0} /\ Items(pic) * pic.y \in Nat /\ pic.y \in Nat \ {0}
         /\ pic.x \in Nat \ {0} /\ Items(pic) = pic.x + get_padding(pic.x)
         /\ get_padding(pic.x) \in 0 .. 3
<1>1. pic.x \in Nat \ {0} /\ pic.y \in Nat \ {0} /\ Items(pic) = pic.x + get_padding(pic.x)
      /\ get_padding(pic.x) \in 0 .. 3
  BY PaddingCompletesRow DEF HasPixels, Items
<1>2. Items(pic) \in Nat \ {0}
  BY <1>1
<1> QED
  BY <1>1, <1>2

LEMMA NothingBegins ==
  ASSUME NEW pic, HasPixels(pic)
  PROVE  Begins(<<>>, pic) /\ Len(<<>>) = 0
BY TotalItems DEF Begins

\* A beginning of a beginning is one.
LEMMA CutBegins ==
  ASSUME NEW pic, HasPixels(pic), NEW b, Begins(b, pic), NEW k \in 0 .. Len(b)
  PROVE  Begins(SubSeq(b, 1, k), pic) /\ Len(SubSeq(b, 1, k)) = k
<1> DEFINE S == Contents(pic)
           total == Items(pic) * pic.y
<1>1. b \in Seq(S) /\ Len(b) <= total /\ \A i \in 1 .. Len(b) : b[i] = Body(pic)[i]
  BY DEF Begins
<1>2. total \in Nat
  BY TotalItems
<1> HIDE DEF S, total
<1>3. /\ SubSeq(b, 1, k) \in Seq(S) /\ Len(SubSeq(b, 1, k)) = k
      /\ \A j \in 1 .. k : SubSeq(b, 1, k)[j] = b[j]
  BY <1>1, CutShort
<1>4. k <= total /\ Len(b) \in Nat /\ \A i \in 1 .. k : i \in 1 .. Len(b)
  BY <1>1, <1>2
<1> QED
  BY <1>1, <1>3, <1>4 DEF Begins, S, total

\* A beginning goes on with the items that come next, or with some of them.
LEMMA AppendBegins ==
  ASSUME NEW pic, HasPixels(pic), NEW b, Begins(b, pic),
         NEW m \in Nat, NEW V, NEW items \in [1 .. m -> V],
         Len(b) + m <= Items(pic) * pic.y,
         \A j \in 1 .. m : items[j] = Body(pic)[Len(b) + j]
  PROVE  /\ Begins(b \o items, pic) /\ Len(b \o items) = Len(b) + m
         /\ Len(items) = m
         /\ \A k \in 0 .. m : Begins(b \o SubSeq(items, 1, k), pic)
<1> DEFINE S == Contents(pic)
           total == Items(pic) * pic.y
<1>1. b \in Seq(S) /\ Len(b) <= total /\ \A i \in 1 .. Len(b) : b[i] = Body(pic)[i]
  BY DEF Begins
<1>2. total \in Nat /\ Len(b) \in Nat /\ Len(b) + m <= total
  BY <1>1, TotalItems
<1>3. \A i \in 1 .. total : Body(pic)[i] \in S
  BY DEF Contents
<1> HIDE DEF S, total
<1>4. items \in [1 .. m -> S]
  BY <1>2, <1>3
<1>5. items \in Seq(S) /\ Len(items) = m
  BY <1>4, FunctionIsSequence
<1>6. ASSUME NEW t \in Seq(S), Len(t) <= m, \A j \in 1 .. Len(t) : t[j] = items[j]
      PROVE  Begins(b \o t, pic) /\ Len(b \o t) = Len(b) + Len(t)
  <2>1. /\ b \o t \in Seq(S) /\ Len(b \o t) = Len(b) + Len(t) /\ Len(t) \in Nat
        /\ \A i \in 1 .. Len(b) : (b \o t)[i] = b[i]
        /\ \A j \in 1 .. Len(t) : (b \o t)[Len(b) + j] = t[j]
    BY <1>1, <1>6, Joined
  <2>2. ASSUME NEW i \in 1 .. Len(b \o t)
        PROVE  (b \o t)[i] = Body(pic)[i]
    <3>1. CASE i <= Len(b)
      BY <1>1, <1>2, <2>1, <3>1
    <3>2. CASE i > Len(b)
      <4>1. PICK j \in 1 .. Len(t) : i = Len(b) + j
        <5>1. i - Len(b) \in 1 .. Len(t) /\ i = Len(b) + (i - Len(b))
          BY <1>2, <2>1, <3>2
        <5> QED
          BY <5>1
      <4>2. j \in 1 .. m
        BY <1>6, <2>1
      <4> QED
        BY <1>6, <2>1, <4>1, <4>2
    <3> QED
      BY <1>2, <2>1, <3>1, <3>2
  <2>3. Len(b \o t) <= total
    BY <1>2, <1>6, <2>1
  <2> QED
    BY <2>1, <2>2, <2>3 DEF Begins, S, total
<1>7. ASSUME NEW k \in 0 .. m
      PROVE  Begins(b \o SubSeq(items, 1, k), pic)
  <2>1. /\ SubSeq(items, 1, k) \in Seq(S) /\ Len(SubSeq(items, 1, k)) = k
        /\ \A j \in 1 .. k : SubSeq(items, 1, k)[j] = items[j]
    BY <1>5, CutShort
  <2>2. PICK t \in Seq(S) : t = SubSeq(items, 1, k)
    BY <2>1
  <2>3. Len(t) <= m /\ \A j \in 1 .. Len(t) : t[j] = items[j]
    BY <2>1, <2>2
  <2> QED
    BY <1>6, <2>2, <2>3
<1> QED
  BY <1>5, <1>6, <1>7

\* A target that begins like the stored picture is cut out of it, and is the whole of
\* it when it is as long.
LEMMA BeginningIsPart ==
  ASSUME NEW pic, HasPixels(pic), NEW b, Begins(b, pic)
  PROVE  /\ Len(Body(pic)) = Items(pic) * pic.y
         /\ Len(b) <= Len(Body(pic))
         /\ b = SubSeq(Body(pic), 1, Len(b))
         /\ Len(b) = Items(pic) * pic.y => b = Body(pic)
<1> DEFINE S == Contents(pic)
           total == Items(pic) * pic.y
           B == Body(pic)
<1>1. b \in Seq(S) /\ Len(b) <= total /\ \A i \in 1 .. Len(b) : b[i] = B[i]
  BY DEF Begins
<1>2. total \in Nat
  BY TotalItems
<1>3. B \in [1 .. total -> S]
  BY DEF Body, Contents, Items
<1> HIDE DEF S, total, B
<1>4. B \in Seq(S) /\ Len(B) = total
  BY <1>2, <1>3, FunctionIsSequence
<1>5. Len(b) \in 0 .. Len(B)
  BY <1>1, <1>4
<1>6. /\ SubSeq(B, 1, Len(b)) \in Seq(S) /\ Len(SubSeq(B, 1, Len(b))) = Len(b)
      /\ \A j \in 1 .. Len(b) : SubSeq(B, 1, Len(b))[j] = B[j]
  BY <1>4, <1>5, CutShort
<1>7. \A s, t \in Seq(S) : Len(s) = Len(t) /\ (\A i \in 1 .. Len(s) : s[i] = t[i]) => s = t
  OBVIOUS
<1>8. b = SubSeq(B, 1, Len(b))
  BY <1>1, <1>6, <1>7
<1>9. Len(b) = total => b = B
  BY <1>1, <1>4, <1>7
<1> QED
  BY <1>4, <1>5, <1>8, <1>9 DEF total, B

\* What image_rotate does to positions is what turning a picture means.
LEMMA TurnedIsRotated ==
  ASSUME NEW a \in AllowedAngles, NEW s \in Sizes, NEW pic, pic.x = s.x, pic.y = s.y
  PROVE  /\ Turned(pic, a).x = rotated_size(a, s).x
         /\ Turned(pic, a).y = rotated_size(a, s).y
         /\ \A p \in Positions(s) : Turned(pic, a).at[image_rotate(a, s, p)] = pic.at[p]
<1> DEFINE once == QuarterTurn(pic)
           half == QuarterTurn(once)
           thrice == QuarterTurn(half)
<1>1. s.x \in Nat /\ s.y \in Nat
  BY DEF Sizes
<1>2. /\ once.x = s.y /\ once.y = s.x /\ half.x = s.x /\ half.y = s.y
      /\ thrice.x = s.y /\ thrice.y = s.x
  BY DEF QuarterTurn
<1>3. \A p \in (0 .. s.y - 1) \X (0 .. s.x - 1) : once.at[p] = pic.at[<<p[2], s.y - 1 - p[1]>>]
  BY DEF QuarterTurn
<1>4. \A p \in (0 .. s.x - 1) \X (0 .. s.y - 1) : half.at[p] = once.at[<<p[2], s.x - 1 - p[1]>>]
  BY <1>2 DEF QuarterTurn
<1>5. \A p \in (0 .. s.y - 1) \X (0 .. s.x - 1) : thrice.at[p] = half.at[<<p[2], s.y - 1 - p[1]>>]
  BY <1>2 DEF QuarterTurn
<1> HIDE DEF once, half, thrice
<1>6. ASSUME NEW p \in Positions(s)
      PROVE  /\ once.at[rotate_90(s, p)] = pic.at[p]
             /\ half.at[rotate_180(s, p)] = pic.at[p]
             /\ thrice.at[rotate_270(s, p)] = pic.at[p]
  <2>1. p[1] \in 0 .. s.x - 1 /\ p[2] \in 0 .. s.y - 1 /\ p = <<p[1], p[2]>>
    BY DEF Positions
  <2>2. once.at[<<s.y - 1 - p[2], p[1]>>] = pic.at[p]
    <3>1. <<s.y - 1 - p[2], p[1]>> \in (0 .. s.y - 1) \X (0 .. s.x - 1)
      BY <1>1, <2>1
    <3>2. s.y - 1 - (s.y - 1 - p[2]) = p[2]
      BY <1>1, <2>1
    <3> QED
      BY <1>3, <2>1, <3>1, <3>2
  <2>3. half.at[<<s.x - 1 - p[1], s.y - 1 - p[2]>>] = pic.at[p]
    <3>1. <<s.x - 1 - p[1], s.y - 1 - p[2]>> \in (0 .. s.x - 1) \X (0 .. s.y - 1)
      BY <1>1, <2>1
    <3>2. s.x - 1 - (s.x - 1 - p[1]) = p[1]
      BY <1>1, <2>1
    <3> QED
      BY <1>4, <2>2, <3>1, <3>2
  <2>4. thrice.at[<<p[2], s.x - 1 - p[1]>>] = pic.at[p]
    <3>1. <<p[2], s.x - 1 - p[1]>> \in (0 .. s.y - 1) \X (0 .. s.x - 1)
      BY <1>1, <2>1
    <3> QED
      BY <1>5, <2>3, <3>1
  <2> QED
    BY <2>2, <2>3, <2>4 DEF rotate_90, rotate_180, rotate_270
<1>7. CASE a \in {90, -270}
  <2>1. (a \div 90) % 4 = 1
    BY <1>7
  <2>2. Turned(pic, a) = once
    BY <2>1 DEF Turned, once
  <2> QED
    BY <1>2, <1>6, <1>7, <2>2 DEF image_rotate, rotated_size, dimensions_reverse
<1>8. CASE a \in {180, -180}
  <2>1. (a \div 90) % 4 = 2
    BY <1>8
  <2>2. Turned(pic, a) = half
    BY <2>1 DEF Turned, half, once
  <2> QED
    BY <1>2, <1>6, <1>8, <2>2 DEF image_rotate, rotated_size
<1>9. CASE a \in {270, -90}
  <2>1. (a \div 90) % 4 = 3
    BY <1>9
  <2>2. Turned(pic, a) = thrice
    BY <2>1 DEF Turned, thrice, half, once
  <2> QED
    BY <1>2, <1>6, <1>9, <2>2 DEF image_rotate, rotated_size, dimensions_reverse
<1>10. CASE a = 0
  <2>1. (a \div 90) % 4 = 0
    BY <1>10
  <2>2. Turned(pic, a) = pic
    BY <2>1 DEF Turned
  <2> QED
    BY <1>10, <2>2 DEF image_rotate, rotated_size
<1> QED
  BY <1>7, <1>8, <1>9, <1>10 DEF AllowedAngles

\* Every position of the new image is one some pixel is moved to.
LEMMA RotationsReachAll ==
  ASSUME NEW a \in AllowedAngles, NEW s \in Sizes, NEW q \in Positions(rotated_size(a, s))
  PROVE  \E p \in Positions(s) : q = image_rotate(a, s, p)
<1> DEFINE t == rotated_size(a, s)
           p == image_rotate(-a, t, q)
<1>1. -a \in AllowedAngles /\ -a \in Int /\ -(-a) = a
  BY DEF AllowedAngles
<1>2. t \in Sizes /\ rotated_size(-a, t) = s
  <2>1. -a \in {90, -270, 270, -90} <=> a \in {90, -270, 270, -90}
    BY DEF AllowedAngles
  <2> QED
    BY <2>1 DEF rotated_size, dimensions_reverse, Sizes
<1>3. p \in Positions(s)
  BY <1>1, <1>2, RotationsStayInside
<1>4. image_rotate(-(-a), rotated_size(-a, t), image_rotate(-a, t, q)) = q
  BY <1>1, <1>2, RotationsUndo
<1> QED
  BY <1>1, <1>2, <1>3, <1>4

\* The fields of a header are wide enough for the files this theorem is about.
LEMMA HeaderRight ==
  ASSUME HEADER_SIZE + 2 * MaxAlloc < INT_MOD,
         NEW pic, HasPixels(pic), PIXEL * (pic.x * pic.y) <= MaxAlloc
  PROVE  bmp_header_create([x |-> pic.x, y |-> pic.y])
           = [biWidth |-> pic.x, biHeight |-> pic.y, bOffBits |-> HEADER_SIZE,
              bfileSize |-> HEADER_SIZE + BytesIn(pic)]
<1> DEFINE w == pic.x
           h == pic.y
           pad == get_padding(w)
           half == INT_MOD \div 2
<1>1. w \in Nat \ {0} /\ h \in Nat \ {0} /\ pad \in 0 .. 3
  BY TotalItems
<1>2. /\ half \in Nat \ {0} /\ INT_MOD = 2 * half /\ INT_MOD \in Nat \ {0}
      /\ MaxAlloc \in Nat /\ 54 + 2 * MaxAlloc < INT_MOD /\ 3 * (w * h) <= MaxAlloc
  BY WidthAssumption, MemoryAssumption DEF HEADER_SIZE, PIXEL
<1> HIDE DEF half
<1>3. RowPadding(w) = pad
  BY <1>1, PaddingCompletesRow
<1> HIDE DEF w, h, pad
<1>4. w * h \in Nat /\ w <= w * h /\ h <= w * h
  <2>1. (w - 1) * h \in Nat /\ (h - 1) * w \in Nat
    BY <1>1
  <2>2. (w - 1) * h = w * h - h /\ (h - 1) * w = w * h - w
    BY <1>1
  <2> QED
    BY <1>1, <2>1, <2>2
<1>5. AsInt(w) = w /\ AsInt(h) = h
  <2>1. w + half \in 0 .. INT_MOD - 1 /\ h + half \in 0 .. INT_MOD - 1
    BY <1>1, <1>2, <1>4
  <2>2. (w + half) % INT_MOD = w + half /\ (h + half) % INT_MOD = h + half
    BY <1>2, <2>1, ModSmall
  <2> QED
    BY <1>1, <1>2, <2>2 DEF AsInt, half
<1>6. (HEADER_SIZE + (w * PIXEL + pad) * h) % INT_MOD = HEADER_SIZE + h * (3 * w + pad)
  <2>1. pad * h \in Nat /\ pad * h <= 3 * h
    <3>1. (3 - pad) * h \in Nat /\ (3 - pad) * h = 3 * h - pad * h
      BY <1>1
    <3> QED
      BY <1>1, <3>1
  <2>2. (w * PIXEL + pad) * h = 3 * (w * h) + pad * h
    BY <1>1 DEF PIXEL
  <2>3. h * (3 * w + pad) = 3 * (w * h) + pad * h
    BY <1>1
  <2>4. 54 + (3 * (w * h) + pad * h) \in 0 .. INT_MOD - 1
    BY <1>1, <1>2, <1>4, <2>1
  <2>5. (54 + (3 * (w * h) + pad * h)) % INT_MOD = 54 + (3 * (w * h) + pad * h)
    BY <1>2, <2>4, ModSmall
  <2> QED
    BY <2>2, <2>3, <2>5 DEF HEADER_SIZE
<1>7. BytesIn(pic) = h * (3 * w + pad)
  BY <1>3 DEF BytesIn, w, h
<1> QED
  BY <1>5, <1>6, <1>7 DEF bmp_header_create, w, h, pad

LEMMA SamePicture ==
  ASSUME UNCHANGED <<file, angle>>
  PROVE  TurnedPicture' = TurnedPicture /\ RightHeader' = RightHeader
BY DEF TurnedPicture, SourcePicture, RightHeader

\* image_rotate gets the memory: its image is the turned picture.
LEMMA RotateShows ==
  ASSUME HEADER_SIZE + 2 * MaxAlloc < INT_MOD,
         IInv, FileRead, angle \in AllowedAngles, Rotate, NEW pic, pic = TurnedPicture
  PROVE  RotatedShows(pic)'
<1> DEFINE s == source.size
           t == rotated_size(angle, s)
           shown == SourcePicture
<1>1. /\ pc = "rotate" /\ UNCHANGED <<file, angle>>
      /\ BytesOf(t) <= MaxAlloc
      /\ rotated' = [size |-> t, data |-> TRUE]
      /\ heap'["rotated"] = RotatedData(angle, s, heap["source"])
  BY DEF Rotate, inputs
<1>2. /\ file \in SourceFiles /\ SizeRead /\ ReadShowsFile
  BY <1>1, FileShown DEF IInv, HeaderRead, FileRead, Reading, AllRead
<1>3. /\ file.biWidth \in Nat \ {0} /\ SourceRows \in Nat \ {0}
      /\ s = [x |-> file.biWidth, y |-> SourceRows]
      /\ shown.x = file.biWidth /\ shown.y = SourceRows
  BY <1>2, SizeFacts, PictureOfSource DEF SizeRead
<1>4. s \in Sizes /\ shown.x = s.x /\ shown.y = s.y /\ s.x \in Nat \ {0} /\ s.y \in Nat \ {0}
  BY <1>3 DEF Sizes
<1>5. /\ pic.x = t.x /\ pic.y = t.y
      /\ \A p \in Positions(s) : pic.at[image_rotate(angle, s, p)] = shown.at[p]
  <2> HIDE DEF s, shown
  <2>1. pic = Turned(shown, angle)
    BY DEF TurnedPicture, shown
  <2> QED
    BY <1>4, <2>1, TurnedIsRotated
<1>6. \A p \in Positions(s) : heap["source"][image_pixel_at(s, p)] = shown.at[p]
  BY <1>1, <1>2 DEF ReadShowsFile
<1>7. t = s \/ t = [x |-> s.y, y |-> s.x]
  BY DEF rotated_size, dimensions_reverse
<1>8. t = [x |-> pic.x, y |-> pic.y] /\ HasPixels(pic)
  BY <1>3, <1>5, <1>7 DEF HasPixels
<1>9. PIXEL * (pic.x * pic.y) <= MaxAlloc
  <2> DEFINE half == INT_MOD \div 2
             w == file.biWidth
             h == SourceRows
  <2>1. half \in Nat \ {0} /\ INT_MOD = 2 * half
    BY WidthAssumption
  <2>2. w \in Nat \ {0} /\ h \in Nat \ {0} /\ w <= half /\ h <= half
    <3>1. /\ file.biWidth < half /\ file.biHeight \in Int /\ file.biHeight < half
          /\ file.biHeight >= -half
      BY <1>2, FieldsAreInts
    <3>2. SourceRows <= half
      BY <2>1, <3>1 DEF SourceRows
    <3> QED
      BY <1>3, <2>1, <3>1, <3>2
  <2>3. LONG_MOD = 4 * (half * half)
    <3>1. LONG_MOD = (2 * half) * (2 * half)
      BY <2>1, WidthAssumption
    <3> HIDE DEF half
    <3> QED
      BY <2>1, <3>1
  <2>4. t.x * t.y = w * h /\ pic.x * pic.y = w * h
    BY <1>3, <1>5, <1>7
  <2> HIDE DEF half, w, h, t
  <2>5. w * h \in Nat /\ w * h <= half * half /\ half * half \in Nat \ {0}
    <3>1. w * h \in Nat /\ half * half \in Nat \ {0}
      BY <2>1, <2>2
    <3>2. (half - w) * h \in Nat /\ (half - h) * half \in Nat
      BY <2>1, <2>2
    <3>3. (half - w) * h = half * h - w * h /\ (half - h) * half = half * half - half * h
      BY <2>1, <2>2
    <3>4. half * h \in Nat
      BY <2>1, <2>2
    <3> QED
      BY <3>1, <3>2, <3>3, <3>4
  <2>6. (w * h) * 3 \in 0 .. LONG_MOD - 1 /\ LONG_MOD \in Nat \ {0}
    BY <2>3, <2>5
  <2>7. BytesOf(t) = (w * h) * 3
    BY <2>4, <2>6, ModSmall DEF BytesOf, PIXEL
  <2> QED
    BY <1>1, <2>4, <2>5, <2>7 DEF PIXEL, t
<1>10. ASSUME NEW q \in Positions(t)
       PROVE  heap'["rotated"][image_pixel_at(t, q)] = pic.at[q]
  <2> HIDE DEF s, shown
  <2>1. PICK p \in Positions(s) : q = image_rotate(angle, s, p)
    BY <1>4, RotationsReachAll
  <2>2. RotatedData(angle, s, heap["source"])[image_pixel_at(t, q)]
          = heap["source"][image_pixel_at(s, p)]
    BY <1>4, <2>1, EveryPixelArrives
  <2> QED
    BY <1>1, <1>5, <1>6, <2>1, <2>2
<1>11. bmp_header_create(t) = RightHeader
  <2>1. bmp_header_create(t)
          = [biWidth |-> pic.x, biHeight |-> pic.y, bOffBits |-> HEADER_SIZE,
             bfileSize |-> HEADER_SIZE + BytesIn(pic)]
    <3> HIDE DEF t
    <3> QED BY <1>8, <1>9, HeaderRight
  <2> QED
    BY <2>1 DEF RightHeader
<1>12. rotated'.size = t /\ RightHeader' = RightHeader
  BY <1>1, SamePicture
<1> HIDE DEF t
<1> QED
  BY <1>8, <1>10, <1>11, <1>12 DEF RotatedShows

\* The rotated image stays as it is while to_bmp writes.
LEMMA StillShows ==
  ASSUME NEW pic, RotatedShows(pic), UNCHANGED <<file, angle, rotated, heap>>
  PROVE  RotatedShows(pic)' /\ RightHeader' = RightHeader
<1>1. RightHeader' = RightHeader
  BY SamePicture
<1> QED
  BY <1>1 DEF RotatedShows

\* A row and its padding are in the file.
LEMMA NextRowWrites ==
  ASSUME NEW pic, RotatedShows(pic), UNCHANGED <<file, angle, rotated, heap, unsaved>>,
         angle \in AllowedAngles,
         NextRowWritten, row \in 0 .. pic.y - 1,
         DOMAIN target' = {"opened", "header", "body"},
         target'.opened, target'.header = <<RightHeader>>, Begins(target'.body, pic),
         Len(target'.body) = row * Items(pic) + Items(pic)
  PROVE  FileWritten(pic)'
<1>1. RotatedShows(pic)' /\ RightHeader' = RightHeader /\ HasPixels(pic)
      /\ rotated.size.y = pic.y
  BY StillShows DEF RotatedShows
<1>2. pic.y \in Nat \ {0} /\ Items(pic) \in Nat \ {0}
  BY <1>1, TotalItems
<1>3. (row + 1) * Items(pic) = row * Items(pic) + Items(pic)
  BY <1>2
<1>4. row' = row + 1 /\ angle' = angle
  BY DEF NextRowWritten
<1>5. CASE row + 1 < pic.y
  <2>1. pc' = "write_row" /\ row' \in 0 .. pic.y - 1
    BY <1>1, <1>2, <1>4, <1>5 DEF NextRowWritten
  <2>2. Len(target'.body) = row' * Items(pic)
    BY <1>3, <1>4
  <2> QED
    BY <1>1, <1>4, <2>1, <2>2 DEF FileWritten
<1>6. CASE ~(row + 1 < pic.y)
  <2>1. pc' = "close_target" /\ row + 1 = pic.y
    BY <1>1, <1>2, <1>6 DEF NextRowWritten, WriteReturns
  <2>2. Len(target'.body) = Items(pic) * pic.y
    <3>1. pic.y * Items(pic) = Items(pic) * pic.y
      BY <1>2
    <3> QED
      BY <1>3, <2>1, <3>1
  <2> QED
    BY <1>1, <1>4, <2>1, <2>2 DEF FileWritten
<1> QED
  BY <1>5, <1>6

\* fwrite of a row, whole or in part: the row's items are the ones that come next.
LEMMA RowItems ==
  ASSUME NEW pic, RotatedShows(pic), row \in 0 .. pic.y - 1,
         Begins(target.body, pic), Len(target.body) = row * Items(pic)
  PROVE  /\ Begins(target.body \o WrittenRow, pic)
         /\ Len(target.body \o WrittenRow) = row * Items(pic) + pic.x
         /\ Len(WrittenRow) = pic.x
         /\ \A k \in 0 .. pic.x : Begins(target.body \o SubSeq(WrittenRow, 1, k), pic)
<1>1. /\ HasPixels(pic) /\ rotated.size = [x |-> pic.x, y |-> pic.y]
      /\ rotated.size.x = pic.x /\ rotated.size.y = pic.y
  BY DEF RotatedShows
<1>2. /\ pic.x \in Nat \ {0} /\ pic.y \in Nat \ {0} /\ Items(pic) \in Nat \ {0}
      /\ pic.x <= Items(pic)
  BY <1>1, TotalItems
<1>3. WrittenRow = [i \in 1 .. pic.x |->
                      heap["rotated"][(pic.y - 1 - row) * pic.x + (i - 1)]]
  BY <1>1 DEF WrittenRow, RowOf
<1>4. PICK V : WrittenRow \in [1 .. pic.x -> V]
  <2>1. WrittenRow \in [1 .. pic.x -> {WrittenRow[i] : i \in 1 .. pic.x}]
    BY <1>3
  <2> QED
    BY <2>1
<1>5. ASSUME NEW j \in 1 .. pic.x
      PROVE  WrittenRow[j] = Body(pic)[Len(target.body) + j]
  <2> DEFINE q == <<j - 1, pic.y - 1 - row>>
  <2>1. q \in Positions(rotated.size)
    BY <1>1, <1>2 DEF Positions
  <2>2. heap["rotated"][image_pixel_at(rotated.size, q)] = pic.at[q]
    BY <2>1 DEF RotatedShows
  <2>3. image_pixel_at(rotated.size, q) = (pic.y - 1 - row) * pic.x + (j - 1)
    BY <1>1 DEF image_pixel_at
  <2>4. WrittenRow[j] = pic.at[q]
    BY <1>3, <2>2, <2>3
  <2>5. j \in 1 .. Items(pic) /\ j <= pic.x
    BY <1>2
  <2>6. Body(pic)[row * Items(pic) + j] = pic.at[q]
    BY <1>1, <2>5, BodyItems
  <2> QED
    BY <2>4, <2>6
<1>6. Len(target.body) + pic.x <= Items(pic) * pic.y
  <2>1. pic.x \in 1 .. Items(pic)
    BY <1>2
  <2>2. row * Items(pic) + pic.x \in 1 .. Items(pic) * pic.y
    BY <1>1, <2>1, BodyItems
  <2>3. Items(pic) * pic.y \in Nat
    BY <1>1, TotalItems
  <2> QED
    BY <2>2, <2>3
<1>7. pic.x \in Nat
  BY <1>2
<1>8. /\ Begins(target.body \o WrittenRow, pic)
      /\ Len(target.body \o WrittenRow) = Len(target.body) + pic.x
      /\ Len(WrittenRow) = pic.x
      /\ \A k \in 0 .. pic.x : Begins(target.body \o SubSeq(WrittenRow, 1, k), pic)
  <2>1. HasPixels(pic) /\ \A j \in 1 .. pic.x : WrittenRow[j] = Body(pic)[Len(target.body) + j]
    BY <1>1, <1>5
  <2>2. PICK m \in Nat : m = pic.x
    BY <1>7
  <2>3. /\ WrittenRow \in [1 .. m -> V] /\ Len(target.body) + m <= Items(pic) * pic.y
        /\ HasPixels(pic) /\ Begins(target.body, pic)
        /\ \A j \in 1 .. m : WrittenRow[j] = Body(pic)[Len(target.body) + j]
    BY <1>4, <1>6, <2>1, <2>2
  <2>4. /\ Begins(target.body \o WrittenRow, pic)
        /\ Len(target.body \o WrittenRow) = Len(target.body) + m
        /\ Len(WrittenRow) = m
        /\ \A k \in 0 .. m : Begins(target.body \o SubSeq(WrittenRow, 1, k), pic)
    <3>1. ASSUME NEW b, NEW items \in [1 .. m -> V], Begins(b, pic), HasPixels(pic),
                 Len(b) + m <= Items(pic) * pic.y,
                 \A j \in 1 .. m : items[j] = Body(pic)[Len(b) + j]
          PROVE  /\ Begins(b \o items, pic) /\ Len(b \o items) = Len(b) + m
                 /\ Len(items) = m
                 /\ \A k \in 0 .. m : Begins(b \o SubSeq(items, 1, k), pic)
      BY <3>1, AppendBegins
    <3> QED
      BY <2>3, <3>1
  <2> QED
    BY <2>2, <2>4
<1> QED
  BY <1>8

\* The same for the padding of a row.
LEMMA PaddingItems ==
  ASSUME NEW pic, RotatedShows(pic), row \in 0 .. pic.y - 1,
         Begins(target.body, pic), Len(target.body) = row * Items(pic) + pic.x
  PROVE  LET zeros == Zeros(get_padding(rotated.size.x))
         IN  /\ Begins(target.body \o zeros, pic)
             /\ Len(target.body \o zeros) = row * Items(pic) + Items(pic)
             /\ Len(zeros) = get_padding(rotated.size.x)
             /\ \A k \in 0 .. Len(zeros) : Begins(target.body \o SubSeq(zeros, 1, k), pic)
<1> DEFINE pad == get_padding(rotated.size.x)
           zeros == Zeros(pad)
<1>1. HasPixels(pic) /\ rotated.size.x = pic.x
  BY DEF RotatedShows
<1>2. /\ pic.x \in Nat \ {0} /\ pic.y \in Nat \ {0} /\ Items(pic) \in Nat \ {0}
      /\ Items(pic) = pic.x + pad /\ pad \in 0 .. 3 /\ Items(pic) * pic.y \in Nat
  BY <1>1, TotalItems
<1> HIDE DEF pad
<1>3. row * Items(pic) \in Nat
  BY <1>2
<1>4. zeros \in [1 .. pad -> {0}] /\ \A j \in 1 .. pad : zeros[j] = 0
  BY DEF Zeros
<1>5. ASSUME NEW j \in 1 .. pad
      PROVE  /\ Body(pic)[Len(target.body) + j] = 0
             /\ Len(target.body) + j \in 1 .. Items(pic) * pic.y
  <2>1. pic.x + j \in 1 .. Items(pic) /\ ~(pic.x + j <= pic.x)
    <3>1. pic.x \in Nat /\ pad \in Nat /\ j \in 1 .. pad /\ Items(pic) = pic.x + pad
      BY <1>2
    <3>2. pic.x + j \in 1 .. pic.x + pad /\ ~(pic.x + j <= pic.x)
      BY <3>1
    <3> QED
      BY <3>1, <3>2
  <2>2. /\ row * Items(pic) + (pic.x + j) \in 1 .. Items(pic) * pic.y
        /\ Body(pic)[row * Items(pic) + (pic.x + j)] = 0
    BY <1>1, <2>1, BodyItems
  <2>3. Len(target.body) + j = row * Items(pic) + (pic.x + j)
    BY <1>2, <1>3
  <2> QED
    BY <2>2, <2>3
<1>6. Len(target.body) + pad <= Items(pic) * pic.y
  <2>1. Items(pic) \in 1 .. Items(pic)
    BY <1>2
  <2>2. row * Items(pic) + Items(pic) \in 1 .. Items(pic) * pic.y
    BY <1>1, <2>1, BodyItems
  <2> QED
    BY <1>2, <1>3, <2>2
<1> HIDE DEF zeros
<1>7. pad \in Nat /\ Len(target.body) + pad = row * Items(pic) + Items(pic)
  BY <1>2, <1>3
<1>8. \A j \in 1 .. pad : zeros[j] = Body(pic)[Len(target.body) + j]
  BY <1>4, <1>5
<1>9. /\ Begins(target.body \o zeros, pic) /\ Len(target.body \o zeros) = Len(target.body) + pad
      /\ Len(zeros) = pad
      /\ \A k \in 0 .. pad : Begins(target.body \o SubSeq(zeros, 1, k), pic)
  BY <1>1, <1>4, <1>6, <1>7, <1>8, AppendBegins
<1> QED
  BY <1>7, <1>9 DEF zeros, pad

LEMMA WriteHeaderWrites ==
  ASSUME NEW pic, FileWritten(pic), WriteHeader
  PROVE  FileWritten(pic)'
<1>1. /\ pc = "write_header" /\ pc' = "write_row" /\ row' = 0
      /\ UNCHANGED <<file, angle, rotated, heap, unsaved>>
      /\ target' = [target EXCEPT !.header = <<bmp_header_create(rotated.size)>>]
  BY DEF WriteHeader, inputs, images
<1>2. /\ RotatedShows(pic) /\ target.opened /\ target.body = <<>>
      /\ DOMAIN target = {"opened", "header", "body"} /\ angle \in AllowedAngles
  BY <1>1 DEF FileWritten
<1>3. RotatedShows(pic)' /\ RightHeader' = RightHeader /\ HasPixels(pic)
      /\ bmp_header_create(rotated.size) = RightHeader
  BY <1>1, <1>2, StillShows DEF RotatedShows
<1>4. /\ target'.opened /\ target'.header = <<RightHeader>> /\ target'.body = <<>>
      /\ DOMAIN target' = {"opened", "header", "body"}
  BY <1>1, <1>2, <1>3
<1>5. /\ Begins(target'.body, pic) /\ Len(target'.body) = 0
      /\ 0 * Items(pic) = 0 /\ 0 \in 0 .. pic.y - 1
  BY <1>3, <1>4, NothingBegins, TotalItems
<1> QED
  BY <1>1, <1>2, <1>3, <1>4, <1>5 DEF FileWritten

LEMMA WriteRowWrites ==
  ASSUME NEW pic, FileWritten(pic), WriteRow
  PROVE  FileWritten(pic)'
<1>1. /\ pc = "write_row"
      /\ UNCHANGED <<file, angle, rotated, heap, unsaved>>
      /\ target' = [target EXCEPT !.body = @ \o WrittenRow]
  BY DEF WriteRow, inputs, images, Append2Body
<1>2. /\ RotatedShows(pic) /\ target.opened /\ target.header = <<RightHeader>>
      /\ DOMAIN target = {"opened", "header", "body"} /\ angle \in AllowedAngles
      /\ Begins(target.body, pic) /\ Len(target.body) = row * Items(pic)
      /\ row \in 0 .. pic.y - 1
  BY <1>1 DEF FileWritten
<1>3. RotatedShows(pic)' /\ RightHeader' = RightHeader /\ HasPixels(pic)
      /\ rotated.size.x = pic.x
  BY <1>1, <1>2, StillShows DEF RotatedShows
<1>4. /\ target'.opened /\ target'.header = <<RightHeader>>
      /\ target'.body = target.body \o WrittenRow
      /\ DOMAIN target' = {"opened", "header", "body"}
  BY <1>1, <1>2
<1>5. /\ Begins(target'.body, pic)
      /\ Len(target'.body) = row * Items(pic) + pic.x
  BY <1>2, <1>4, RowItems
<1>6. CASE get_padding(rotated.size.x) > 0
  <2>1. pc' = "write_padding" /\ row' = row
    BY <1>6 DEF WriteRow
  <2> QED
    BY <1>1, <1>2, <1>3, <1>4, <1>5, <2>1 DEF FileWritten
<1>7. CASE ~(get_padding(rotated.size.x) > 0)
  <2>1. NextRowWritten
    BY <1>7 DEF WriteRow
  <2>2. Items(pic) = pic.x
    BY <1>3, <1>7, TotalItems
  <2> QED
    BY <1>1, <1>2, <1>4, <1>5, <2>1, <2>2, NextRowWrites
<1> QED
  BY <1>6, <1>7

LEMMA WritePaddingWrites ==
  ASSUME NEW pic, FileWritten(pic), WritePadding
  PROVE  FileWritten(pic)'
<1>1. /\ pc = "write_padding" /\ NextRowWritten
      /\ UNCHANGED <<file, angle, rotated, heap, unsaved>>
      /\ target' = [target EXCEPT !.body = @ \o Zeros(get_padding(rotated.size.x))]
  BY DEF WritePadding, inputs, images, Append2Body
<1>2. /\ RotatedShows(pic) /\ target.opened /\ target.header = <<RightHeader>>
      /\ DOMAIN target = {"opened", "header", "body"} /\ angle \in AllowedAngles
      /\ Begins(target.body, pic) /\ Len(target.body) = row * Items(pic) + pic.x
      /\ row \in 0 .. pic.y - 1
  BY <1>1 DEF FileWritten
<1>3. /\ target'.opened /\ target'.header = <<RightHeader>>
      /\ target'.body = target.body \o Zeros(get_padding(rotated.size.x))
      /\ DOMAIN target' = {"opened", "header", "body"}
  BY <1>1, <1>2
<1>4. /\ Begins(target'.body, pic)
      /\ Len(target'.body) = row * Items(pic) + Items(pic)
  BY <1>2, <1>3, PaddingItems
<1> QED
  BY <1>1, <1>2, <1>3, <1>4, NextRowWrites

LEMMA WriteFailsWrites ==
  ASSUME NEW pic, FileWritten(pic), WriteFails
  PROVE  FileWritten(pic)'
<1>1. /\ pc \in {"write_header", "write_row", "write_padding"} /\ pc' = "close_target"
      /\ ioStatus' = "WRITE_ERROR" /\ UNCHANGED <<file, angle, rotated, heap, unsaved>>
  BY DEF WriteFails, WriteReturns, inputs, images
<1>2. /\ RotatedShows(pic) /\ target.opened
      /\ target.header \in {<<>>, <<RightHeader>>}
      /\ DOMAIN target = {"opened", "header", "body"} /\ angle \in AllowedAngles
      /\ Begins(target.body, pic) /\ HasPixels(pic)
  BY <1>1 DEF FileWritten
<1>3. RightHeader' = RightHeader
  BY <1>1, SamePicture
<1>4. ASSUME NEW items, target' = Append2Body(target, items), Begins(target.body \o items, pic)
      PROVE  FileWritten(pic)'
  <2>1. /\ target'.opened /\ target'.header = target.header
        /\ target'.body = target.body \o items
        /\ DOMAIN target' = {"opened", "header", "body"}
    BY <1>2, <1>4 DEF Append2Body
  <2> QED
    BY <1>1, <1>2, <1>3, <1>4, <2>1 DEF FileWritten
<1>5. CASE pc = "write_header"
  <2>1. target' = target
    BY <1>5 DEF WriteFails
  <2> QED
    BY <1>1, <1>2, <1>3, <2>1 DEF FileWritten
<1>6. CASE pc = "write_row"
  <2>1. /\ row \in 0 .. pic.y - 1 /\ Len(target.body) = row * Items(pic)
    BY <1>6 DEF FileWritten
  <2>2. PICK k \in 0 .. Len(WrittenRow) : target' = Append2Body(target, SubSeq(WrittenRow, 1, k))
    BY <1>6 DEF WriteFails, Prefixes
  <2>3. Begins(target.body \o SubSeq(WrittenRow, 1, k), pic)
    BY <1>2, <2>1, RowItems
  <2> QED
    BY <1>4, <2>2, <2>3
<1>7. CASE pc = "write_padding"
  <2> DEFINE zeros == Zeros(get_padding(rotated.size.x))
  <2>1. /\ row \in 0 .. pic.y - 1 /\ Len(target.body) = row * Items(pic) + pic.x
    BY <1>7 DEF FileWritten
  <2>2. PICK k \in 0 .. Len(zeros) : target' = Append2Body(target, SubSeq(zeros, 1, k))
    BY <1>7 DEF WriteFails, Prefixes
  <2>3. Begins(target.body \o SubSeq(zeros, 1, k), pic)
    BY <1>2, <2>1, PaddingItems
  <2> QED
    BY <1>4, <2>2, <2>3
<1> QED
  BY <1>1, <1>5, <1>6, <1>7

LEMMA ClosingWrites ==
  ASSUME NEW pic, FileWritten(pic), CloseTarget \/ CloseTargetLoses
  PROVE  FileWritten(pic)'
<1>1. /\ pc = "close_target" /\ pc' = "exit"
      /\ exitStatus' = (IF ioStatus = "WRITE_OK" THEN 0 ELSE 1)
      /\ UNCHANGED <<file, angle>>
  BY DEF CloseTarget, CloseTargetLoses, Finish, Exit, inputs
<1>2. /\ target.opened /\ HasPixels(pic)
      /\ target.header \in {<<>>, <<RightHeader>>}
      /\ DOMAIN target = {"opened", "header", "body"}
      /\ Begins(target.body, pic)
      /\ ioStatus = "WRITE_OK" => /\ target.header = <<RightHeader>>
                                  /\ Len(target.body) = Items(pic) * pic.y
  BY <1>1 DEF FileWritten
<1>3. RightHeader' = RightHeader
  BY <1>1, SamePicture
<1>4. CASE CloseTarget
  <2>1. target' = target /\ unsaved' = unsaved
    BY <1>4 DEF CloseTarget
  <2> QED
    BY <1>1, <1>2, <1>3, <2>1 DEF FileWritten
<1>5. CASE CloseTargetLoses
  <2>1. unsaved' = TRUE
    BY <1>5 DEF CloseTargetLoses
  <2>2. /\ target'.opened /\ target'.header \in {<<>>, <<RightHeader>>}
        /\ DOMAIN target' = {"opened", "header", "body"} /\ Begins(target'.body, pic)
    <3>1. CASE target' = [target EXCEPT !.header = <<>>, !.body = <<>>]
      BY <1>2, <3>1, NothingBegins
    <3>2. ASSUME NEW k \in 0 .. Len(target.body),
                 target' = [target EXCEPT !.body = SubSeq(target.body, 1, k)]
          PROVE  /\ target'.opened /\ target'.header \in {<<>>, <<RightHeader>>}
                 /\ DOMAIN target' = {"opened", "header", "body"} /\ Begins(target'.body, pic)
      BY <1>2, <3>2, CutBegins
    <3> QED
      BY <1>5, <3>1, <3>2 DEF CloseTargetLoses, Prefixes
  <2> QED
    BY <1>1, <1>2, <1>3, <2>1, <2>2 DEF FileWritten
<1> QED
  BY <1>4, <1>5

LEMMA OpenTargetWrites ==
  ASSUME NEW pic, FileWritten(pic), OpenTarget
  PROVE  FileWritten(pic)'
<1>1. /\ pc = "open_target" /\ pc' = "write_header"
      /\ UNCHANGED <<file, angle, rotated, heap, unsaved>>
      /\ target' = [opened |-> TRUE, header |-> <<>>, body |-> <<>>]
  BY DEF OpenTarget, inputs, images
<1>2. RotatedShows(pic) /\ angle \in AllowedAngles
  BY <1>1 DEF FileWritten
<1>3. RotatedShows(pic)' /\ RightHeader' = RightHeader /\ HasPixels(pic)
  BY <1>1, <1>2, StillShows DEF RotatedShows
<1>4. Begins(<<>>, pic)
  BY <1>3, NothingBegins
<1>5. /\ target'.opened /\ target'.header = <<>> /\ target'.body = <<>>
      /\ DOMAIN target' = {"opened", "header", "body"}
  BY <1>1
<1> QED
  BY <1>1, <1>2, <1>3, <1>4, <1>5 DEF FileWritten

\* Before the target is opened there is nothing to say of it.
LEMMA EarlyWrites ==
  ASSUME NEW pic, FileWritten(pic),
         \/ RejectArguments \/ OpenSource \/ OpenSourceFails
         \/ ReadHeader \/ ReadHeaderFails \/ SkipToPixelArray \/ SkipFails
         \/ CreateSource \/ CreateSourceFails \/ ReadRow \/ ReadPadding \/ ReadBodyFails
         \/ CloseSource \/ RotateFails \/ OpenTargetFails
  PROVE  FileWritten(pic)'
<1> USE DEF FileWritten, inputs, images
<1>1. CASE RejectArguments \/ OpenSourceFails
  BY <1>1 DEF RejectArguments, OpenSourceFails, Exit
<1>2. CASE OpenSource
  BY <1>2 DEF OpenSource
<1>3. CASE ReadHeader
  BY <1>3 DEF ReadHeader, ReadReturns
<1>4. CASE ReadHeaderFails \/ SkipFails \/ CreateSourceFails \/ ReadBodyFails
  BY <1>4 DEF ReadHeaderFails, SkipFails, CreateSourceFails, ReadBodyFails, ReadReturns
<1>5. CASE SkipToPixelArray \/ CreateSource
  BY <1>5 DEF SkipToPixelArray, CreateSource
<1>6. CASE ReadRow \/ ReadPadding
  BY <1>6 DEF ReadRow, ReadPadding, NextRow, ReadReturns
<1>7. CASE CloseSource
  BY <1>7 DEF CloseSource, Exit
<1>8. CASE RotateFails \/ OpenTargetFails
  BY <1>8 DEF RotateFails, OpenTargetFails, Exit
<1> QED
  BY <1>1, <1>2, <1>3, <1>4, <1>5, <1>6, <1>7, <1>8

\* The invariant of to_bmp: at each step the target holds the header and the rows it
\* should, for every file and angle.  Memory is so small that no field of a header
\* overflows.
THEOREM RowsWrittenAreTurned ==
  ASSUME HEADER_SIZE + 2 * MaxAlloc < INT_MOD
  PROVE  Spec => []FileWritten(TurnedPicture)
<1>1. Init => FileWritten(TurnedPicture)
  BY DEF Init, FileWritten
<1>2. IInv /\ FileRead /\ FileWritten(TurnedPicture) /\ [Next]_vars
        => FileWritten(TurnedPicture)'
  <2> SUFFICES ASSUME IInv, FileRead, FileWritten(TurnedPicture), [Next]_vars
               PROVE  FileWritten(TurnedPicture)'
    OBVIOUS
  <2>1. CASE AcceptArguments
    BY <2>1 DEF AcceptArguments, FileWritten, angle_is_valid
  <2>2. CASE [Next]_vars /\ ~AcceptArguments
    <3>1. PICK pic : pic = TurnedPicture
      OBVIOUS
    <3>2. FileWritten(pic)
      BY <3>1
    <3>3. UNCHANGED <<file, angle>>
      BY <2>2 DEF Next, Step, Exited, vars, inputs, images, RejectArguments, OpenSource,
           OpenSourceFails, ReadHeader, ReadHeaderFails, SkipToPixelArray, SkipFails,
           CreateSource, CreateSourceFails, ReadRow, ReadPadding, ReadBodyFails, CloseSource,
           Rotate, RotateFails, OpenTarget, OpenTargetFails, WriteHeader, WriteRow,
           WritePadding, WriteFails, CloseTarget, CloseTargetLoses, Finish
    <3>4. TurnedPicture' = pic /\ RightHeader' = RightHeader
      BY <3>1, <3>3, SamePicture
    <3>5. FileWritten(pic)'
      <4>1. CASE Rotate
        <5>1. pc = "rotate" /\ pc' = "open_target" /\ UNCHANGED <<target, angle>>
          BY <4>1 DEF Rotate
        <5>2. angle \in AllowedAngles /\ ~target.opened
              /\ DOMAIN target = {"opened", "header", "body"}
          BY <3>2, <5>1 DEF FileWritten
        <5>3. RotatedShows(pic)'
          BY <3>1, <4>1, <5>2, RotateShows
        <5> QED
          BY <5>1, <5>2, <5>3 DEF FileWritten
      <4>2. CASE OpenTarget
        BY <3>2, <4>2, OpenTargetWrites
      <4>3. CASE WriteHeader
        BY <3>2, <4>3, WriteHeaderWrites
      <4>4. CASE WriteRow
        BY <3>2, <4>4, WriteRowWrites
      <4>5. CASE WritePadding
        BY <3>2, <4>5, WritePaddingWrites
      <4>6. CASE WriteFails
        BY <3>2, <4>6, WriteFailsWrites
      <4>7. CASE CloseTarget \/ CloseTargetLoses
        BY <3>2, <4>7, ClosingWrites
      <4>8. CASE Exited \/ UNCHANGED vars
        BY <3>2, <3>4, <4>8
           DEF Exited, vars, inputs, images, FileWritten, RotatedShows
      <4> QED
        BY <2>2, <3>2, <4>1, <4>2, <4>3, <4>4, <4>5, <4>6, <4>7, <4>8, EarlyWrites
           DEF Next, Step
    <3> QED
      BY <3>4, <3>5
  <2> QED
    BY <2>1, <2>2
<1> QED
  BY <1>1, <1>2, TakenIsGivenBack, RowsReadAreTheFiles, PTL DEF Spec

\* Whatever fails and whenever, the target begins like the picture of the source, turned
\* by the angle: no pixel of another place, and no byte of memory nobody has written.
THEOREM TargetBegins ==
  ASSUME HEADER_SIZE + 2 * MaxAlloc < INT_MOD
  PROVE  Spec => []TargetIsBeginning
<1>1. FileWritten(TurnedPicture) => TargetIsBeginning
  BY BeginningIsPart DEF FileWritten, TargetIsBeginning
<1> QED
  BY <1>1, RowsWrittenAreTurned, PTL

\* Exit status 0 means that the target is the source turned clockwise by the angle, if
\* closing it saved what had been written: for every file and each of the angles.
THEOREM SuccessTurnsPicture ==
  ASSUME HEADER_SIZE + 2 * MaxAlloc < INT_MOD
  PROVE  Spec => []SuccessIsTurnedPicture
<1>1. FileWritten(TurnedPicture) => SuccessIsTurnedPicture
  BY BeginningIsPart DEF FileWritten, SuccessIsTurnedPicture, IsTurnedPicture
<1> QED
  BY <1>1, RowsWrittenAreTurned, PTL

-----------------------------------------------------------------------------
(* The test of a rotation *)

\* A test runs the transformer: all that holds of its runs holds in a test.
THEOREM TestsRunTransformer == TestSpec => Spec
<1>1. TestInit => Init
  BY DEF TestInit
<1>2. [TestNext]_<<vars, testVars>> => [Next]_vars
  BY DEF TestNext, Next, Transforms, TransformerFails, MatcherStarts, MatcherFailsToOpen,
         NextLine, CompareChunk, RowIsEqual, SkipPadding, SkipPaddingFails, TestEnded
<1> QED
  BY <1>1, <1>2, PTL DEF TestSpec, Spec

\* A target that has not been opened has no header.
Unopened == ~target.opened => target.header = <<>>

LEMMA UnopenedKeeps ==
  ASSUME NEW pic, FileWritten(pic), Unopened, [Next]_vars
  PROVE  Unopened'
<1>1. CASE OpenTarget
  BY <1>1 DEF OpenTarget, Unopened
<1>2. CASE WriteHeader \/ WriteRow \/ WritePadding \/ WriteFails \/ CloseTargetLoses
  <2>1. target.opened /\ DOMAIN target = {"opened", "header", "body"}
    BY <1>2 DEF WriteHeader, WriteRow, WritePadding, WriteFails, CloseTargetLoses, FileWritten
  <2>2. target'.opened
    BY <1>2, <2>1 DEF WriteHeader, WriteRow, WritePadding, WriteFails, CloseTargetLoses,
                      Append2Body
  <2> QED
    BY <2>2 DEF Unopened
<1>3. CASE UNCHANGED target
  BY <1>3 DEF Unopened
<1> QED
  BY <1>1, <1>2, <1>3
  DEF Next, Step, Exited, vars, AcceptArguments, RejectArguments, OpenSource, OpenSourceFails,
      ReadHeader, ReadHeaderFails, SkipToPixelArray, SkipFails, CreateSource,
      CreateSourceFails, ReadRow, ReadPadding, ReadBodyFails, CloseSource, Rotate,
      RotateFails, OpenTargetFails, CloseTarget

\* The end of row r's pixels, counted in items.
RowEnd(pic, r) == r * Items(pic) + pic.x

\* The matcher is at the same place in both files, and the target has all pixels of
\* the rows that it has passed.
Compared(pic) ==
  /\ test = "line" =>
       /\ line \in 0 .. pic.y
       /\ at = <<line * Items(pic), line * Items(pic)>>
       /\ line > 0 => RowEnd(pic, line - 1) <= Len(target.body)
  /\ test = "file_cmp" =>
       /\ line \in 0 .. pic.y - 1 /\ sz \in 0 .. pic.x
       /\ at = <<RowEnd(pic, line) - sz, RowEnd(pic, line) - sz>>
       /\ sz < pic.x => RowEnd(pic, line) - sz <= Len(target.body)
  /\ test = "skip" =>
       /\ line \in 0 .. pic.y - 1
       /\ at = <<RowEnd(pic, line), RowEnd(pic, line)>>
       /\ RowEnd(pic, line) <= Len(target.body)
  /\ test = "passed" => RowEnd(pic, pic.y - 1) <= Len(target.body)

Matching == test \in {"line", "file_cmp", "skip", "passed"}

Comparing ==
  /\ test = "transform" => line = 0 /\ at = <<0, 0>>
  /\ Matching => pc = "exit" /\ target.opened /\ target.header = <<RightHeader>>
  /\ Matching /\ expected = RightFile /\ ~misread => Compared(TurnedPicture)

\* What fread gives of a file, when it does not fail.
LEMMA RestIs ==
  ASSUME NEW S, NEW s \in Seq(S), NEW p \in Nat, NEW k \in Nat \ {0}
  PROVE  Len(Rest(s, p, k)) = k <=> p + k <= Len(s)
<1>1. CASE p >= Len(s)
  BY <1>1 DEF Rest
<1>2. CASE p < Len(s)
  <2>1. PICK m \in Nat : m = Smaller(k, Len(s) - p)
    BY <1>2 DEF Smaller
  <2>2. m <= k /\ p + m <= Len(s) /\ (m = k <=> p + k <= Len(s)) /\ m >= 1
    BY <1>2, <2>1 DEF Smaller
  <2>3. Rest(s, p, k) = SubSeq(s, p + 1, p + m)
    BY <1>2, <2>1 DEF Rest
  <2>4. Len(SubSeq(s, p + 1, p + m)) = m
    BY <1>2, <2>2
  <2> QED
    BY <2>2, <2>3, <2>4
<1> QED
  BY <1>1, <1>2

\* The matcher skips the padding of the format.
LEMMA MatcherPadding ==
  ASSUME NEW w \in Nat
  PROVE  matcher_padding(w) = RowPadding(w)
<1>1. get_padding(w) = w % 4
  BY DEF get_padding, PIXEL
<1> QED
  BY <1>1, PaddingCompletesRow DEF matcher_padding

\* A chunk that was compared and found equal is in the target.
LEMMA ChunkIsThere ==
  ASSUME NEW pic, HasPixels(pic), NEW b, Begins(b, pic),
         NEW a \in Nat, NEW k \in Nat \ {0}, a + k <= Items(pic) * pic.y,
         Rest(b, a, k) = Rest(Body(pic), a, k)
  PROVE  a + k <= Len(b) /\ Len(Rest(b, a, k)) = k
<1> DEFINE S == Contents(pic)
<1>1. b \in Seq(S)
  BY DEF Begins
<1>2. Body(pic) \in Seq(S) /\ Len(Body(pic)) = Items(pic) * pic.y
  <2>1. PICK n \in Nat : n = Items(pic) * pic.y
    BY TotalItems
  <2>2. Body(pic) \in [1 .. n -> S]
    BY <2>1 DEF Body, Contents, Items
  <2> QED
    BY <2>1, <2>2, FunctionIsSequence
<1> HIDE DEF S
<1>3. Len(Rest(Body(pic), a, k)) = k
  BY <1>2, RestIs
<1>4. Len(Rest(b, a, k)) = k <=> a + k <= Len(b)
  BY <1>1, RestIs
<1> QED
  BY <1>3, <1>4

LEMMA CompareChunkKeeps ==
  ASSUME NEW pic, HasPixels(pic), Begins(target.body, pic), Compared(pic),
         expected.body = Body(pic), CompareChunk, ~misread'
  PROVE  Compared(pic)'
<1>1. PICK k : k = Smaller(CMP_BUFFER_SIZE, sz)
  OBVIOUS
<1>2. PICK full1, full2 : full1 = Rest(target.body, at[1], k) /\ full2 = Rest(expected.body, at[2], k)
  OBVIOUS
<1>3. /\ test = "file_cmp" /\ sz > 0 /\ UNCHANGED <<target, line, expected>>
      /\ at' = <<at[1] + Len(full1), at[2] + Len(full2)>>
      /\ CASE cmp_chunk(full1, full2) = "CMP_INT_DIFF" -> test' = "failed" /\ UNCHANGED sz
           [] cmp_chunk(full1, full2) = "CMP_INT_EQ" -> test' = "skip" /\ UNCHANGED sz
           [] OTHER -> sz' = sz - CMP_BUFFER_SIZE /\ UNCHANGED test
  BY <1>1, <1>2 DEF CompareChunk, vars
<1>4. /\ line \in 0 .. pic.y - 1 /\ sz \in 0 .. pic.x
      /\ at = <<RowEnd(pic, line) - sz, RowEnd(pic, line) - sz>>
  BY <1>3 DEF Compared
<1>5. /\ pic.x \in Nat \ {0} /\ pic.y \in Nat \ {0} /\ Items(pic) \in Nat \ {0}
      /\ pic.x <= Items(pic) /\ CMP_BUFFER_SIZE \in Nat \ {0}
  BY TotalItems, BufferAssumption
<1>6. PICK e \in Nat : /\ e = RowEnd(pic, line) /\ pic.x <= e
                       /\ e <= Items(pic) * pic.y
  <2>1. line * Items(pic) \in Nat /\ line * Items(pic) + Items(pic) <= Items(pic) * pic.y
    BY <1>4, <1>5, RowInside
  <2>2. Items(pic) * pic.y \in Nat
    BY TotalItems
  <2> QED
    BY <1>5, <2>1, <2>2 DEF RowEnd
<1>7. /\ k \in Nat \ {0} /\ k <= sz /\ k <= CMP_BUFFER_SIZE
      /\ k # CMP_BUFFER_SIZE => k = sz
  BY <1>1, <1>3, <1>4, <1>5 DEF Smaller
<1>8. PICK a \in Nat : a = e - sz /\ a + k <= e /\ at = <<a, a>> /\ sz \in Nat
  BY <1>4, <1>5, <1>6, <1>7
<1>9. CASE full1 # full2
  BY <1>3, <1>9 DEF Compared, cmp_chunk
<1>10. CASE full1 = full2
  <2>1. a + k <= Len(target.body) /\ Len(full1) = k
    <3>1. Rest(target.body, a, k) = Rest(Body(pic), a, k)
      BY <1>2, <1>8, <1>10
    <3>2. a + k <= Items(pic) * pic.y
      BY <1>5, <1>6, <1>7, <1>8, TotalItems
    <3> QED
      BY <1>2, <1>7, <1>8, <3>1, <3>2, ChunkIsThere
  <2>2. at' = <<a + k, a + k>>
    BY <1>3, <1>8, <1>10, <2>1
  <2>3. CASE k = CMP_BUFFER_SIZE
    <3>1. test' = "file_cmp" /\ sz' = sz - k
      BY <1>3, <1>10, <2>1, <2>3 DEF cmp_chunk
    <3>2. sz' \in 0 .. pic.x /\ a + k = e - sz'
      BY <1>4, <1>5, <1>6, <1>7, <1>8, <3>1
    <3>3. RowEnd(pic, line') = e
      BY <1>3, <1>6
    <3> QED
      BY <1>3, <1>4, <2>1, <2>2, <3>1, <3>2, <3>3 DEF Compared
  <2>4. CASE k # CMP_BUFFER_SIZE
    <3>1. test' = "skip"
      BY <1>3, <1>10, <2>1, <2>4 DEF cmp_chunk
    <3>2. a + k = e
      BY <1>6, <1>7, <1>8, <2>4
    <3> QED
      BY <1>3, <1>4, <1>6, <2>1, <2>2, <3>1, <3>2 DEF Compared
  <2> QED
    BY <2>3, <2>4
<1> QED
  BY <1>9, <1>10

LEMMA OtherMatchingKeeps ==
  ASSUME NEW pic, HasPixels(pic), Compared(pic),
         target.header[1].biHeight = pic.y, target.header[1].biWidth = pic.x,
         NextLine \/ RowIsEqual \/ SkipPadding
  PROVE  Compared(pic)'
<1>1. /\ pic.x \in Nat \ {0} /\ pic.y \in Nat \ {0} /\ Items(pic) \in Nat \ {0}
      /\ Items(pic) = pic.x + RowPadding(pic.x)
  BY TotalItems DEF Items
<1>2. CASE NextLine
  <2>1. /\ test = "line" /\ line \in 0 .. pic.y
        /\ at = <<line * Items(pic), line * Items(pic)>>
        /\ line > 0 => RowEnd(pic, line - 1) <= Len(target.body)
    BY <1>2 DEF NextLine, Compared
  <2>2. UNCHANGED <<target, line, at>>
    BY <1>2 DEF NextLine, vars
  <2>3. CASE line < pic.y
    <3>1. test' = "file_cmp" /\ sz' = pic.x
      BY <1>2, <2>3 DEF NextLine
    <3>2. RowEnd(pic, line) - pic.x = line * Items(pic)
      <4>1. line * Items(pic) \in Nat
        BY <1>1, <2>1
      <4> QED
        BY <1>1, <4>1 DEF RowEnd
    <3> QED
      BY <1>1, <2>1, <2>2, <2>3, <3>1, <3>2 DEF Compared
  <2>4. CASE ~(line < pic.y)
    <3>1. test' = "passed" /\ line = pic.y
      BY <1>1, <1>2, <2>1, <2>4 DEF NextLine
    <3> QED
      BY <1>1, <2>1, <2>2, <3>1 DEF Compared
  <2> QED
    BY <2>3, <2>4
<1>3. CASE RowIsEqual
  <2>1. /\ test = "file_cmp" /\ sz = 0 /\ test' = "skip" /\ UNCHANGED <<target, line, at>>
    BY <1>3 DEF RowIsEqual, vars
  <2>2. /\ line \in 0 .. pic.y - 1
        /\ at = <<RowEnd(pic, line) - sz, RowEnd(pic, line) - sz>>
        /\ sz < pic.x => RowEnd(pic, line) - sz <= Len(target.body)
    BY <2>1 DEF Compared
  <2>3. RowEnd(pic, line) - sz = RowEnd(pic, line)
    <3>1. line * Items(pic) \in Nat
      BY <1>1, <2>2
    <3> QED
      BY <1>1, <2>1, <3>1 DEF RowEnd
  <2> QED
    BY <1>1, <2>1, <2>2, <2>3 DEF Compared
<1>4. CASE SkipPadding
  <2>1. /\ test = "skip" /\ test' = "line" /\ line' = line + 1 /\ UNCHANGED target
        /\ at' = [f \in {1, 2} |-> at[f] + matcher_padding(pic.x)]
    BY <1>4 DEF SkipPadding, vars
  <2>2. /\ line \in 0 .. pic.y - 1
        /\ at = <<RowEnd(pic, line), RowEnd(pic, line)>>
        /\ RowEnd(pic, line) <= Len(target.body)
    BY <2>1 DEF Compared
  <2>3. matcher_padding(pic.x) = RowPadding(pic.x)
    BY <1>1, MatcherPadding
  <2>4. line' * Items(pic) = RowEnd(pic, line) + RowPadding(pic.x)
    <3>1. (line + 1) * Items(pic) = line * Items(pic) + Items(pic) /\ line * Items(pic) \in Nat
      BY <1>1, <2>2
    <3>2. RowPadding(pic.x) \in Nat
      <4>1. RowPadding(pic.x) = get_padding(pic.x)
        BY <1>1, PaddingCompletesRow
      <4> QED
        BY <4>1, TotalItems
    <3> QED
      BY <1>1, <2>1, <3>1, <3>2 DEF RowEnd
  <2>5. at' = <<line' * Items(pic), line' * Items(pic)>>
    BY <2>1, <2>2, <2>3, <2>4
  <2>6. line' \in 0 .. pic.y /\ line' - 1 = line
    BY <1>1, <2>1, <2>2
  <2> QED
    BY <2>1, <2>2, <2>5, <2>6 DEF Compared
<1> QED
  BY <1>2, <1>3, <1>4

LEMMA ComparingKeeps ==
  ASSUME FileWritten(TurnedPicture), Unopened, Comparing, [TestNext]_<<vars, testVars>>
  PROVE  Comparing'
<1>1. CASE Transforms
  <2>1. UNCHANGED <<test, expected, at, line, sz, misread>>
    BY <1>1 DEF Transforms, testVars
  <2>2. pc # "exit"
    BY <1>1 DEF Transforms, Step, AcceptArguments, RejectArguments, OpenSource,
           OpenSourceFails, ReadHeader, ReadHeaderFails, SkipToPixelArray, SkipFails,
           CreateSource, CreateSourceFails, ReadRow, ReadPadding, ReadBodyFails, CloseSource,
           Rotate, RotateFails, OpenTarget, OpenTargetFails, WriteHeader, WriteRow,
           WritePadding, WriteFails, CloseTarget, CloseTargetLoses
  <2>3. ~Matching
    BY <2>2 DEF Comparing
  <2> QED
    BY <2>1, <2>3 DEF Comparing, Matching
<1>2. CASE test' = "failed"
  BY <1>2 DEF Comparing, Matching
<1>3. CASE UNCHANGED vars /\ ~(test' = "failed")
  <2>1. UNCHANGED <<pc, target, file, angle>>
    BY <1>3 DEF vars, inputs
  <2>2. PICK pic : pic = TurnedPicture
    OBVIOUS
  <2>3. TurnedPicture' = pic /\ RightHeader' = RightHeader /\ RightFile' = RightFile
    BY <2>1, <2>2, SamePicture DEF RightFile
  <2>4. target.opened => /\ HasPixels(pic) /\ Begins(target.body, pic)
                         /\ target.header \in {<<>>, <<RightHeader>>}
    BY <2>2 DEF FileWritten
  <2>5. RightHeader.biWidth = pic.x /\ RightHeader.biHeight = pic.y /\ RightFile.body = Body(pic)
    BY <2>2 DEF RightHeader, RightFile
  <2>6. Matching => /\ target.header[1].biWidth = pic.x /\ target.header[1].biHeight = pic.y
                    /\ pc = "exit" /\ target.opened /\ target.header = <<RightHeader>>
    BY <2>5 DEF Comparing
  <2>7. CASE MatcherStarts
    <3>1. test' = "line" /\ test = "transform" /\ pc = "exit" /\ target.header # <<>>
          /\ UNCHANGED <<at, line>>
      BY <1>3, <2>7 DEF MatcherStarts
    <3>2. target.opened /\ target.header = <<RightHeader>> /\ HasPixels(pic)
      BY <2>4, <3>1 DEF Unopened
    <3>3. line = 0 /\ at = <<0, 0>>
      BY <3>1 DEF Comparing
    <3>4. pic.y \in Nat /\ 0 * Items(pic) = 0
      BY <3>2, TotalItems
    <3>5. Compared(pic)'
      BY <3>1, <3>3, <3>4 DEF Compared
    <3> QED
      BY <2>1, <2>3, <3>1, <3>2, <3>5 DEF Comparing
  <2>8. CASE NextLine \/ RowIsEqual \/ SkipPadding
    <3>1. Matching /\ test' # "transform" /\ UNCHANGED <<expected, misread>>
      BY <2>8 DEF NextLine, RowIsEqual, SkipPadding, Matching
    <3>2. expected = RightFile /\ ~misread => Compared(pic)'
      BY <2>2, <2>4, <2>6, <2>8, <3>1, OtherMatchingKeeps DEF Comparing
    <3> QED
      BY <2>1, <2>3, <2>6, <3>1, <3>2 DEF Comparing
  <2>9. CASE CompareChunk
    <3>1. Matching /\ test' # "transform" /\ UNCHANGED expected
      BY <2>9 DEF CompareChunk, Matching
    <3>2. ~misread' => ~misread
      BY <2>9 DEF CompareChunk
    <3>3. expected = RightFile /\ ~misread' => Compared(pic)'
      BY <2>2, <2>4, <2>5, <2>6, <2>9, <3>1, <3>2, CompareChunkKeeps DEF Comparing
    <3> QED
      BY <2>1, <2>3, <2>6, <3>1, <3>3 DEF Comparing
  <2>10. CASE UNCHANGED testVars
    BY <2>1, <2>2, <2>3, <2>10 DEF testVars, Comparing, Matching, Compared
  <2> QED
    BY <1>3, <2>7, <2>8, <2>9, <2>10
    DEF TestNext, Transforms, TransformerFails, MatcherFailsToOpen, SkipPaddingFails, TestEnded
<1> QED
  BY <1>1, <1>2, <1>3
  DEF TestNext, TransformerFails, MatcherStarts, MatcherFailsToOpen, NextLine, CompareChunk,
      RowIsEqual, SkipPadding, SkipPaddingFails, TestEnded

\* A test that passes with the right file as its expectation shows that every pixel has
\* arrived: the matcher misses nothing but padding behind the last row, unless it has
\* itself failed to read.  For every file, angle and buffer of the matcher.
THEOREM PassedTestsTurn ==
  ASSUME HEADER_SIZE + 2 * MaxAlloc < INT_MOD
  PROVE  TestSpec => []PassMeansTurned
<1>1. Spec => []FileWritten(TurnedPicture)
  BY RowsWrittenAreTurned
<1>2. TestInit => Unopened /\ Comparing
  BY DEF TestInit, Init, Unopened, Comparing, Matching
<1>3. /\ FileWritten(TurnedPicture) /\ Unopened /\ Comparing
      /\ [TestNext]_<<vars, testVars>>
      => Unopened' /\ Comparing'
  <2> SUFFICES ASSUME FileWritten(TurnedPicture), Unopened, Comparing,
                      [TestNext]_<<vars, testVars>>
               PROVE  Unopened' /\ Comparing'
    OBVIOUS
  <2>1. [Next]_vars
    BY DEF TestNext, Next, Transforms, TransformerFails, MatcherStarts, MatcherFailsToOpen,
           NextLine, CompareChunk, RowIsEqual, SkipPadding, SkipPaddingFails, TestEnded
  <2> QED
    BY <2>1, UnopenedKeeps, ComparingKeeps
<1>4. FileWritten(TurnedPicture) /\ Comparing => PassMeansTurned
  <2> SUFFICES ASSUME FileWritten(TurnedPicture), Comparing,
                      test = "passed", expected = RightFile, ~misread
               PROVE  /\ target.header = <<RightHeader>>
                      /\ Len(target.body) >= Len(RightFile.body) - RowPadding(TurnedPicture.x)
                      /\ target.body = SubSeq(RightFile.body, 1, Len(target.body))
    BY DEF PassMeansTurned
  <2>1. PICK pic : pic = TurnedPicture
    OBVIOUS
  <2>2. target.opened /\ target.header = <<RightHeader>> /\ Compared(pic)
    BY <2>1 DEF Comparing, Matching
  <2>3. HasPixels(pic) /\ Begins(target.body, pic)
    BY <2>1, <2>2 DEF FileWritten
  <2>4. RightFile.body = Body(pic)
    BY <2>1 DEF RightFile
  <2>5. /\ Len(Body(pic)) = Items(pic) * pic.y
        /\ target.body = SubSeq(Body(pic), 1, Len(target.body))
    BY <2>3, BeginningIsPart
  <2>6. RowEnd(pic, pic.y - 1) = Items(pic) * pic.y - RowPadding(pic.x)
    <3>1. /\ pic.x \in Nat /\ pic.y \in Nat /\ Items(pic) \in Nat /\ RowPadding(pic.x) \in Nat
          /\ Items(pic) = pic.x + RowPadding(pic.x)
      <4>1. /\ pic.x \in Nat /\ pic.y \in Nat /\ Items(pic) \in Nat /\ get_padding(pic.x) \in Nat
            /\ Items(pic) = pic.x + get_padding(pic.x)
        BY <2>3, TotalItems
      <4>2. RowPadding(pic.x) = get_padding(pic.x)
        BY <4>1, PaddingCompletesRow
      <4> QED
        BY <4>1, <4>2
    <3>2. (pic.y - 1) * Items(pic) = Items(pic) * pic.y - Items(pic)
          /\ (pic.y - 1) * Items(pic) \in Int
      BY <3>1
    <3>3. Items(pic) * pic.y \in Nat
      BY <3>1
    <3> QED
      BY <3>1, <3>2, <3>3 DEF RowEnd
  <2>7. RowEnd(pic, pic.y - 1) <= Len(target.body)
    BY <2>2 DEF Compared
  <2> QED
    BY <2>1, <2>2, <2>4, <2>5, <2>6, <2>7
<1> QED
  BY <1>1, <1>2, <1>3, <1>4, TestsRunTransformer, PTL DEF TestSpec
=============================================================================
