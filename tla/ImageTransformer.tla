-------------------------- MODULE ImageTransformer --------------------------
(***************************************************************************)
(* One run of the image transformer of laboratory work 3: main, from_bmp,  *)
(* image_rotate and to_bmp over the source file, two image buffers and the *)
(* target file.  Every call that may fail, fails in some behaviour.        *)
(***************************************************************************)
EXTENDS Image, Picture, Sequences

CONSTANTS
  INT_MOD,      \* 2^32: values of an int
  LONG_MOD,     \* 2^64: values of a long and of a size_t
  MaxAlloc,     \* the largest request malloc can meet
  Arguments,    \* what the third argument may be: a number, or one of ...
  NotANumber,   \* ... a text that is not a decimal number through to its end
  Missing,      \* ... no text: argc is not 4
  SourceFiles   \* the files a run may find under the first argument

ASSUME WidthAssumption ==
  /\ INT_MOD \in Nat \ {0} /\ INT_MOD % 2 = 0
  /\ LONG_MOD = INT_MOD * INT_MOD

\* Memory is far smaller than what a size_t can count.
ASSUME MemoryAssumption == MaxAlloc \in Nat /\ MaxAlloc < LONG_MOD \div 4

\* A file is what read_header looks at in its header, and its length.
FileType ==
  [bfType : {"BM", "other"}, biBitCount : Nat, fixed : BOOLEAN, bOffBits : Nat,
   biWidth : Int, biHeight : Int, length : Nat]

ASSUME InputAssumption ==
  /\ Arguments \ {NotANumber, Missing} \subseteq Int
  /\ SourceFiles \subseteq FileType
  /\ \A f \in SourceFiles :
       {f.biWidth, f.biHeight} \subseteq -(INT_MOD \div 2) .. INT_MOD \div 2 - 1

VARIABLES
  pc,          \* what main is about to do
  argument,    \* argv[3]
  angle,
  file,        \* the source file
  streams,     \* streams that are open
  pos,         \* position in the source
  row,         \* rows done by from_bmp or to_bmp
  source,      \* struct image: size, and whether data is not NULL
  rotated,
  heap,        \* the buffers malloc has given and free has not got back
  target,      \* the target file: has it been opened, its header and the rest
  ioStatus,    \* what from_bmp or to_bmp returned
  unsaved,     \* history: fclose failed to write the rest of the target
  exitStatus

vars == <<pc, argument, angle, file, streams, pos, row, source, rotated, heap,
          target, ioStatus, unsaved, exitStatus>>
inputs == <<argument, file>>
images == <<source, rotated, heap>>

NoImage == [size |-> [x |-> 0, y |-> 0], data |-> FALSE]
NoBuffers == [b \in {} |-> [i \in {} |-> Garbage]]
AllowedAngles == {0, 90, -90, 180, -180, 270, -270}

-----------------------------------------------------------------------------
(* Helpers *)

\* strtol, whose result saturates, and the conversion of a long to an int.
strtol(v) ==
  CASE v < -(LONG_MOD \div 2)     -> -(LONG_MOD \div 2)
    [] v > (LONG_MOD \div 2) - 1 -> (LONG_MOD \div 2) - 1
    [] OTHER                    -> v
AsInt(v) == ((v + INT_MOD \div 2) % INT_MOD) - INT_MOD \div 2

angle_is_valid(a) == a \in AllowedAngles

\* file.fixed: biSize, biPlanes and biCompression are what they must be.
header_is_valid(f) ==
  f.fixed /\ f.biWidth > 0 /\ f.biHeight # 0 /\ f.bOffBits >= HEADER_SIZE

HeaderStatus(f) ==
  IF f.bfType # "BM" THEN "READ_INVALID_SIGNATURE"
  ELSE IF f.biBitCount # 24 THEN "READ_INVALID_BITS"
  ELSE IF ~header_is_valid(f) THEN "READ_INVALID_HEADER"
  ELSE "READ_OK"

\* The height from_bmp works with.  Negating the least int is undefined: builds
\* wrap it and extend its sign, or take it for a positive number.
HeightsOf(h) ==
  IF h > 0 THEN {h}
  ELSE IF h = -(INT_MOD \div 2) THEN {INT_MOD \div 2, LONG_MOD - (INT_MOD \div 2)}
  ELSE {-h}

\* image_create asks malloc for so many bytes.
BytesOf(s) == (s.x * s.y * PIXEL) % LONG_MOD

\* Variant: rows of a file with negative height are taken to go up.
TargetRow_always_up(h, height, r) == height - 1 - r

\* Variant: the last row is height.
TargetRow_off_by_one(h, height, r) == IF h > 0 THEN height - r ELSE r

TargetRow(h, height, r) == IF h > 0 THEN height - 1 - r ELSE r

\* The header to_bmp writes for an image of size s.
bmp_header_create(s) ==
  [biWidth |-> AsInt(s.x), biHeight |-> AsInt(s.y), bOffBits |-> HEADER_SIZE,
   bfileSize |-> (HEADER_SIZE + (s.x * PIXEL + get_padding(s.x)) * s.y) % INT_MOD]

\* The pixels of row y in the buffer b, for an image of size s.
RowOf(b, s, y) == [i \in 1 .. s.x |-> heap[b][y * s.x + (i - 1)]]

Zeros(n) == [i \in 1 .. n |-> 0]
Prefixes(s) == {SubSeq(s, 1, k) : k \in 0 .. Len(s)}
Append2Body(t, items) == [t EXCEPT !.body = @ \o items]

\* image_destroy: the buffers go back; the images are the caller's to forget.
Free(B) == heap' = [b \in DOMAIN heap \ B |-> heap[b]]

Exit(status) == pc' = "exit" /\ exitStatus' = status

-----------------------------------------------------------------------------
Init ==
  /\ pc = "arguments"
  /\ argument \in Arguments
  /\ angle = 0
  /\ file \in SourceFiles
  /\ streams = {}
  /\ pos = 0
  /\ row = 0
  /\ source = NoImage
  /\ rotated = NoImage
  /\ heap = NoBuffers
  /\ target = [opened |-> FALSE, header |-> <<>>, body |-> <<>>]
  /\ ioStatus = "none"
  /\ unsaved = FALSE
  /\ exitStatus = -1

\* argc, parse_angle and angle_is_valid.
AcceptArguments ==
  /\ pc = "arguments"
  /\ argument \notin {Missing, NotANumber}
  /\ angle_is_valid(AsInt(strtol(argument)))
  /\ angle' = AsInt(strtol(argument))
  /\ pc' = "open_source"
  /\ UNCHANGED <<inputs, streams, pos, row, images, target, ioStatus, unsaved,
                 exitStatus>>

RejectArguments ==
  /\ pc = "arguments"
  /\ argument \notin {Missing, NotANumber} => ~angle_is_valid(AsInt(strtol(argument)))
  /\ Exit(1)
  /\ UNCHANGED <<inputs, angle, streams, pos, row, images, target, ioStatus, unsaved>>

OpenSource ==
  /\ pc = "open_source"
  /\ streams' = streams \union {"source"}
  /\ pc' = "read_header"
  /\ UNCHANGED <<inputs, angle, pos, row, images, target, ioStatus, unsaved, exitStatus>>

OpenSourceFails ==
  /\ pc = "open_source"
  /\ Exit(1)
  /\ UNCHANGED <<inputs, angle, streams, pos, row, images, target, ioStatus, unsaved>>

-----------------------------------------------------------------------------
(* from_bmp *)

\* from_bmp returns; main closes the source whatever the status is.
ReadReturns(status) == ioStatus' = status /\ pc' = "close_source"

\* read_header.
ReadHeader ==
  /\ pc = "read_header"
  /\ file.length >= HEADER_SIZE
  /\ pos' = HEADER_SIZE
  /\ IF HeaderStatus(file) = "READ_OK"
     THEN pc' = "skip" /\ UNCHANGED ioStatus
     ELSE ReadReturns(HeaderStatus(file))
  /\ UNCHANGED <<inputs, angle, streams, row, images, target, unsaved, exitStatus>>

ReadHeaderFails ==
  /\ pc = "read_header"
  /\ ReadReturns("READ_IO_ERROR")
  /\ UNCHANGED <<inputs, angle, streams, pos, row, images, target, unsaved, exitStatus>>

\* fseek goes past the end of a file without complaint.
SkipToPixelArray ==
  /\ pc = "skip"
  /\ pos' = file.bOffBits
  /\ pc' = "create_source"
  /\ UNCHANGED <<inputs, angle, streams, row, images, target, ioStatus, unsaved, exitStatus>>

SkipFails ==
  /\ pc = "skip"
  /\ file.bOffBits # HEADER_SIZE
  /\ ReadReturns("READ_IO_ERROR")
  /\ UNCHANGED <<inputs, angle, streams, pos, row, images, target, unsaved, exitStatus>>

\* image_create for what the header says.
CreateSource ==
  /\ pc = "create_source"
  /\ \E height \in HeightsOf(file.biHeight) :
       LET s == [x |-> file.biWidth, y |-> height]
       IN  /\ BytesOf(s) <= MaxAlloc
           /\ source' = [size |-> s, data |-> TRUE]
           /\ heap' = [b \in {"source"} |-> [i \in Indices(s) |-> Garbage]]
  /\ row' = 0
  /\ pc' = "read_row"
  /\ UNCHANGED <<inputs, angle, streams, pos, rotated, target, ioStatus, unsaved, exitStatus>>

CreateSourceFails ==
  /\ pc = "create_source"
  /\ source' = NoImage
  /\ ReadReturns("READ_MEMORY_ERROR")
  /\ UNCHANGED <<inputs, angle, streams, pos, row, rotated, heap, target, unsaved, exitStatus>>

\* Another row follows, or from_bmp is done.
NextRow ==
  /\ row' = row + 1
  /\ IF row + 1 < source.size.y
     THEN pc' = "read_row" /\ UNCHANGED ioStatus
     ELSE ReadReturns("READ_OK")

\* fread puts a row where it belongs in the buffer.
ReadRow ==
  LET width == source.size.x
      first == TargetRow(file.biHeight, source.size.y, row) * width
  IN  /\ pc = "read_row"
      /\ pos + PIXEL * width <= file.length
      /\ heap' = [heap EXCEPT !["source"] =
                    [i \in DOMAIN @ |-> IF i \in first .. first + width - 1
                                        THEN pos + PIXEL * (i - first) ELSE @[i]]]
      /\ pos' = pos + PIXEL * width
      /\ IF get_padding(width) > 0
         THEN pc' = "read_padding" /\ UNCHANGED <<row, ioStatus>>
         ELSE NextRow
      /\ UNCHANGED <<inputs, angle, streams, source, rotated, target, unsaved, exitStatus>>

\* Variant: the padding is skipped with fseek, which passes the end of the file.
ReadPadding_by_seeking ==
  /\ pc = "read_padding"
  /\ pos' = pos + get_padding(source.size.x)
  /\ NextRow
  /\ UNCHANGED <<inputs, angle, streams, images, target, unsaved, exitStatus>>

ReadPadding ==
  /\ pc = "read_padding"
  /\ pos + get_padding(source.size.x) <= file.length
  /\ pos' = pos + get_padding(source.size.x)
  /\ NextRow
  /\ UNCHANGED <<inputs, angle, streams, images, target, unsaved, exitStatus>>

\* Variant: from_bmp returns without freeing what it has read so far.
ReadBodyFails_leaks ==
  /\ pc \in {"read_row", "read_padding"}
  /\ source' = NoImage
  /\ ReadReturns("READ_INVALID_BODY")
  /\ UNCHANGED <<inputs, angle, streams, pos, row, rotated, heap, target, unsaved,
                 exitStatus>>

\* A short read of a row or of its padding: the image is destroyed.
ReadBodyFails ==
  /\ pc \in {"read_row", "read_padding"}
  /\ source' = NoImage
  /\ Free({"source"})
  /\ ReadReturns("READ_INVALID_BODY")
  /\ UNCHANGED <<inputs, angle, streams, pos, row, rotated, target, unsaved, exitStatus>>

CloseSource ==
  /\ pc = "close_source"
  /\ streams' = streams \ {"source"}
  /\ IF ioStatus = "READ_OK" THEN pc' = "rotate" /\ UNCHANGED exitStatus ELSE Exit(1)
  /\ UNCHANGED <<inputs, angle, pos, row, images, target, ioStatus, unsaved>>

-----------------------------------------------------------------------------
(* image_rotate *)

Rotate ==
  LET t == rotated_size(angle, source.size)
  IN  /\ pc = "rotate"
      /\ BytesOf(t) <= MaxAlloc
      /\ rotated' = [size |-> t, data |-> TRUE]
      /\ heap' = [b \in {"source", "rotated"} |->
                    IF b = "source" THEN heap[b]
                    ELSE RotatedData(angle, source.size, heap["source"])]
      /\ pc' = "open_target"
      /\ UNCHANGED <<inputs, angle, streams, pos, row, source, target, ioStatus, unsaved,
                     exitStatus>>

RotateFails ==
  /\ pc = "rotate"
  /\ source' = NoImage
  /\ Free({"source"})
  /\ Exit(1)
  /\ UNCHANGED <<inputs, angle, streams, pos, row, rotated, target, ioStatus, unsaved>>

DestroyBoth ==
  source' = NoImage /\ rotated' = NoImage /\ Free({"rotated", "source"})

-----------------------------------------------------------------------------
(* to_bmp *)

\* fopen with mode "wb" empties a file that is there.
OpenTarget ==
  /\ pc = "open_target"
  /\ streams' = streams \union {"target"}
  /\ target' = [opened |-> TRUE, header |-> <<>>, body |-> <<>>]
  /\ pc' = "write_header"
  /\ UNCHANGED <<inputs, angle, pos, row, images, ioStatus, unsaved, exitStatus>>

OpenTargetFails ==
  /\ pc = "open_target"
  /\ DestroyBoth
  /\ Exit(1)
  /\ UNCHANGED <<inputs, angle, streams, pos, row, target, ioStatus, unsaved>>

WriteReturns(status) == ioStatus' = status /\ pc' = "close_target"

WriteHeader ==
  /\ pc = "write_header"
  /\ target' = [target EXCEPT !.header = <<bmp_header_create(rotated.size)>>]
  /\ row' = 0
  /\ pc' = "write_row"
  /\ UNCHANGED <<inputs, angle, streams, pos, images, ioStatus, unsaved, exitStatus>>

\* Variant: the last row is not written.
NextRowWritten_one_short ==
  /\ row' = row + 1
  /\ IF row + 2 < rotated.size.y
     THEN pc' = "write_row" /\ UNCHANGED ioStatus
     ELSE WriteReturns("WRITE_OK")

NextRowWritten ==
  /\ row' = row + 1
  /\ IF row + 1 < rotated.size.y
     THEN pc' = "write_row" /\ UNCHANGED ioStatus
     ELSE WriteReturns("WRITE_OK")

WrittenRow == RowOf("rotated", rotated.size, rotated.size.y - 1 - row)

WriteRow ==
  /\ pc = "write_row"
  /\ target' = Append2Body(target, WrittenRow)
  /\ IF get_padding(rotated.size.x) > 0
     THEN pc' = "write_padding" /\ UNCHANGED <<row, ioStatus>>
     ELSE NextRowWritten
  /\ UNCHANGED <<inputs, angle, streams, pos, images, unsaved, exitStatus>>

WritePadding ==
  /\ pc = "write_padding"
  /\ target' = Append2Body(target, Zeros(get_padding(rotated.size.x)))
  /\ NextRowWritten
  /\ UNCHANGED <<inputs, angle, streams, pos, images, unsaved, exitStatus>>

\* fwrite writes less than it was asked to.
WriteFails ==
  /\ \/ pc = "write_header" /\ UNCHANGED target
     \/ pc = "write_row"
        /\ \E items \in Prefixes(WrittenRow) : target' = Append2Body(target, items)
     \/ pc = "write_padding"
        /\ \E items \in Prefixes(Zeros(get_padding(rotated.size.x))) :
             target' = Append2Body(target, items)
  /\ WriteReturns("WRITE_ERROR")
  /\ UNCHANGED <<inputs, angle, streams, pos, row, images, unsaved, exitStatus>>

\* main closes the target, frees both images and exits by to_bmp's status.
Finish ==
  /\ streams' = streams \ {"target"}
  /\ DestroyBoth
  /\ Exit(IF ioStatus = "WRITE_OK" THEN 0 ELSE 1)
  /\ UNCHANGED <<inputs, angle, pos, row, ioStatus>>

CloseTarget ==
  /\ pc = "close_target"
  /\ Finish
  /\ UNCHANGED <<target, unsaved>>

\* fclose cannot write what stdio still holds; its result is not looked at.
CloseTargetLoses ==
  /\ pc = "close_target"
  /\ \/ target' = [target EXCEPT !.header = <<>>, !.body = <<>>]
     \/ \E body \in Prefixes(target.body) \ {target.body} :
          target' = [target EXCEPT !.body = body]
  /\ unsaved' = TRUE
  /\ Finish

Exited == pc = "exit" /\ UNCHANGED vars

-----------------------------------------------------------------------------
Step ==
  \/ AcceptArguments \/ RejectArguments \/ OpenSource \/ OpenSourceFails
  \/ ReadHeader \/ ReadHeaderFails \/ SkipToPixelArray \/ SkipFails
  \/ CreateSource \/ CreateSourceFails \/ ReadRow \/ ReadPadding \/ ReadBodyFails
  \/ CloseSource \/ Rotate \/ RotateFails \/ OpenTarget \/ OpenTargetFails
  \/ WriteHeader \/ WriteRow \/ WritePadding \/ WriteFails
  \/ CloseTarget \/ CloseTargetLoses

Next == Step \/ Exited

Spec == Init /\ [][Next]_vars
-----------------------------------------------------------------------------
(* What must hold *)

\* Every buffer is freed and every stream closed on every way out of main.
ExitReleasesAll == pc = "exit" => DOMAIN heap = {} /\ streams = {}

SourcePicture == Shown(file.bOffBits, file.biWidth, file.biHeight)

\* from_bmp leaves in the buffer what the file shows, from the top row down,
\* whatever gap, padding and order of rows the file has.
ReadShowsFile ==
  pc = "rotate" =>
    /\ source.size = [x |-> SourcePicture.x, y |-> SourcePicture.y]
    /\ \A p \in Positions(source.size) :
         heap["source"][image_pixel_at(source.size, p)] = SourcePicture.at[p]

\* No row is put outside the buffer malloc gave, undefined heights included.
RowsFitTheBuffer ==
  pc = "read_row" =>
    LET first == TargetRow(file.biHeight, source.size.y, row) * source.size.x
    IN  first .. first + source.size.x - 1 \subseteq DOMAIN heap["source"]

\* A file that ends before its pixels and their paddings do is not accepted.
ShortFileIsRejected ==
  pc \in {"rotate", "open_target"} =>
    file.length >= file.bOffBits
                   + SourcePicture.y * (3 * SourcePicture.x + RowPadding(SourcePicture.x))

TurnedPicture == Turned(SourcePicture, angle)

RightHeader ==
  [biWidth |-> TurnedPicture.x, biHeight |-> TurnedPicture.y, bOffBits |-> HEADER_SIZE,
   bfileSize |-> HEADER_SIZE + BytesIn(TurnedPicture)]

IsTurnedPicture ==
  target.header = <<RightHeader>> /\ target.body = Body(TurnedPicture)

\* Whatever fails and whenever, the target holds a beginning of the right file:
\* never a pixel of another place, and never memory nobody has written.
TargetIsBeginning ==
  target.opened =>
    /\ target.header \in {<<>>, <<RightHeader>>}
    /\ Len(target.body) <= Len(Body(TurnedPicture))
    /\ target.body = SubSeq(Body(TurnedPicture), 1, Len(target.body))

\* Status 0 means that the target shows the source turned clockwise by the angle,
\* if closing the target saved what had been written.
SuccessIsTurnedPicture ==
  pc = "exit" /\ exitStatus = 0 /\ ~unsaved => IsTurnedPicture

=============================================================================
