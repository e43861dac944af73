------------------------------- MODULE Image -------------------------------
(***************************************************************************)
(* Images of the laboratory works 3 and 5: sizes, pixel coordinates, the   *)
(* padding of a row in a BMP file, and where image_rotate puts a pixel.    *)
(*                                                                         *)
(* A size is a record [x, y]; a position is a pair <<x, y>> counted from   *)
(* the top left corner.  The contents of a buffer are a function from      *)
(* indices to pixels, or Garbage where malloc's memory is not written yet. *)
(***************************************************************************)
EXTENDS Integers

\* sizeof(struct pixel), and the bytes of a header in a BMP file.
PIXEL == 3
HEADER_SIZE == 54

Garbage == -1

get_padding(width) == (4 - ((width * PIXEL) % 4)) % 4

Positions(s) == (0 .. s.x - 1) \X (0 .. s.y - 1)
Indices(s) == 0 .. s.x * s.y - 1

\* Index in the buffer of an image of size s.
image_pixel_at(s, p) == p[2] * s.x + p[1]

dimensions_reverse(s) == [x |-> s.y, y |-> s.x]

\* Variant: the width is taken for the height.
rotate_90_swapped(s, p) == <<s.x - 1 - p[2], p[1]>>

\* Where the rotations move the pixel at p of an image of size s.
rotate_90(s, p)  == <<s.y - 1 - p[2], p[1]>>
rotate_180(s, p) == <<s.x - 1 - p[1], s.y - 1 - p[2]>>
rotate_270(s, p) == <<p[2], s.x - 1 - p[1]>>

image_rotate(angle, s, p) ==
  IF angle \in {90, -270} THEN rotate_90(s, p)
  ELSE IF angle \in {180, -180} THEN rotate_180(s, p)
  ELSE IF angle \in {270, -90} THEN rotate_270(s, p)
  ELSE p

rotated_size(angle, s) ==
  IF angle \in {90, -270, 270, -90} THEN dimensions_reverse(s) ELSE s

\* What the two loops of a rotation leave in a new buffer: a later assignment to
\* an index replaces an earlier one.
RotatedData(angle, s, data) ==
  LET t == rotated_size(angle, s)
      Sources(i) == {p \in Positions(s) : image_pixel_at(t, image_rotate(angle, s, p)) = i}
      Last(P) == CHOOSE p \in P :
                   \A q \in P : image_pixel_at(s, q) <= image_pixel_at(s, p)
  IN  [i \in Indices(t) |->
         IF Sources(i) = {} THEN Garbage ELSE data[image_pixel_at(s, Last(Sources(i)))]]
=============================================================================
