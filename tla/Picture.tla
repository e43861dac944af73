------------------------------ MODULE Picture ------------------------------
(***************************************************************************)
(* What a BMP file shows, and what it shows turned clockwise: the meaning  *)
(* the programs are measured against.  A pixel of the source is named by   *)
(* the offset of its first byte in the file.                               *)
(***************************************************************************)
EXTENDS Integers

\* The least number of bytes that makes a row of w pixels a multiple of four.
RowPadding(w) == CHOOSE p \in 0 .. 3 : (3 * w + p) % 4 = 0

\* What a file with pixel array at off, width w and height h shows: the rows are
\* stored from the bottom up when h is positive, from the top down otherwise.
Shown(off, w, h) ==
  LET rows == IF h > 0 THEN h ELSE -h
      Stored(y) == IF h > 0 THEN rows - 1 - y ELSE y
  IN  [x |-> w, y |-> rows,
       at |-> [p \in (0 .. w - 1) \X (0 .. rows - 1) |->
                 off + Stored(p[2]) * (3 * w + RowPadding(w)) + 3 * p[1]]]

\* A quarter turn clockwise: the left column becomes the top row.
QuarterTurn(pic) ==
  [x |-> pic.y, y |-> pic.x,
   at |-> [p \in (0 .. pic.y - 1) \X (0 .. pic.x - 1) |->
             pic.at[<<p[2], pic.y - 1 - p[1]>>]]]

\* The picture turned clockwise by the angle, a multiple of 90.
Turned(pic, angle) ==
  LET quarters == (angle \div 90) % 4
      half == QuarterTurn(QuarterTurn(pic))
  IN  CASE quarters = 0 -> pic
        [] quarters = 1 -> QuarterTurn(pic)
        [] quarters = 2 -> half
        [] quarters = 3 -> QuarterTurn(half)

\* How a picture is stored: its rows from the bottom up, each with its padding.
BytesIn(pic) == pic.y * (3 * pic.x + RowPadding(pic.x))
Body(pic) ==
  LET n == pic.x + RowPadding(pic.x)
  IN  [i \in 1 .. n * pic.y |->
         IF (i - 1) % n < pic.x
         THEN pic.at[<<(i - 1) % n, pic.y - 1 - ((i - 1) \div n)>>]
         ELSE 0]
=============================================================================
