------------------------------ MODULE MCSepia ------------------------------
(* Small images of which the filter saturates some pixels and not others. *)
EXTENDS SepiaCommand

CONSTANTS Strides, Firsts   \* of the bytes of a source

MCSources ==
  {[k \in 0 .. 3 * MaxPixels - 1 |-> (s * k + f) % 256] : s \in Strides, f \in Firsts}
=============================================================================
