---------------------------- MODULE MCPtMalloc ----------------------------
(***************************************************************************)
(* PtMalloc in words of a small build: pages of 16 words, small bins for   *)
(* chunks of 4 and 6 words, large bins for 8 to 15 words, 16 to 31 words   *)
(* and more, one tcache bin of one chunk and one fast bin, both for chunks *)
(* of 4 words.                                                             *)
(***************************************************************************)
EXTENDS PtMalloc

SmallLadder ==
  << [width |-> 8, last |-> 1, base |-> 3], [width |-> 16, last |-> 1, base |-> 4] >>
\* What mallopt is called with; the mmap threshold is refused.
SomeOptions ==
  { [param |-> "max_fast", value |-> 0], [param |-> "n_mmaps_max", value |-> 0],
    [param |-> "top_pad", value |-> 16], [param |-> "mmap_threshold", value |-> 49] }
=============================================================================
