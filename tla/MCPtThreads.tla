---------------------------- MODULE MCPtThreads ----------------------------
(***************************************************************************)
(* Threads and chunks that may be exchanged for one another, but for the   *)
(* chunk that borders on top.                                              *)
(***************************************************************************)
EXTENDS PtThreads, TLC

CONSTANTS c1, c2, c3
SomeChunks == {c1, c2, c3}
=============================================================================
