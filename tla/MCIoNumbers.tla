---------------------------- MODULE MCIoNumbers ----------------------------
(* All words of a small range, and all short texts over some characters. *)
EXTENDS IoNumbers

CONSTANTS Alphabet, MaxText

MCTexts == UNION {[1 .. n -> Alphabet] : n \in 0 .. MaxText}
=============================================================================
