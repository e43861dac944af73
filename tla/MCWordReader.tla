---------------------------- MODULE MCWordReader ----------------------------
(* The reader on every input of up to MaxInput bytes. *)
EXTENDS WordReader

CONSTANT MaxInput

MCInputs == UNION {[1 .. n -> Letters \union {Blank, NUL}] : n \in 0 .. MaxInput}
=============================================================================
