---------------------------- MODULE MCDictionary ----------------------------
(* The dictionary with a key given twice and a key that begins another. *)
EXTENDS Dictionary

CONSTANT MaxInput

MCInputs == UNION {[1 .. n -> Letters \union {Blank, NUL}] : n \in 0 .. MaxInput}
MCWords == << << <<"a">>, "v1" >>, << <<"a", "a">>, "v2" >>, << <<"b">>, "v3" >>,
              << <<"a">>, "v4" >> >>
=============================================================================
