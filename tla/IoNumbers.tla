----------------------------- MODULE IoNumbers -----------------------------
(***************************************************************************)
(* print_uint, print_int, parse_uint and parse_int of the I/O library, one *)
(* iteration of a loop at a time.  A word is a number below WORD_MOD; what *)
(* has been printed is parsed again.                                       *)
(***************************************************************************)
EXTENDS Integers, Sequences

CONSTANTS
  WORD_MOD,   \* 2^64
  Texts       \* what parse_uint and parse_int may be given, as ASCII codes

ASSUME WordAssumption == WORD_MOD \in Nat /\ WORD_MOD > 0 /\ WORD_MOD % 2 = 0
ASSUME TextAssumption == Texts \subseteq Seq(1 .. 255)

VARIABLES
  signed,     \* print_int and parse_int, or print_uint and parse_uint
  number,     \* what was to be printed; -1 when a text is given
  text,       \* printed so far, or to be parsed
  digits,     \* the number in print_uint's buffer
  place,      \* where it is: the pc
  rax, rdx,
  negative    \* parse_int has seen a minus

numbersVars == <<signed, number, text, digits, place, rax, rdx, negative>>

Registers == 0 .. WORD_MOD - 1
Plus == 43
Minus == 45
IsDigit(c) == c \in 48 .. 57

\* The byte at offset i of the text, which ends with a zero.
CharAt(i) == IF i < Len(text) THEN text[i + 1] ELSE 0

neg(w) == (WORD_MOD - w) % WORD_MOD

\* Variant: a test for greater than zero, as of an unsigned number.
is_negative_never(w) == w < 0

\* The sign flag after test rdi, rdi.
is_negative(w) == w >= WORD_MOD \div 2

-----------------------------------------------------------------------------
NumbersInit ==
  /\ signed \in BOOLEAN
  /\ \/ number \in Registers /\ text = <<>> /\ place = "print" /\ rax = number
     \/ number = -1 /\ text \in Texts /\ place = "parse" /\ rax = 0
  /\ digits = <<>>
  /\ rdx = 0
  /\ negative = FALSE

\* print_int: the minus goes out first and print_uint gets the absolute value.
PrintSign ==
  /\ place = "print"
  /\ IF signed /\ is_negative(number)
     THEN text' = <<Minus>> /\ rax' = neg(number)
     ELSE UNCHANGED <<text, rax>>
  /\ place' = "convert"
  /\ UNCHANGED <<signed, number, digits, rdx, negative>>

\* .loop of print_uint; a zero is one digit.
PrintDigit ==
  /\ place = "convert"
  /\ digits' = <<48 + (rax % 10)>> \o digits
  /\ rax' = rax \div 10
  /\ place' = IF rax \div 10 = 0 THEN "print_string" ELSE "convert"
  /\ UNCHANGED <<signed, number, text, rdx, negative>>

PrintString ==
  /\ place = "print_string"
  /\ text' = text \o digits
  /\ place' = "parse"
  /\ UNCHANGED <<signed, number, digits, rax, rdx, negative>>

\* parse_int: the sign, and parse_uint for what follows.  The offset rdx counts
\* from the sign on here, and from behind it in the code.
ParseSign ==
  /\ place = "parse"
  /\ negative' = (signed /\ CharAt(0) = Minus)
  /\ rax' = 0
  /\ rdx' = IF signed /\ CharAt(0) \in {Minus, Plus} THEN 1 ELSE 0
  /\ place' = "parse_uint"
  /\ UNCHANGED <<signed, number, text, digits>>

\* .loop of parse_uint, on a digit; the product wraps.
ParseDigit ==
  /\ place = "parse_uint"
  /\ IsDigit(CharAt(rdx))
  /\ rax' = (rax * 10 + CharAt(rdx) - 48) % WORD_MOD
  /\ rdx' = rdx + 1
  /\ UNCHANGED <<signed, number, text, digits, place, negative>>

\* Variant: a sign alone is a number of one character.
ParseEnds_sign_counts ==
  /\ place = "parse_uint"
  /\ ~IsDigit(CharAt(rdx))
  /\ rax' = IF negative THEN neg(rax) ELSE rax
  /\ place' = "parsed"
  /\ UNCHANGED <<signed, number, text, digits, rdx, negative>>

\* parse_uint returns.  Behind a sign, no digit means that nothing was read.
ParseEnds ==
  /\ place = "parse_uint"
  /\ ~IsDigit(CharAt(rdx))
  /\ IF signed /\ CharAt(0) \in {Minus, Plus} /\ rdx = 1
     THEN rax' = 0 /\ rdx' = 0
     ELSE rax' = (IF negative THEN neg(rax) ELSE rax) /\ UNCHANGED rdx
  /\ place' = "parsed"
  /\ UNCHANGED <<signed, number, text, digits, negative>>

Returned == place = "parsed" /\ UNCHANGED numbersVars

NumbersStep == PrintSign \/ PrintDigit \/ PrintString \/ ParseSign \/ ParseDigit \/ ParseEnds

NumbersNext == NumbersStep \/ Returned

NumbersSpec == NumbersInit /\ [][NumbersNext]_numbersVars

-----------------------------------------------------------------------------
(* What must hold *)

\* The longest numeral a text begins with: its sign, and the digits behind it.
SignLength == IF signed /\ CharAt(0) \in {Minus, Plus} THEN 1 ELSE 0
NumeralEnd ==
  CHOOSE e \in SignLength .. Len(text) :
    /\ \A i \in SignLength .. e - 1 : IsDigit(CharAt(i))
    /\ ~IsDigit(CharAt(e))
Magnitude ==
  LET value[e \in SignLength .. Len(text)] ==
        IF e = SignLength THEN 0 ELSE 10 * value[e - 1] + (CharAt(e - 1) - 48)
  IN  value[NumeralEnd]

\* parse_uint and parse_int read the longest numeral the text begins with, and
\* its value up to a multiple of the word's range; a sign alone is no numeral.
ParseReadsNumeral ==
  place = "parsed" =>
    IF NumeralEnd = SignLength THEN rdx = 0 /\ rax = 0
    ELSE /\ rdx = NumeralEnd
         /\ rax = (IF CharAt(0) = Minus THEN -Magnitude ELSE Magnitude) % WORD_MOD

\* What is printed is the number's usual numeral: no leading zero, no more than a
\* minus in front, and the value of the word as the function called reads it.
PrintsNumeral ==
  place = "parse" /\ number # -1 =>
    LET shown == IF signed /\ number >= WORD_MOD \div 2 THEN number - WORD_MOD ELSE number
    IN  /\ NumeralEnd = Len(text) /\ CharAt(0) # Plus
        /\ CharAt(SignLength) = 48 => Len(text) = 1
        /\ shown = IF CharAt(0) = Minus THEN -Magnitude ELSE Magnitude
=============================================================================
