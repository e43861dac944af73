\* Words of eight bits; texts of up to four characters out of the two signs, the
\* first and the last digits and the two characters next to them.
CONSTANTS
  WORD_MOD = 256
  Alphabet = {43, 45, 47, 48, 49, 57, 58}
  MaxText = 4
  Texts <- MCTexts
SPECIFICATION NumbersSpec
INVARIANTS
  ParseReadsNumeral
  PrintsNumeral
