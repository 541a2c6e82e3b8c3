------------------------------- MODULE Numerals -------------------------------
(***************************************************************************)
(* Decimal numerals, as sequences of chars: strings of length one.         *)
(***************************************************************************)
EXTENDS Integers, Sequences, SequencesExt

Digits == <<"0", "1", "2", "3", "4", "5", "6", "7", "8", "9">>
IsDigit(ch) == \E i \in 1..10 : Digits[i] = ch
DigitOf(ch) == (CHOOSE i \in 1..10 : Digits[i] = ch) - 1

RECURSIVE Numeral(_)
Numeral(n) == IF n < 10 THEN <<Digits[n + 1]>> ELSE Append(Numeral(n \div 10), Digits[(n % 10) + 1])
Decimal(n) == IF n < 0 THEN <<"-">> \o Numeral(-n) ELSE Numeral(n)

ValueOf(s) == FoldLeft(LAMBDA n, ch : n * 10 + DigitOf(ch), 0, s)
=============================================================================
