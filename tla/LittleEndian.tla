---------------------------- MODULE LittleEndian -----------------------------
(***************************************************************************)
(* How the C code holds numbers: as chars, the lowest first, each a digit  *)
(* to the base of 2 ^ 8.  A number of n chars is one below that base to    *)
(* the power of n; Signed and SignedChar give what it is as an int32_t and *)
(* a char, which are signed.                                               *)
(***************************************************************************)
EXTENDS Integers, Sequences

CONSTANTS
    CharBase,        \* the values a char has, 256 in the code
    Int32        \* chars of an int32_t, 4 in the code

ASSUME SizesAssumption ==
    /\ CharBase \in Nat \ {0} /\ CharBase % 2 = 0
    /\ Int32 \in Nat \ {0}

CharSet == 0..CharBase - 1
Power(n) ==
    LET power[k \in 0..n] == IF k = 0 THEN 1 ELSE CharBase * power[k - 1]
    IN power[n]
Unsigned(n) == 0..Power(n) - 1

SignedChar(v) == IF v < CharBase \div 2 THEN v ELSE v - CharBase
Signed(v) == IF v < Power(Int32) \div 2 THEN v ELSE v - Power(Int32)

(* v as n chars, and the number that chars are.                            *)
Chars(v, n) == [i \in 1..n |-> (v \div Power(i - 1)) % CharBase]
NumberOf(s) ==
    LET low[n \in 0..Len(s)] == IF n = 0 THEN 0 ELSE s[Len(s) + 1 - n] + CharBase * low[n - 1]
    IN low[Len(s)]
=============================================================================
