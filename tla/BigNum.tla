-------------------------------- MODULE BigNum --------------------------------
(***************************************************************************)
(* The multi-precision integers of src/libbtpool/utility/bignum.c.  An mpi *)
(* is its sign s and its limbs p, the lowest first; Len(p) is the field n, *)
(* which only grows.  An operator stands for the function of that name and *)
(* returns what it leaves in its first argument, or a record with the      *)
(* return code ret where the function has one.  Sums and differences tell  *)
(* the object of the result from the operands by its value; a division is  *)
(* told which of its results is the dividend.  No caller adds a number to  *)
(* itself in place.  malloc is taken to succeed.                           *)
(***************************************************************************)
EXTENDS Integers, Sequences, SequencesExt, FiniteSetsExt

CONSTANTS
    CharBits,    \* bits of a char, 8 in the code
    CiL          \* chars of a limb, 4 in the code

BiL == CharBits * CiL
BiH == BiL \div 2
Base == 2 ^ BiL

Ok == "OK"
Bit(x, i) == (x \div 2 ^ i) % 2
AbsInt(z) == IF z < 0 THEN -z ELSE z
LimbsOf(k, per) == (k + per - 1) \div per

(* The sequence of n limbs (or chars) f(1), f(2), ... *)
Limbs(n, f(_)) == SubSeq([i \in 1..n |-> f(i)], 1, n)
Zeros(n) == Limbs(n, LAMBDA i : 0)

-----------------------------------------------------------------------------
(* Objects and their sizes.                                                *)

MpiInit == [s |-> 1, p |-> <<>>]
Size(X) == Len(X.p)
Limb(X, i) == X.p[i + 1]

Grow(X, n) == [X EXCEPT !.p = @ \o Zeros(Max({0, n - Len(@)}))]

(* The highest limb that is not 0, or -1: the loop most functions begin with. *)
Top(X) == Max({-1} \cup {i \in 0..Size(X) - 1 : Limb(X, i) # 0})

Copy(X, Y) ==
    LET used == IF Size(Y) = 0 THEN 0 ELSE 1 + Max({0, Top(Y)})
    IN Grow([s |-> Y.s, p |-> SubSeq(Y.p, 1, used)], Size(X))

Swap(X, Y) == <<Y, X>>

LSet(X, z) ==
    [s |-> IF z < 0 THEN -1 ELSE 1,
     p |-> <<AbsInt(z)>> \o Zeros(Max({1, Size(X)}) - 1)]

(* The number with one limb that the functions on ints put on the stack.   *)
IntMpi(z) == LSet(MpiInit, z)

BitOf(X, i) == Bit(Limb(X, i \div BiL), i % BiL)
OneBits(X) == {i \in 0..Size(X) * BiL - 1 : BitOf(X, i) = 1}
Lsb(X) == IF OneBits(X) = {} THEN 0 ELSE Min(OneBits(X))
Msb(X) == IF OneBits(X) = {} THEN 0 ELSE 1 + Max(OneBits(X))

SizeInChars(X) == (Msb(X) + CharBits - 1) \div CharBits

-----------------------------------------------------------------------------
(* Comparison and shifts.                                                  *)

RECURSIVE CmpFrom(_, _, _)
CmpFrom(X, Y, i) ==
    IF i < 0 THEN 0
    ELSE IF Limb(X, i) # Limb(Y, i) THEN IF Limb(X, i) > Limb(Y, i) THEN 1 ELSE -1
    ELSE CmpFrom(X, Y, i - 1)

CmpAbs(X, Y) ==
    LET i == Top(X)
        j == Top(Y)
    IN IF i # j THEN IF i > j THEN 1 ELSE -1
       ELSE CmpFrom(X, Y, i)

(* A longer number decides by its own sign, before the signs are compared. *)
CmpMpi(X, Y) ==
    LET i == Top(X)
        j == Top(Y)
    IN IF i < 0 /\ j < 0 THEN 0
       ELSE IF i > j THEN X.s
       ELSE IF j > i THEN -X.s
       ELSE IF X.s # Y.s THEN X.s
       ELSE X.s * CmpFrom(X, Y, i)

CmpInt(X, z) == CmpMpi(X, IntMpi(z))

ShiftL(X, count) ==
    LET bits == Msb(X) + count
        big  == IF Size(X) * BiL < bits THEN Grow(X, LimbsOf(bits, BiL)) ELSE X
        v0   == count \div BiL
        t1   == count % BiL
        moved(i) == IF i > v0 THEN big.p[i - v0] ELSE 0
        shifted(i) == (moved(i) % 2 ^ (BiL - t1)) * 2 ^ t1 + moved(i - 1) \div 2 ^ (BiL - t1)
    IN [big EXCEPT !.p = Limbs(Size(big), shifted)]

(* A count below 0 (mpi_is_prime) is cut off by / and wraps in &.          *)
ShiftR(X, count) ==
    LET v0 == IF count < 0 THEN -((-count) \div BiL) ELSE count \div BiL
        v1 == count % BiL
        moved(i) == IF i + v0 <= Size(X) THEN X.p[i + v0] ELSE 0
        shifted(i) == moved(i) \div 2 ^ v1 + (moved(i + 1) % 2 ^ v1) * 2 ^ (BiL - v1)
    IN [X EXCEPT !.p = Limbs(Size(X), shifted)]

-----------------------------------------------------------------------------
(* Addition and subtraction.                                               *)

(* The carry goes to limb p.  Only i counts on: p moves when the number    *)
(* grows, so that below its end a carry out of limb p is added to it again. *)
RECURSIVE CarryOn(_, _, _)
CarryOn(d, i, p) ==
    LET grows == i > Len(d)
        at == IF grows THEN i ELSE p
        e == [(IF grows THEN Append(d, 0) ELSE d) EXCEPT ![at] = (@ + 1) % Base]
    IN IF e[at] # 0 THEN e ELSE CarryOn(e, i + 1, at)

RECURSIVE AddLimbs(_, _, _, _)
AddLimbs(d, s, i, c) ==
    IF i <= Len(s)
    THEN LET z == d[i] + s[i] + c
         IN AddLimbs([d EXCEPT ![i] = z % Base], s, i + 1, z \div Base)
    ELSE IF c = 0 THEN d ELSE CarryOn(d, i, i)

AddAbs(X, A, B) ==
    LET a == IF X = B THEN B ELSE A
        b == IF X = B THEN A ELSE B
        x == IF X = a THEN X ELSE Copy(X, a)
        j == Top(b) + 1
    IN [x EXCEPT !.p = AddLimbs(Grow(x, j).p, SubSeq(b.p, 1, j), 1, 0)]

(* d - s for the n limbs of s: the borrow runs on past them. *)
SubHlp(n, s, d) ==
    LET RECURSIVE Go(_, _, _)
        Go(i, e, c) ==
          IF i > n /\ c = 0 THEN e
          ELSE LET z == e[i] - (IF i <= n THEN s[i] ELSE 0) - c
               IN Go(i + 1, [e EXCEPT ![i] = z % Base], IF z < 0 THEN 1 ELSE 0)
    IN Go(1, d, 0)

SubAbs(X, A, B) ==
    LET x == IF X = A THEN X ELSE Copy(X, A)
    IN IF CmpAbs(A, B) < 0 THEN [ret |-> "NEGATIVE_VALUE", X |-> X]
       ELSE [ret |-> Ok, X |-> [x EXCEPT !.p = SubHlp(Top(B) + 1, B.p, @)]]

(* |A| and |B| are added, or the smaller is taken from the larger. *)
Signed(X, A, B, add) ==
    IF add THEN [AddAbs(X, A, B) EXCEPT !.s = A.s]
    ELSE IF CmpAbs(A, B) >= 0 THEN [SubAbs(X, A, B).X EXCEPT !.s = A.s]
    ELSE [SubAbs(X, B, A).X EXCEPT !.s = -A.s]

AddMpi(X, A, B) == Signed(X, A, B, A.s * B.s > 0)
SubMpi(X, A, B) == Signed(X, A, B, A.s * B.s < 0)
AddInt(X, A, b) == AddMpi(X, A, IntMpi(b))
SubInt(X, A, b) == SubMpi(X, A, IntMpi(b))

-----------------------------------------------------------------------------
(* Multiplication.                                                         *)

(* MULADDC_CORE: the two halves of s * b + c + d. *)
MulAddC(s, d, b, c) == LET r == s * b + c + d IN [d |-> r % Base, c |-> r \div Base]

(* d[off..] + s * b for the i low limbs of s, the carry running on. *)
MulHlp(i, s, d, off, b) ==
    LET RECURSIVE Core(_, _, _)
        Core(k, e, c) ==
          IF k > i
          THEN LET z == e[off + k] + c
                   f == [e EXCEPT ![off + k] = z % Base]
               IN IF z < Base THEN f ELSE Core(k + 1, f, 1)
          ELSE LET r == MulAddC(s[k], e[off + k], b, c)
               IN Core(k + 1, [e EXCEPT ![off + k] = r.d], r.c)
    IN Core(1, d, 0)

MulMpi(X, A, B) ==
    LET i == Top(A)
        j == Top(B)
        RECURSIVE Rows(_, _)
        Rows(k, d) == IF k < 0 THEN d ELSE Rows(k - 1, MulHlp(i + 1, A.p, d, k, Limb(B, k)))
    IN [s |-> A.s * B.s, p |-> Rows(j, LSet(Grow(X, i + j + 2), 0).p)]

MulInt(X, A, b) == MulMpi(X, A, [s |-> 1, p |-> <<b>>])

-----------------------------------------------------------------------------
(* Division.                                                               *)

(* Two limbs over the top limb of the divisor, at most the largest limb:   *)
(* the first guess of a digit of the quotient.                             *)
FirstGuess(high, low, top) ==
    IF high >= top THEN Base - 1 ELSE Min({(high * Base + low) \div top, Base - 1})

(* Mutant of Guess: the first guess is taken as it is. *)
GuessOnce(q, Y, t, X, i) == q

(* The guess goes down until two limbs of the divisor times it fit.        *)
Guess(q, Y, t, X, i) ==
    LET T1 == [s |-> 1, p |-> <<IF t < 1 THEN 0 ELSE Limb(Y, t - 1), Limb(Y, t)>>]
        T2 == [s |-> 1, p |-> <<IF i < 2 THEN 0 ELSE Limb(X, i - 2), Limb(X, i - 1), Limb(X, i)>>]
        RECURSIVE Down(_)
        Down(g) == IF CmpMpi(MulInt(T1, T1, g), T2) > 0 THEN Down(g - 1) ELSE g
    IN Down(q)

(* Digits of the quotient below the first, from limb i of X on.            *)
RECURSIVE DivDigits(_, _, _, _, _)
DivDigits(X, Y, Z, i, t) ==
    IF i <= t THEN [X |-> X, Z |-> Z]
    ELSE LET q == Guess(FirstGuess(Limb(X, i), Limb(X, i - 1), Limb(Y, t)), Y, t, X, i)
             shift == BiL * (i - t - 1)
             x == SubMpi(X, X, ShiftL(MulInt(MpiInit, Y, q), shift))
             back == AddMpi(x, x, ShiftL(Copy(MpiInit, Y), shift))
             over == CmpInt(x, 0) < 0
         IN DivDigits(IF over THEN back ELSE x, Y,
                      [Z EXCEPT !.p[i - t] = IF over THEN q - 1 ELSE q], i - 1, t)

RECURSIVE FirstDigit(_, _, _, _)
FirstDigit(X, Y, Z, d) ==
    IF CmpMpi(X, Y) < 0 THEN [X |-> X, Z |-> Z]
    ELSE FirstDigit(SubMpi(X, X, Y), Y, [Z EXCEPT !.p[d] = @ + 1], d)

(* Both are shifted so that the top limb of the divisor has biL - 1 bits.  *)
(* dividend names the result that is A itself, "Q" or "R", if one is: the  *)
(* sign of A is read after Q, and after the limbs of R, are written.       *)
DivMpi(Q, R, A, B, dividend) ==
    LET k == BiL - 1 - (Msb(B) % BiL)
        X == ShiftL([Copy(MpiInit, A) EXCEPT !.s = 1], k)
        Y == ShiftL([Copy(MpiInit, B) EXCEPT !.s = 1], k)
        n == Size(X) - 1
        t == Size(Y) - 1
        high == ShiftL(Y, BiL * (n - t))
        one == FirstDigit(X, high, LSet(Grow(MpiInit, Size(A) + 2), 0), n - t + 1)
        all == DivDigits(one.X, ShiftR(high, BiL * (n - t)), one.Z, n, t)
        q == Copy(Q, all.Z)
        sq == (IF dividend = "Q" THEN q.s ELSE A.s) * B.s
        r == Copy(R, ShiftR(all.X, k))
        sr == CASE dividend = "Q" -> sq [] dividend = "R" -> r.s [] OTHER -> A.s
    IN IF CmpInt(B, 0) = 0 THEN [ret |-> "DIVISION_BY_ZERO", Q |-> Q, R |-> R]
       ELSE IF CmpAbs(A, B) < 0
       THEN [ret |-> Ok, Q |-> LSet(Q, 0), R |-> Copy(R, IF dividend = "Q" THEN LSet(Q, 0) ELSE A)]
       ELSE [ret |-> Ok, Q |-> [q EXCEPT !.s = sq],
             R |-> [r EXCEPT !.s = IF CmpInt(r, 0) = 0 THEN 1 ELSE sr]]

DivInt(Q, R, A, b, dividend) == DivMpi(Q, R, A, IntMpi(b), dividend)

(* The loops that bring the remainder into 0..B-1: the first runs at most  *)
(* once, the second ends only for B > 0.                                   *)
ModMpi(R, A, B, dividend) ==
    LET d == DivMpi(MpiInit, R, A, B, dividend)
        RECURSIVE Up(_)
        Up(r) == IF CmpInt(r, 0) < 0 THEN Up(AddMpi(r, r, B)) ELSE r
        RECURSIVE Down(_)
        Down(r) == IF CmpMpi(r, B) >= 0 THEN Down(SubMpi(r, r, B)) ELSE r
    IN [ret |-> d.ret, X |-> IF d.ret = Ok THEN Down(Up(d.R)) ELSE d.R]

(* Half a limb at a time, so that the rest of one half fits with the next. *)
ModInt(A, b) ==
    LET m == AbsInt(b)
        halves(x) == <<x \div 2 ^ BiH, x % 2 ^ BiH>>
        step(y, x) == (((y * 2 ^ BiH) % Base) + x) % m
        limb(y, x) == step(step(y, halves(x)[1]), halves(x)[2])
    IN IF m = 0 THEN [ret |-> "DIVISION_BY_ZERO", r |-> 0]
       ELSE IF m = 1 THEN [ret |-> Ok, r |-> 0]
       ELSE IF m = 2 THEN [ret |-> Ok, r |-> Limb(A, 0) % 2]
       ELSE [ret |-> Ok, r |-> FoldLeft(limb, 0, Reverse(A.p))]

-----------------------------------------------------------------------------
(* Bytes and characters.  A character is the value of its digit, Minus, or *)
(* NoDigit for any other; a digit is half a byte.                          *)

Minus == -1
NoDigit == 255
MaxRadix == 16
Digit == 2 ^ (CharBits \div 2)

IsDigit(c, radix) == c \in 0..radix - 1

ReadHex(X, s) ==
    LET neg == s # <<>> /\ s[1] = Minus
        ds == Reverse(IF neg THEN Tail(s) ELSE s)
        n == LimbsOf(Len(s) * (CharBits \div 2), BiL)
        zero == LSet(Grow(X, n), 0)
        digit(i, k) == LET d == (i - 1) * 2 * CiL + k IN IF d < Len(ds) THEN ds[d + 1] ELSE 0
        limb(i) == FoldLeft(LAMBDA v, k : v + digit(i, k) * Digit ^ k, 0, [k \in 1..2 * CiL |-> k - 1])
    IN [s |-> IF neg THEN -1 ELSE 1, p |-> Limbs(Size(zero), limb)]

(* A minus sign sets the sign of the 0 the digits are then added to, and   *)
(* the first digit that is not 0 takes it away.                            *)
ReadRadix(X, radix, s) ==
    LET neg == s # <<>> /\ s[1] = Minus
        add(x, d) == AddInt(x, MulInt(MpiInit, x, radix), d)
    IN FoldLeft(add, [LSet(X, 0) EXCEPT !.s = IF neg THEN -1 ELSE 1], IF neg THEN Tail(s) ELSE s)

(* A character that is no digit ends the reading, of hexadecimal digits    *)
(* from the last one back: what was read until then is left in X.          *)
ReadString(X, radix, s) ==
    LET hex  == radix = MaxRadix
        bad  == {i \in DOMAIN s : ~IsDigit(s[i], radix) /\ ~(i = 1 /\ s[1] = Minus)}
        read == IF bad = {} THEN s
                ELSE IF hex THEN [i \in 1..Len(s) |-> IF i <= Max(bad) THEN 0 ELSE s[i]]
                ELSE SubSeq(s, 1, Min(bad) - 1)
    IN IF radix \notin 2..MaxRadix THEN [ret |-> "BAD_INPUT_DATA", X |-> X]
       ELSE [ret |-> IF bad = {} THEN Ok ELSE "INVALID_CHARACTER",
             X |-> IF hex THEN ReadHex(X, read) ELSE ReadRadix(X, radix, read)]

RECURSIVE WriteDigits(_, _)
WriteDigits(X, radix) ==
    LET q == DivInt(X, MpiInit, X, radix, "Q").Q
    IN (IF CmpInt(q, 0) # 0 THEN WriteDigits(q, radix) ELSE <<>>) \o <<ModInt(X, radix).r>>

(* The chars of X, the highest first. *)
CharsOf(X) ==
    LET c(i) == (Limb(X, i \div CiL) \div 2 ^ (CharBits * (i % CiL))) % 2 ^ CharBits
    IN Limbs(Size(X) * CiL, LAMBDA k : c(Size(X) * CiL - k))

(* Two digits for each byte from the first that is not 0 on. *)
WriteHex(X) ==
    LET cs == CharsOf(X)
        first == Min({Len(cs)} \cup {i \in DOMAIN cs : cs[i] # 0})
    IN FlattenSeq([i \in 1..Len(cs) - first + 1 |->
          <<cs[first + i - 1] \div Digit, cs[first + i - 1] % Digit>>])

(* The room that is asked for: one place for the sign, one for a digit     *)
(* more and one for the 0 at the end.                                      *)
RoomFor(X, radix) == Msb(X) \div (IF radix >= 16 THEN 4 ELSE IF radix >= 4 THEN 2 ELSE 1) + 3

(* out is what is written, the 0 at the end left out.                      *)
WriteString(X, radix, slen) ==
    LET sign == IF X.s = -1 THEN <<Minus>> ELSE <<>>
        out == sign \o (IF radix = MaxRadix THEN WriteHex(X) ELSE WriteDigits(Copy(MpiInit, X), radix))
    IN IF radix \notin 2..MaxRadix THEN [ret |-> "BAD_INPUT_DATA", out |-> <<>>, slen |-> slen]
       ELSE IF slen < RoomFor(X, radix)
       THEN [ret |-> "BUFFER_TOO_SMALL", out |-> <<>>, slen |-> RoomFor(X, radix)]
       ELSE [ret |-> Ok, out |-> out, slen |-> Len(out) + 1]

(* A line of a file: the digits at its end, so that a sign is not read.    *)
ReadFile(X, radix, line) ==
    LET from == Max({0} \cup {i \in DOMAIN line : ~IsDigit(line[i], radix)})
    IN ReadString(X, radix, SubSeq(line, from + 1, Len(line)))

(* The prefix and the number; the end of the line is taken off by the reader. *)
WriteFile(prefix, X, radix, room) ==
    LET w == WriteString(X, radix, room)
    IN [ret |-> w.ret, line |-> IF w.ret = Ok THEN prefix \o w.out ELSE <<>>]

(* Bytes, the highest first. *)
ReadBinary(X, buf) ==
    LET n == Min({Len(buf)} \cup {i - 1 : i \in {k \in DOMAIN buf : buf[k] # 0}})
        rev == Reverse(buf)
        size == Max({1, Size(X), LimbsOf(Len(buf) - n, CiL)})
        char(j) == IF j < Len(buf) - n THEN rev[j + 1] * 2 ^ (CharBits * (j % CiL)) ELSE 0
        limb(i) == FoldLeft(LAMBDA v, k : v + char((i - 1) * CiL + k), 0, [k \in 1..CiL |-> k - 1])
    IN [s |-> 1, p |-> Limbs(size, limb)]

WriteBinary(X, buflen) ==
    LET n == SizeInChars(X)
        cs == CharsOf(X)
    IN IF buflen < n THEN [ret |-> "BUFFER_TOO_SMALL", buf |-> <<>>]
       ELSE [ret |-> Ok, buf |-> Zeros(buflen - n) \o SubSeq(cs, Len(cs) - n + 1, Len(cs))]
=============================================================================
