----------------------------- MODULE NumberChecks -----------------------------
(***************************************************************************)
(* What BigNum, BigNumMod and Rsa are compared with, on instances small    *)
(* enough for the integers of TLC: limbs of one char of 4 bits, of one and *)
(* of two chars of 8 bits, and keys of 24 and 32 bits in chars of 4 bits.  *)
(***************************************************************************)
EXTENDS Integers, Sequences, SequencesExt, FiniteSets

N4 == INSTANCE BigNumMod WITH CharBits <- 2, CiL <- 2, LastPrime <- 3
N8 == INSTANCE BigNumMod WITH CharBits <- 8, CiL <- 1, LastPrime <- 7
N16 == INSTANCE BigNum WITH CharBits <- 8, CiL <- 2
R == INSTANCE Rsa WITH CharBits <- 4, CiL <- 2, LastPrime <- 13,
        MinKeyBits <- 16, MaxKeyBits <- 64, MinLen <- 4, MaxLen <- 10, MinPad <- 1,
        MdxHead <- <<3, 0>>, MdxAt <- 2, ShaHead <- <<9>>, MdxLen <- 1, ShaLen <- 3

Mpi(s, p) == [s |-> s, p |-> p]
ValueOf(X, base) == X.s * FoldRight(LAMBDA d, v : v * base + d, X.p, 0)
Sign(v) == IF v > 0 THEN 1 ELSE IF v = 0 THEN 0 ELSE -1
Abs(v) == IF v < 0 THEN -v ELSE v

-----------------------------------------------------------------------------
(* Arithmetic on limbs of 4 bits.  The first argument, where the result    *)
(* goes, is one of the operands, a longer number or a new one.             *)

Dividends == {Mpi(1, <<a, b, c>>) : a \in {0, 1, 8, 15}, b \in {0, 1, 8, 15}, c \in {0, 1, 7, 15}}
V(X) == ValueOf(X, 16)
Operands ==
    {x \in {Mpi(s, <<a, b>>) : s \in {1, -1}, a \in {0, 1, 5, 8, 15}, b \in {0, 1, 7, 15}} :
       x.s = 1 \/ V(x) # 0}
New == N4!MpiInit
Longer == Mpi(1, <<3, 4, 5, 6, 7>>)

(* mpi_add_abs is wrong in one case: a carry out of the limbs of the       *)
(* number b that is added, into a limb that is full, with a limb above it  *)
(* among the n of the result.  The limb comes to 1, the one above keeps    *)
(* its value.                                                              *)
LostCarry(n, a, b) ==
    LET k == Cardinality({i \in 0..4 : b >= 16 ^ i})
    IN IF k + 1 < n /\ (a % 16 ^ k) + b >= 16 ^ k /\ (a \div 16 ^ k) % 16 = 15
       THEN 15 * 16 ^ k ELSE 0

SumsExact(x, y) ==
    /\ V(N4!AddAbs(x, x, y)) = V(x) + Abs(V(y)) - LostCarry(3, V(x), Abs(V(y)))
    /\ V(N4!AddMpi(x, x, y)) = V(x) + V(y) - (IF y.s = 1 THEN LostCarry(3, V(x), V(y)) ELSE 0)
    /\ V(N4!SubMpi(y, x, y)) = V(x) - V(y)
    /\ V(N4!SubMpi(Longer, y, x)) = V(y) - V(x) + (IF y.s = 1 THEN 0 ELSE LostCarry(5, -V(y), V(x)))
    /\ V(N4!AddInt(New, y, -x.p[1])) = V(y) - x.p[1]
    /\ V(N4!SubInt(y, y, x.p[3])) = V(y) - x.p[3]
    /\ N4!CmpAbs(x, y) = Sign(V(x) - Abs(V(y)))

ProductsExact(x, y) ==
    /\ V(N4!MulMpi(x, x, y)) = V(x) * V(y)
    /\ V(N4!MulMpi(Longer, y, y)) = V(y) * V(y)
    /\ V(N4!MulInt(New, x, y.p[1])) = V(x) * y.p[1]

(* Quotients are cut off towards 0; the modulus is not below 0.  In place  *)
(* of a dividend that is not below 0 there is room for the quotient alone, *)
(* or for the remainder; in place of one below 0 that has to be divided at *)
(* all the remainder is that of its absolute value.  ModInt is for         *)
(* divisors of half a limb.                                                *)
QuotientsExact(x, y) ==
    LET d == N4!DivMpi(Longer, New, x, y, "")
        n == N4!DivInt(New, Longer, y, -x.p[2], "")
    IN /\ (V(y) = 0) = (d.ret = "DIVISION_BY_ZERO")
       /\ V(y) # 0 => /\ V(d.Q) * V(y) + V(d.R) = V(x)
                      /\ V(d.R) \in 0..Abs(V(y)) - 1
                      /\ V(N4!DivMpi(x, New, x, y, "Q").Q) = V(d.Q)
                      /\ V(N4!DivMpi(Longer, x, x, y, "R").R) = V(d.R)
       /\ x.p[2] # 0 => /\ V(y) = V(n.R) - V(n.Q) * x.p[2]
                        /\ Abs(V(n.R)) < x.p[2]
       /\ \A b \in 1..4 : N4!ModInt(x, b).r = V(x) % b
       /\ V(x) # 0 => /\ V(N4!ModMpi(New, y, x, "").X) = V(y) % V(x)
                      /\ V(N4!ModMpi(y, y, x, "R").X) =
                           (IF Abs(V(y)) < V(x) THEN V(y) ELSE Abs(V(y))) % V(x)

ShiftsExact(x, k) ==
    /\ V(N4!ShiftL(x, k)) = V(x) * 2 ^ k
    /\ V(N4!ShiftR(x, k)) = V(x) \div 2 ^ k
    /\ V(x) # 0 => V(x) % 2 ^ N4!Lsb(x) = 0 /\ V(x) \div 2 ^ (N4!Msb(x) - 1) = 1

ArithmeticExact(x, y) ==
    /\ SumsExact(x, y) /\ ProductsExact(x, y) /\ QuotientsExact(x, y)
    /\ ShiftsExact(x, y.p[1] % 10)

-----------------------------------------------------------------------------
(* Texts, on limbs of 16 bits.  A number of at most 31 bits fits in 5      *)
(* chars.  Only a radix of 16 keeps the sign, and with it a text may be a  *)
(* char longer than the room that is asked for.                            *)

Numbers16 == {0, 1, 9, 15, 16, 255, 256, 4095, 65535, 65536, 70000, 16777216, 2000000000}
Radices == {2, 3, 4, 8, 10, 16}
W(X) == ValueOf(X, 65536)

NumberReadsBack(v, sign, radix) ==
    LET X    == Mpi(sign, <<v % 65536, v \div 65536>>)
        room == N16!RoomFor(X, radix)
        text == N16!WriteString(X, radix, room)
        back == N16!ReadString(N16!MpiInit, radix, text.out)
        line == N16!WriteFile(<<250, 251>>, X, radix, room)
        bin  == N16!WriteBinary(X, 5)
    IN /\ text.ret = "OK" /\ back.ret = "OK"
       /\ N16!WriteString(X, radix, room - 1).slen = room
       /\ Abs(W(back.X)) = v /\ (radix = 16 \/ sign = 1 => W(back.X) = sign * v)
       /\ text.slen <= room + (IF sign = -1 /\ radix = 16 THEN 1 ELSE 0)
       /\ sign = 1 => W(N16!ReadFile(N16!MpiInit, radix, line.line).X) = v
       /\ W(N16!ReadBinary(N16!MpiInit, bin.buf)) = v
       /\ N16!WriteBinary(X, N16!SizeInChars(X)).ret = "OK"

-----------------------------------------------------------------------------
(* Modular arithmetic, on limbs of 4 bits, and primes on limbs of 8.       *)

GcdOf(a, b) ==
    LET g[x \in 0..Abs(a) + Abs(b), y \in 0..Abs(a) + Abs(b)] == IF y = 0 THEN x ELSE g[y, x % y]
    IN g[Abs(a), Abs(b)]

(* a to the power of e modulo n, a bit of e at a time from the highest.    *)
PowerOf(a, e, n) ==
    FoldRight(LAMBDA i, v : (((v * v) % n) * (IF N4!BitOf(e, i - 1) = 1 THEN a ELSE 1)) % n,
              [i \in 1..4 * Len(e.p) |-> i], 1 % n)

(* Exponents of all the window sizes up to 4.                              *)
Exponents == {Mpi(1, <<a, b>>) : a \in {0, 1, 2, 5, 14, 15}, b \in {0, 1, 9}}
             \cup {Mpi(1, <<11, 2, 0, 7, 5, 1, d>>) : d \in {1, 9}}
             \cup {Mpi(1, [i \in 1..21 |-> (i * i) % 16])}
Moduli == {Mpi(1, <<a, b>>) : a \in {1, 5, 15}, b \in {1, 15}}
Bases == {Mpi(1, <<a, b>>) : a \in {0, 2, 15}, b \in {0, 3, 15}}

PowersExact(x, e, n) ==
    LET once  == N4!ExpMod(New, x, e, n, New)
        again == N4!ExpMod(x, x, e, n, once.RR)
    IN /\ V(once.X) = PowerOf(V(x), e, V(n))
       /\ V(again.X) = V(once.X)

InversesExact(x, n) ==
    LET r == N4!InvMod(New, x, n)
        g == GcdOf(V(x), V(n))
    IN /\ (r.ret = "OK") = (g = 1)
       /\ r.ret = "OK" => V(r.X) \in 0..V(n) - 1 /\ (V(r.X) * V(x)) % V(n) = 1
       /\ V(N4!Gcd(x, n)) = g

(* The random numbers of a test.                                           *)
Witnesses(k) ==
    [i \in 1..27 |-> LET v == (i * k * 7919 + 32768) % 65536 IN Mpi(1, <<v % 256, v \div 256>>)]
IsPrimeNumber(v) == \A d \in 2..v - 1 : d * d > v \/ v % d # 0

(* 2 is not taken for a prime, and 1 is.                                   *)
PrimesTold(v) ==
    (N8!IsPrime(Mpi(1, <<v % 256, v \div 256>>), Witnesses(37)) = "OK")
      = (IsPrimeNumber(v) /\ v # 2)

-----------------------------------------------------------------------------
(* Keys and messages.                                                      *)

Small(n) == [i \in 1..n |-> Mpi(1, <<(i * 77 + 3) % 256, ((i * 3) % 7) + 9>>)]
Large(n) == [i \in 1..n |-> Mpi(1, <<(i * 77 + 3) % 256, ((i * 53) % 128) + 128>>)]
ShortKey == R!GenKey(24, 3, Small(100), Small(27)).key
LongKey == R!GenKey(32, 5, Large(100), Large(27)).key
Pad == [i \in 1..20 |-> (i % 15) + 1]
MdHashes == {"MD2", "MD4", "MD5"}

MessageOpens(key, msg) ==
    LET sent == R!Pkcs1Encrypt(key, "PUBLIC", msg, Pad)
        long == R!Pkcs1Encrypt(key, "PUBLIC", msg \o Pad, Pad)
    IN /\ R!CheckPrivKey(key) = "OK"
       /\ sent.ret = "OK" /\ sent.out # msg
       /\ R!Pkcs1Decrypt(key, "PRIVATE", sent.out) = [ret |-> "OK", out |-> msg]
       /\ long.ret = "BAD_INPUT_DATA"

(* A hash is verified under its name only.                                 *)
SignatureHolds(key, hash, names, other) ==
    LET sig == R!Sign(key, "PRIVATE", names, hash).out
        verdict(name, h) == R!Verify(key, "PUBLIC", name, h, sig)
    IN /\ verdict(names, hash) = "OK"
       /\ verdict(names, other) = "VERIFY_FAILED"
       /\ \A name \in (MdHashes \cup {"RAW", "SHA1"}) \ {names} : verdict(name, hash) # "OK"
=============================================================================
