------------------------------ MODULE BigNumMod ------------------------------
(***************************************************************************)
(* Modular arithmetic and primes of src/libbtpool/utility/bignum.c, over   *)
(* the numbers of BigNum.                                                  *)
(***************************************************************************)
EXTENDS BigNum

CONSTANT LastPrime   \* last entry of small_prime, 997 in the code

-----------------------------------------------------------------------------
(* Montgomery arithmetic: numbers multiplied by R = Base^n for N of n      *)
(* limbs.                                                                  *)

(* -1/N modulo Base: each step doubles the bits that are right, from four. *)
MontgInit(N) ==
    LET m0 == Limb(N, 0)
        x0 == m0 + 8 * Bit(m0 + 2, 2)
        newton(x) == (x * ((2 - (m0 * x)) % Base)) % Base
        x1 == newton(x0 % Base)
        x2 == IF BiL >= 16 THEN newton(x1) ELSE x1
        x3 == IF BiL >= 32 THEN newton(x2) ELSE x2
    IN (Base - x3) % Base

(* A * B / R modulo N; A has room for a limb more than N.                  *)
MontMul(A, B, N, mm) ==
    LET n == Size(N)
        m == Min({Size(B), n})
        RECURSIVE Go(_, _)
        Go(i, T) ==
          IF i = n THEN T
          ELSE LET u0 == Limb(A, i)
                   u1 == (((T[i + 1] + u0 * B.p[1]) % Base) * mm) % Base
               IN Go(i + 1, [MulHlp(n, N.p, MulHlp(m, B.p, T, i, u0), i, u1)
                               EXCEPT ![i + 1] = u0, ![i + n + 3] = 0])
        x == [A EXCEPT !.p = SubSeq(Go(0, Zeros(2 * (n + 1))), n + 1, 2 * n + 1)
                               \o SubSeq(@, n + 2, Len(@))]
    IN IF CmpAbs(x, N) >= 0 THEN [x EXCEPT !.p = SubHlp(n, N.p, @)] ELSE x

MontRed(A, N, mm) == MontMul(A, IntMpi(1), N, mm)

-----------------------------------------------------------------------------
(* Exponentiation.                                                         *)

WindowSize(bits) ==
    IF bits > 671 THEN 6 ELSE IF bits > 239 THEN 5
    ELSE IF bits > 79 THEN 4 ELSE IF bits > 23 THEN 3 ELSE 1

(* One bit of the exponent: zeros between windows square, a window that is *)
(* full squares as often as it has bits and multiplies once.  m is the     *)
(* modulus N with the mm of MontgInit.                                     *)
WindowBit(st, ei, wsize, W, m) ==
    LET mul(x, y) == MontMul(x, y, m.N, m.mm)
        RECURSIVE Squares(_, _)
        Squares(x, k) == IF k = 0 THEN x ELSE Squares(mul(x, x), k - 1)
        nbits == st.nbits + 1
        wbits == st.wbits + ei * 2 ^ (wsize - nbits)
    IN IF ei = 0 /\ st.state = 0 THEN st
       ELSE IF ei = 0 /\ st.state = 1 THEN [st EXCEPT !.X = mul(@, @)]
       ELSE IF nbits < wsize THEN [st EXCEPT !.state = 2, !.nbits = nbits, !.wbits = wbits]
       ELSE [st EXCEPT !.X = mul(Squares(@, wsize), W[wbits]), !.state = 1, !.nbits = 0, !.wbits = 0]

(* The bits after the last full window, one by one. *)
LastBits(st, wsize, first, m) ==
    LET mul(x, y) == MontMul(x, y, m.N, m.mm)
        RECURSIVE Go(_, _, _)
        Go(x, k, wbits) ==
          IF k = 0 THEN x
          ELSE LET sq == mul(x, x)
               IN Go(IF Bit(2 * wbits, wsize) = 1 THEN mul(sq, first) ELSE sq, k - 1, 2 * wbits)
    IN Go(st.X, st.nbits, st.wbits)

(* R^2 modulo N, or what an earlier call left in RR. *)
SquareOfR(N, RR) ==
    LET square == ShiftL(IntMpi(1), Size(N) * 2 * BiL)
    IN IF RR.p = <<>> THEN ModMpi(square, square, N, "R").X ELSE RR

ExpMod(X, A, E, N, RR) ==
    LET m == [N |-> N, mm |-> MontgInit(N)]
        mul(x, y) == MontMul(x, y, N, m.mm)
        room(x) == Grow(x, Size(N) + 1)
        wsize == WindowSize(Msb(E))
        rr == SquareOfR(N, RR)
        first == mul(IF CmpMpi(A, N) >= 0 THEN ModMpi(room(MpiInit), A, N, "").X ELSE Copy(room(MpiInit), A), rr)
        half == 2 ^ (wsize - 1)
        W[k \in 1..2 ^ wsize - 1] ==
            IF k = 1 \/ wsize = 1 THEN first
            ELSE IF k = half THEN FoldLeft(LAMBDA x, i : mul(x, x), first, [i \in 1..wsize - 1 |-> i])
            ELSE mul(W[k - 1], first)
        start == [X |-> MontRed(Copy(room(X), rr), N, m.mm), left |-> Size(E) * BiL,
                  state |-> 0, nbits |-> 0, wbits |-> 0]
        RECURSIVE Scan(_)
        Scan(st) ==
          IF st.left = 0 THEN st
          ELSE LET left == st.left - 1
               IN Scan([WindowBit(st, BitOf(E, left), wsize, W, m) EXCEPT !.left = left])
    IN IF CmpInt(N, 0) < 0 \/ Limb(N, 0) % 2 = 0
       THEN [ret |-> "BAD_INPUT_DATA", X |-> X, RR |-> RR]
       ELSE [ret |-> Ok, X |-> MontRed(LastBits(Scan(start), wsize, first, m), N, m.mm), RR |-> rr]

-----------------------------------------------------------------------------
(* Greatest common divisor and inverse, with shifts and subtractions.      *)

RECURSIVE MakeOdd(_)
MakeOdd(X) == IF Limb(X, 0) % 2 = 0 THEN MakeOdd(ShiftR(X, 1)) ELSE X

(* TG stays 1: a factor 2 the two have in common is not counted.           *)
Gcd(A, B) ==
    LET RECURSIVE Go(_, _)
        Go(a, b) ==
          IF CmpInt(a, 0) = 0 THEN b
          ELSE LET x == MakeOdd(a)
                   y == MakeOdd(b)
               IN IF CmpMpi(x, y) >= 0 THEN Go(ShiftR(SubAbs(x, x, y).X, 1), y)
                  ELSE Go(x, ShiftR(SubAbs(y, y, x).X, 1))
    IN MulMpi(MpiInit, IntMpi(1),
              Go([Copy(MpiInit, A) EXCEPT !.s = 1], [Copy(MpiInit, B) EXCEPT !.s = 1]))

(* u = a * TA + b * TB is halved while it is even. *)
RECURSIVE Halve(_, _, _)
Halve(t, TB, TA) ==
    LET odd == Limb(t.a, 0) % 2 # 0 \/ Limb(t.b, 0) % 2 # 0
        a == IF odd THEN AddMpi(t.a, t.a, TB) ELSE t.a
        b == IF odd THEN SubMpi(t.b, t.b, TA) ELSE t.b
    IN IF Limb(t.u, 0) % 2 # 0 THEN t
       ELSE Halve([u |-> ShiftR(t.u, 1), a |-> ShiftR(a, 1), b |-> ShiftR(b, 1)], TB, TA)

InvMod(X, A, N) ==
    LET TA == ModMpi(MpiInit, A, N, "").X
        less(t, v) == [u |-> SubMpi(t.u, t.u, v.u), a |-> SubMpi(t.a, t.a, v.a), b |-> SubMpi(t.b, t.b, v.b)]
        RECURSIVE Go(_, _)
        Go(t, v) ==
          LET x == Halve(t, N, TA)
              y == Halve(v, N, TA)
              larger == CmpMpi(x.u, y.u) >= 0
              x1 == IF larger THEN less(x, y) ELSE x
              y1 == IF larger THEN y ELSE less(y, x)
          IN IF CmpInt(x1.u, 0) = 0 THEN y1.a ELSE Go(x1, y1)
        RECURSIVE Up(_)
        Up(v) == IF CmpInt(v, 0) < 0 THEN Up(AddMpi(v, v, N)) ELSE v
        RECURSIVE Down(_)
        Down(v) == IF CmpMpi(v, N) >= 0 THEN Down(SubMpi(v, v, N)) ELSE v
    IN IF CmpInt(N, 0) <= 0 THEN [ret |-> "BAD_INPUT_DATA", X |-> X]
       ELSE IF CmpInt(Gcd(A, N), 1) # 0 THEN [ret |-> "NOT_ACCEPTABLE", X |-> X]
       ELSE [ret |-> Ok,
             X |-> Copy(X, Down(Up(Go([u |-> TA, a |-> IntMpi(1), b |-> IntMpi(0)],
                                      [u |-> N, a |-> IntMpi(0), b |-> IntMpi(1)]))))]

-----------------------------------------------------------------------------
(* Primes.                                                                 *)

SmallPrimes == {p \in 3..LastPrime : \A d \in 2..p - 1 : p % d # 0}

Rounds(bits) ==
    IF bits >= 1300 THEN 2 ELSE IF bits >= 850 THEN 3 ELSE IF bits >= 650 THEN 4
    ELSE IF bits >= 350 THEN 8 ELSE IF bits >= 250 THEN 12 ELSE IF bits >= 150 THEN 18 ELSE 27

(* A round: s is 0, so that the number raised is W itself and no squares   *)
(* follow: 1 is the only result that passes (or W).                        *)
Passes(X, W, raw) ==
    LET shifted == ShiftR(raw, Msb(raw) - Msb(W) + 1)
        A == [shifted EXCEPT !.p[1] = @ - (@ % 4) + 3]
        r == ExpMod(A, A, W, X, MpiInit)
    IN CmpMpi(r.X, W) = 0 \/ CmpInt(r.X, 1) = 0

(* mpi_is_prime: rand[i] is the number made of the random bytes of round i. *)
(* A number no larger than a small prime is taken for one if no smaller    *)
(* one divides it.                                                         *)
IsPrime(X0, rand) ==
    LET X == [X0 EXCEPT !.s = 1]
        W == SubInt(MpiInit, X, 1)
        reached == {p \in SmallPrimes : \A q \in SmallPrimes : q < p => CmpInt(X, q) > 0 /\ ModInt(X, q).r # 0}
    IN IF CmpInt(X0, 0) = 0 THEN Ok
       ELSE IF Limb(X, 0) % 2 = 0 THEN "NOT_ACCEPTABLE"
       ELSE IF \E p \in reached : CmpInt(X, p) <= 0 THEN Ok
       ELSE IF \E p \in reached : ModInt(X, p).r = 0 THEN "NOT_ACCEPTABLE"
       ELSE IF \A i \in 1..Rounds(Msb(X)) : Passes(X, W, rand[i]) THEN Ok
       ELSE "NOT_ACCEPTABLE"

(* mpi_gen_prime: from a number of nbits bits that is 3 modulo 4, the next *)
(* odd number that passes; with dh_flag, one whose half passes as well.    *)
GenPrime(nbits, dh, raw, rand) ==
    LET k == Msb(raw)
        x0 == IF k < nbits THEN ShiftL(raw, nbits - k) ELSE ShiftR(raw, k - nbits)
        x == [x0 EXCEPT !.p[1] = @ - (@ % 4) + 3]
        RECURSIVE From(_, _)
        From(X, Y) ==
          IF IsPrime(X, rand) = Ok /\ (dh => IsPrime(Y, rand) = Ok) THEN X
          ELSE From(AddInt(X, X, 2), ShiftR(AddInt(Y, X, 1), 1))
    IN IF nbits < 3 THEN [ret |-> "BAD_INPUT_DATA", X |-> raw] ELSE [ret |-> Ok, X |-> From(x, ShiftR(SubInt(MpiInit, x, 1), 1))]
=============================================================================
