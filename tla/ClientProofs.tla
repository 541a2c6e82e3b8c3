---------------------------- MODULE ClientProofs -----------------------------
(***************************************************************************)
(* Proofs about libbtpool: the texts of the client and the file that       *)
(* sd_aes_decrypt_file replaces, for any sizes, keys, queries, responses   *)
(* and losses.                                                             *)
(*                                                                         *)
(* The client's invariant says of each packet sent that the server opens   *)
(* it, and of each answer which response it carries.  That an action keeps *)
(* it is shown layer by layer, as the code is built: a number is read back *)
(* from its chars, a cursor writes and reads what comes next of a text, a  *)
(* sealed text opens, and a packet carries the parameters of its query.    *)
(* Of the cipher, the digest and RSA only CipherInverts and RsaInverts are *)
(* used.                                                                   *)
(*                                                                         *)
(* Power and NumberOf are recursive functions: what they are is shown from *)
(* the least element of a set of numbers.                                  *)
(***************************************************************************)
EXTENDS FileStore, QueryClient, FiniteSetTheorems, SequenceTheorems,
        WellFoundedInduction, TLAPS

(***************************************************************************)
(* Induction and recursion over the numbers, from the least element of a   *)
(* set of them.                                                            *)

Less == {ss \in Nat \X Nat : ss[1] < ss[2]}

(* A set of numbers that is not empty has a least one.                     *)
LEMMA LeastNumber ==
    ASSUME NEW T \in SUBSET Nat, T # {}
    PROVE  \E n \in T : \A k \in T : n <= k
<1>1. IsWellFoundedOn(Less, Nat)
  BY NatLessThanWellFounded DEF OpToRel, Less
<1>2. PICK n \in T : \A k \in T : ~(<<k, n>> \in Less)
  BY <1>1, WFMin, Zenon
<1>3. ASSUME NEW k \in T, k < n PROVE FALSE
  BY <1>2, <1>3, <<k, n>> \in Nat \X Nat DEF Less
<1> QED
  BY <1>3

(* Induction, for a set of numbers.                                        *)
LEMMA Induction ==
    ASSUME NEW T \in SUBSET Nat, 0 \in T, \A n \in T : n + 1 \in T
    PROVE  T = Nat
<1>1. ASSUME Nat \ T # {} PROVE FALSE
  <2>1. PICK n \in Nat \ T : \A k \in Nat \ T : n <= k
    BY <1>1, LeastNumber, Zenon
  <2>2. n - 1 \in Nat /\ n - 1 \notin Nat \ T
    BY <2>1
  <2> QED
    BY <2>1, <2>2
<1> QED
  BY <1>1

(* The first n + 1 values of the recursion that starts with a and goes on  *)
(* with G.                                                                 *)
Begun(S, a, G, n) ==
    {g \in [0..n -> S] : g[0] = a /\ \A k \in 1..n : g[k] = G[<<k, g[k - 1]>>]}

(* Two beginnings of a recursion are the same as far as they go.           *)
LEMMA BegunOnce ==
    ASSUME NEW S, NEW a \in S, NEW G \in [Nat \X S -> S], NEW n \in Nat, NEW m \in Nat,
           NEW g \in Begun(S, a, G, n), NEW h \in Begun(S, a, G, m), NEW i \in 0..n, i \in 0..m
    PROVE  g[i] = h[i]
<1> DEFINE T == {k \in Nat : k \in 0..n /\ k \in 0..m => g[k] = h[k]}
<1>1. 0 \in T
  BY DEF Begun
<1>2. ASSUME NEW k \in T PROVE k + 1 \in T
  <2> SUFFICES ASSUME k + 1 \in 0..n, k + 1 \in 0..m PROVE g[k + 1] = h[k + 1]
    OBVIOUS
  <2>1. k \in 0..n /\ k \in 0..m /\ k + 1 \in 1..n /\ k + 1 \in 1..m /\ (k + 1) - 1 = k
    OBVIOUS
  <2> QED
    BY <2>1 DEF Begun
<1>3. T = Nat
  <2> HIDE DEF T
  <2>1. T \in SUBSET Nat
    BY DEF T
  <2> QED
    BY <1>1, <1>2, <2>1, Induction
<1> QED
  BY <1>3

(* A recursion begins for every length.                                    *)
LEMMA BegunEverywhere ==
    ASSUME NEW S, NEW a \in S, NEW G \in [Nat \X S -> S], NEW n \in Nat
    PROVE  Begun(S, a, G, n) # {}
<1> DEFINE T == {k \in Nat : Begun(S, a, G, k) # {}}
<1>1. 0 \in T
  <2>1. [k \in 0..0 |-> a] \in Begun(S, a, G, 0)
    BY DEF Begun
  <2> QED
    BY <2>1
<1>2. ASSUME NEW k \in T PROVE k + 1 \in T
  <2>1. PICK g : g \in Begun(S, a, G, k)
    OBVIOUS
  <2> DEFINE h == [i \in 0..k + 1 |-> IF i = k + 1 THEN G[<<k + 1, g[k]>>] ELSE g[i]]
  <2>2. g \in [0..k -> S] /\ g[0] = a /\ \A i \in 1..k : g[i] = G[<<i, g[i - 1]>>]
    BY <2>1 DEF Begun
  <2>3. g[k] \in S /\ <<k + 1, g[k]>> \in Nat \X S
    BY <2>2
  <2>4. G[<<k + 1, g[k]>>] \in S
    BY <2>3
  <2>5. h \in [0..k + 1 -> S] /\ h[0] = a
    BY <2>2, <2>4
  <2>6. ASSUME NEW i \in 1..k + 1 PROVE h[i] = G[<<i, h[i - 1]>>]
    <3> k \in 0..k + 1 /\ k # k + 1 /\ (k + 1) - 1 = k
      OBVIOUS
    <3>1. CASE i = k + 1
      <4>1. h[k + 1] = G[<<k + 1, g[k]>>] /\ h[k] = g[k]
        OBVIOUS
      <4> QED
        BY <3>1, <4>1
    <3>2. CASE i # k + 1
      BY <2>2, <3>2
    <3> QED
      BY <3>1, <3>2
  <2>7. h \in Begun(S, a, G, k + 1)
    BY <2>5, <2>6 DEF Begun
  <2> QED
    BY <2>7
<1>3. T = Nat
  <2> HIDE DEF T
  <2>1. T \in SUBSET Nat
    BY DEF T
  <2> QED
    BY <1>1, <1>2, <2>1, Induction
<1> QED
  BY <1>3

Recurs(f, S, a, G) ==
    /\ f \in [Nat -> S]
    /\ f[0] = a
    /\ \A n \in Nat \ {0} : f[n] = G[<<n, f[n - 1]>>]

(* There is a function that the recursion defines.                         *)
LEMMA Recursion ==
    ASSUME NEW S, NEW a \in S, NEW G \in [Nat \X S -> S]
    PROVE  \E f : Recurs(f, S, a, G)
<1> DEFINE begun(n) == CHOOSE g : g \in Begun(S, a, G, n)
           f == [n \in Nat |-> begun(n)[n]]
<1>1. ASSUME NEW n \in Nat PROVE begun(n) \in Begun(S, a, G, n)
  BY BegunEverywhere
<1> HIDE DEF begun
<1>2. ASSUME NEW n \in Nat PROVE f[n] \in S
  BY <1>1 DEF Begun
<1>3. f[0] = a
  BY <1>1 DEF Begun
<1>4. ASSUME NEW n \in Nat \ {0} PROVE f[n] = G[<<n, f[n - 1]>>]
  <2>1. n - 1 \in Nat /\ n - 1 \in 0..n /\ n - 1 \in 0..n - 1 /\ n \in 1..n
    BY <1>4
  <2>2. begun(n)[n - 1] = begun(n - 1)[n - 1]
    BY <1>1, <2>1, BegunOnce
  <2>3. begun(n)[n] = G[<<n, begun(n)[n - 1]>>]
    BY <1>1, <2>1 DEF Begun
  <2> QED
    BY <2>1, <2>2, <2>3
<1>5. f \in [Nat -> S]
  BY <1>2
<1> QED
  BY <1>3, <1>4, <1>5 DEF Recurs

(* What the powers are, and the number that chars are. *)

(* What the recursive function Power is.                                   *)
LEMMA Powers ==
    /\ \A n \in Nat : Power(n) \in Nat \ {0}
    /\ Power(0) = 1
    /\ \A n \in Nat : Power(n + 1) = CharBase * Power(n)
<1> DEFINE S == Nat \ {0}
           a == 1
           G == [p \in Nat \X S |-> CharBase * p[2]]
<1>1. G \in [Nat \X S -> S] /\ a \in S
  BY SizesAssumption
<1>2. PICK f : Recurs(f, S, a, G)
  <2> HIDE DEF S, G, a
  <2> QED
    BY <1>1, Recursion
<1>3. ASSUME NEW n \in Nat \ {0} PROVE f[n] = CharBase * f[n - 1]
  <2>1. <<n, f[n - 1]>> \in Nat \X S
    BY <1>2 DEF Recurs
  <2> QED
    BY <1>2, <2>1 DEF Recurs
<1>4. ASSUME NEW n \in Nat PROVE Power(n) = f[n]
  <2> DEFINE g == [k \in 0..n |-> f[k]]
             power == CHOOSE h : h = [k \in 0..n |-> IF k = 0 THEN 1 ELSE CharBase * h[k - 1]]
  <2>1. g = [k \in 0..n |-> IF k = 0 THEN 1 ELSE CharBase * g[k - 1]]
    <3>1. ASSUME NEW k \in 0..n PROVE f[k] = IF k = 0 THEN 1 ELSE CharBase * g[k - 1]
      <4>1. CASE k = 0
        BY <1>2, <4>1 DEF Recurs
      <4>2. CASE k # 0
        <5>1. k \in Nat \ {0} /\ k - 1 \in 0..n
          BY <4>2
        <5>2. f[k] = CharBase * f[k - 1] /\ g[k - 1] = f[k - 1]
          BY <1>3, <5>1
        <5> QED
          BY <4>2, <5>2
      <4> QED
        BY <4>1, <4>2
    <3> QED
      BY <3>1
  <2>2. power = [k \in 0..n |-> IF k = 0 THEN 1 ELSE CharBase * power[k - 1]]
    <3> HIDE DEF g
    <3> QED
      BY <2>1
  <2>3. Power(n) = power[n]
    BY DEF Power
  <2> HIDE DEF power, S
  <2> DEFINE T == {k \in Nat : k \in 0..n => power[k] = f[k]}
  <2>4. 0 \in T
    BY <1>2, <2>2 DEF Recurs
  <2>5. ASSUME NEW k \in T PROVE k + 1 \in T
    <3> SUFFICES ASSUME k + 1 \in 0..n PROVE power[k + 1] = f[k + 1]
      OBVIOUS
    <3>1. k \in 0..n /\ k + 1 # 0 /\ (k + 1) - 1 = k /\ k + 1 \in Nat \ {0}
      OBVIOUS
    <3> QED
      BY <1>3, <2>2, <3>1
  <2>6. T = Nat
    <3> HIDE DEF T
    <3>1. T \in SUBSET Nat
      BY DEF T
    <3> QED
      BY <2>4, <2>5, <3>1, Induction
  <2>7. n \in 0..n
    OBVIOUS
  <2> QED
    BY <2>3, <2>6, <2>7
<1>5. Power(0) = 1
  BY <1>2, <1>4 DEF Recurs
<1>6. ASSUME NEW n \in Nat PROVE Power(n) \in Nat \ {0} /\ Power(n + 1) = CharBase * Power(n)
  <2>1. n + 1 \in Nat \ {0} /\ (n + 1) - 1 = n
    OBVIOUS
  <2> QED
    BY <1>2, <1>3, <1>4, <2>1 DEF Recurs
<1> QED
  BY <1>5, <1>6

(* The division of b * q + r by b.                                         *)
LEMMA Quotient ==
    ASSUME NEW v \in Nat, NEW b \in Nat \ {0}, NEW q \in Nat, NEW r \in 0..b - 1, v = b * q + r
    PROVE  v \div b = q
  OBVIOUS

(* What division and remainder are to each other.                          *)
LEMMA QuotientOf ==
    ASSUME NEW v \in Nat, NEW b \in Nat \ {0}
    PROVE  v \div b \in Nat /\ v % b \in Nat /\ v % b \in 0..b - 1 /\ v = b * (v \div b) + (v % b)
  OBVIOUS

(* Dividing twice is dividing by the product.                              *)
LEMMA QuotientOfQuotient ==
    ASSUME NEW v \in Nat, NEW a \in Nat \ {0}, NEW b \in Nat \ {0}
    PROVE  (v \div a) \div b = v \div (b * a)
<1> DEFINE q == v \div a
           r == v % a
           q2 == q \div b
           r2 == q % b
<1>1. q \in Nat /\ r \in 0..a - 1 /\ v = a * q + r
  BY QuotientOf
<1> HIDE DEF q, r
<1>2. q2 \in Nat /\ r2 \in 0..b - 1 /\ q = b * q2 + r2
  BY <1>1, QuotientOf
<1> HIDE DEF q2, r2
<1>3. b * a \in Nat \ {0}
  OBVIOUS
<1>4. v = (b * a) * q2 + (a * r2 + r)
  <2>1. a * q = a * (b * q2) + a * r2
    BY <1>1, <1>2
  <2>2. a * (b * q2) = (b * a) * q2
    BY <1>2
  <2> QED
    BY <1>1, <1>2, <2>1, <2>2
<1>5. a * r2 + r \in 0..(b * a) - 1
  <2>1. a * r2 <= a * (b - 1)
    BY <1>2
  <2>2. a * (b - 1) = b * a - a
    OBVIOUS
  <2>3. a * r2 \in Nat
    BY <1>2
  <2> QED
    BY <1>1, <2>1, <2>2, <2>3
<1>6. v \div (b * a) = q2
  <2> DEFINE c == b * a
             d == a * r2 + r
  <2>1. c \in Nat \ {0} /\ d \in 0..c - 1 /\ v = c * q2 + d
    BY <1>3, <1>4, <1>5
  <2> HIDE DEF c, d
  <2>2. v \div c = q2
    BY <1>2, <2>1, Quotient
  <2> QED
    BY <2>2 DEF c
<1> QED
  BY <1>6 DEF q2, q

(* The number that chars are, one char more at a time.                     *)
LEMMA NumberByChars ==
    ASSUME NEW s \in Seq(Int)
    PROVE  \E f \in [0..Len(s) -> Int] :
              /\ f[0] = 0 /\ NumberOf(s) = f[Len(s)]
              /\ \A n \in 1..Len(s) : f[n] = s[Len(s) + 1 - n] + CharBase * f[n - 1]
<1> DEFINE N == 0..Len(s)
           char(n) == IF n \in 1..Len(s) THEN s[Len(s) + 1 - n] ELSE 0
           G == [p \in Nat \X Int |-> char(p[1]) + CharBase * p[2]]
<1>1. ASSUME NEW n \in Nat PROVE char(n) \in Int
  <2>1. CASE n \in 1..Len(s)
    <3>1. Len(s) + 1 - n \in 1..Len(s)
      BY <2>1
    <3> QED
      BY <2>1, <3>1, ElementOfSeq
  <2> QED
    BY <2>1
<1>2. G \in [Nat \X Int -> Int]
  <2> HIDE DEF char
  <2> QED
    BY <1>1, SizesAssumption
<1>3. PICK g : Recurs(g, Int, 0, G)
  <2>1. 0 \in Int
    OBVIOUS
  <2> HIDE DEF G
  <2> QED
    BY <1>2, <2>1, Recursion
<1>4. ASSUME NEW n \in 1..Len(s) PROVE g[n] = s[Len(s) + 1 - n] + CharBase * g[n - 1]
  <2>1. n \in Nat \ {0} /\ n - 1 \in Nat /\ <<n, g[n - 1]>> \in Nat \X Int
    BY <1>3 DEF Recurs
  <2> QED
    BY <1>3, <2>1 DEF Recurs
<1> DEFINE f == [n \in N |-> g[n]]
<1>5. f \in [N -> Int] /\ f[0] = 0
  BY <1>3 DEF Recurs
<1>6. ASSUME NEW n \in 1..Len(s) PROVE f[n] = s[Len(s) + 1 - n] + CharBase * f[n - 1]
  BY <1>4
<1>7. f = [n \in N |-> IF n = 0 THEN 0 ELSE s[Len(s) + 1 - n] + CharBase * f[n - 1]]
  <2> HIDE DEF f
  <2>1. ASSUME NEW n \in N PROVE f[n] = IF n = 0 THEN 0 ELSE s[Len(s) + 1 - n] + CharBase * f[n - 1]
    BY <1>5, <1>6
  <2> QED
    BY <1>5, <2>1
<1> DEFINE last == CHOOSE h : h = [n \in N |-> IF n = 0 THEN 0 ELSE s[Len(s) + 1 - n] + CharBase * h[n - 1]]
<1>8. last = [n \in N |-> IF n = 0 THEN 0 ELSE s[Len(s) + 1 - n] + CharBase * last[n - 1]]
  <2> HIDE DEF f
  <2> QED
    BY <1>7
<1>9. NumberOf(s) = last[Len(s)]
  BY DEF NumberOf
<1> HIDE DEF last, f
<1> Len(s) \in Nat
  OBVIOUS
<1>10. ASSUME NEW n \in N PROVE last[n] \in Int
  <2> DEFINE T == {k \in Nat : k \in N => last[k] \in Int}
  <2>1. T \in SUBSET Nat /\ 0 \in T
    <3>1. 0 \in N
      OBVIOUS
    <3>2. last[0] = 0
      BY <1>8, <3>1
    <3> QED
      BY <3>2
  <2>2. ASSUME NEW k \in T PROVE k + 1 \in T
    <3> SUFFICES ASSUME k + 1 \in N PROVE last[k + 1] \in Int
      OBVIOUS
    <3>1. k \in N /\ k + 1 \in 1..Len(s) /\ (k + 1) - 1 = k /\ Len(s) + 1 - (k + 1) \in 1..Len(s)
      OBVIOUS
    <3>2. s[Len(s) + 1 - (k + 1)] \in Int
      BY <3>1, ElementOfSeq
    <3> QED
      BY <1>8, <3>1, <3>2, SizesAssumption
  <2>3. T = Nat
    <3> HIDE DEF T
    <3> QED
      BY <2>1, <2>2, Induction
  <2> QED
    BY <2>3
<1>11. last \in [N -> Int] /\ last[0] = 0
  <2>1. DOMAIN last = N /\ 0 \in N /\ last[0] = 0
    BY <1>8
  <2>2. last = [n \in N |-> last[n]]
    BY <1>8, <2>1
  <2> QED
    BY <1>10, <2>1, <2>2
<1>12. ASSUME NEW n \in 1..Len(s) PROVE last[n] = s[Len(s) + 1 - n] + CharBase * last[n - 1]
  <2>1. n \in N /\ n # 0
    OBVIOUS
  <2> QED
    BY <1>8, <2>1
<1> QED
  BY <1>9, <1>11, <1>12

(* A number that fits n chars is read back from them: set_..._to_lt and    *)
(* get_..._from_lt of bytebuffer.c are inverse to each other.              *)
THEOREM NumberReadBack ==
    ASSUME NEW n \in Nat, NEW v \in 0..Power(n) - 1
    PROVE  /\ Chars(v, n) \in Seq(CharSet) /\ Len(Chars(v, n)) = n
           /\ NumberOf(Chars(v, n)) = v
<1> DEFINE s == Chars(v, n)
<1>1. ASSUME NEW i \in 1..n PROVE (v \div Power(i - 1)) % CharBase \in CharSet
  <2>1. i - 1 \in Nat /\ Power(i - 1) \in Nat \ {0} /\ v \in Nat
    BY Powers
  <2>2. v \div Power(i - 1) \in Nat
    BY <2>1, QuotientOf
  <2> QED
    BY <2>2, QuotientOf, SizesAssumption DEF CharSet
<1>2. s \in Seq(CharSet) /\ Len(s) = n
  <2>1. s \in [1..n -> CharSet]
    BY <1>1 DEF Chars
  <2> QED
    BY <2>1
<1>3. s \in Seq(Int)
  <2>1. CharSet \subseteq Int
    BY SizesAssumption DEF CharSet
  <2> HIDE DEF s
  <2> QED
    BY <1>2, <2>1, SeqMonotonic
<1>4. PICK f \in [0..Len(s) -> Int] :
        /\ f[0] = 0 /\ NumberOf(s) = f[Len(s)]
        /\ \A k \in 1..Len(s) : f[k] = s[Len(s) + 1 - k] + CharBase * f[k - 1]
  <2> HIDE DEF s
  <2> QED
    BY <1>3, NumberByChars
<1> DEFINE T == {k \in Nat : k \in 0..n => f[k] = v \div Power(n - k)}
<1>5. T \in SUBSET Nat /\ 0 \in T
  <2>1. v \in Nat /\ Power(n) \in Nat \ {0} /\ v \in 0..Power(n) - 1 /\ n - 0 = n
    BY Powers
  <2>2. v = Power(n) * 0 + v
    BY <2>1
  <2>3. v \div Power(n) = 0
    BY <2>1
  <2> QED
    BY <1>4, <2>1, <2>3
<1>6. ASSUME NEW k \in T PROVE k + 1 \in T
  <2> SUFFICES ASSUME k + 1 \in 0..n PROVE f[k + 1] = v \div Power(n - (k + 1))
    OBVIOUS
  <2> DEFINE m == n - (k + 1)
  <2>1. m \in Nat /\ m + 1 = n - k /\ (k + 1) - 1 = k /\ n + 1 - (k + 1) = m + 1 /\ (m + 1) - 1 = m
        /\ m + 1 \in 1..n /\ k + 1 \in 1..n /\ k \in 0..n
    OBVIOUS
  <2>2. s[m + 1] = (v \div Power(m)) % CharBase
    BY <2>1 DEF Chars
  <2>3. f[k + 1] = s[m + 1] + CharBase * f[k]
    BY <1>2, <1>4, <2>1
  <2>4. f[k] = v \div Power(m + 1)
    BY <2>1
  <2>5. Power(m) \in Nat \ {0} /\ CharBase \in Nat \ {0} /\ Power(m + 1) = CharBase * Power(m) /\ v \in Nat
    <3> HIDE DEF m
    <3>1. Power(m + 1) = CharBase * Power(m) /\ Power(m) \in Nat \ {0} /\ Power(n) \in Nat \ {0}
      BY <2>1, Powers
    <3> QED
      BY <3>1, SizesAssumption
  <2>6. v \div Power(m + 1) = (v \div Power(m)) \div CharBase
    BY <2>5, QuotientOfQuotient
  <2>7. v \div Power(m) \in Nat
    BY <2>5, QuotientOf
  <2>8. v \div Power(m) = CharBase * ((v \div Power(m)) \div CharBase) + ((v \div Power(m)) % CharBase)
    BY <2>5, <2>7, QuotientOf
  <2>9. (v \div Power(m)) \div CharBase \in Nat /\ (v \div Power(m)) % CharBase \in Nat
    <3> DEFINE q == v \div Power(m)
    <3> HIDE DEF q
    <3>1. q \in Nat => q \div CharBase \in Nat /\ q % CharBase \in Nat
      BY SizesAssumption, QuotientOf
    <3> QED
      BY <2>7, <3>1 DEF q
  <2> HIDE DEF m
  <2>10. f[k + 1] = v \div Power(m)
    BY <2>2, <2>3, <2>4, <2>6, <2>8, <2>9, <2>5
  <2> QED
    BY <2>10 DEF m
<1>7. T = Nat
  <2> HIDE DEF T
  <2> QED
    BY <1>5, <1>6, Induction
<1>8. f[n] = v \div Power(0)
  <2>1. n \in 0..n /\ n - n = 0
    OBVIOUS
  <2> QED
    BY <1>7, <2>1
<1>9. v \div 1 = v
  OBVIOUS
<1> QED
  BY <1>2, <1>4, <1>8, <1>9, Powers

-----------------------------------------------------------------------------
(* The cursor of a ByteBuffer.  While a text is written the memory begins  *)
(* with what is written and is zero behind it (Written), and what comes    *)
(* next is the rest of the text (ToWrite).                                 *)

(* What a concatenation is.                                                *)
LEMMA Joins ==
    ASSUME NEW s \in Seq(Int), NEW t \in Seq(Int)
    PROVE  /\ s \o t \in Seq(Int) /\ Len(s \o t) = Len(s) + Len(t)
           /\ Len(s) \in Nat /\ Len(t) \in Nat
           /\ \A i \in 1..Len(s) : (s \o t)[i] = s[i]
           /\ \A i \in 1..Len(t) : (s \o t)[Len(s) + i] = t[i]
           /\ \A i \in Len(s) + 1..Len(s) + Len(t) : (s \o t)[i] = t[i - Len(s)]
<1>1. Len(s) \in Nat /\ Len(t) \in Nat
  OBVIOUS
<1>2. /\ s \o t \in Seq(Int) /\ Len(s \o t) = Len(s) + Len(t)
      /\ \A i \in 1..Len(s) + Len(t) : (s \o t)[i] = IF i <= Len(s) THEN s[i] ELSE t[i - Len(s)]
  BY ConcatProperties
<1>3. \A i \in 1..Len(s) : (s \o t)[i] = s[i]
  BY <1>1, <1>2
<1>4. \A i \in 1..Len(t) : (s \o t)[Len(s) + i] = t[i]
  <2> TAKE i \in 1..Len(t)
  <2>1. Len(s) + i \in 1..Len(s) + Len(t) /\ ~(Len(s) + i <= Len(s)) /\ (Len(s) + i) - Len(s) = i
    BY <1>1
  <2> QED
    BY <1>2, <2>1
<1>5. \A i \in Len(s) + 1..Len(s) + Len(t) : (s \o t)[i] = t[i - Len(s)]
  BY <1>1, <1>2
<1> QED
  BY <1>1, <1>2, <1>3, <1>4, <1>5

(* The empty sequence.                                                     *)
LEMMA Empty ==
    /\ <<>> \in Seq(Int) /\ Len(<<>>) = 0
    /\ \A s \in Seq(Int) : s \o <<>> = s /\ <<>> \o s = s /\ (Len(s) = 0 => s = <<>>)
<1>1. \A s \in Seq(Int) : s \o <<>> = s /\ <<>> \o s = s
  BY ConcatEmptySeq
<1> QED
  BY <1>1, EmptySeq

(* The memory of calloc.                                                   *)
LEMMA ZerosTyped ==
    ASSUME NEW n \in Nat
    PROVE  Zeros(n) \in Seq(Int) /\ Len(Zeros(n)) = n /\ \A i \in 1..n : Zeros(n)[i] = 0
<1>1. Zeros(n) \in [1..n -> Int]
  BY DEF Zeros
<1> QED
  BY <1>1 DEF Zeros

(* Overwriting leaves the memory as long as it was.                        *)
LEMMA OverwrittenTyped ==
    ASSUME NEW m \in Seq(Int), NEW s \in Seq(Int), NEW p \in Int
    PROVE  Overwritten(m, p, s) \in Seq(Int) /\ Len(Overwritten(m, p, s)) = Len(m)
<1> DEFINE new(i) == IF i \in p..p + Len(s) - 1 THEN s[i - p + 1] ELSE m[i]
<1>1. ASSUME NEW i \in 1..Len(m) PROVE new(i) \in Int
  <2>1. m[i] \in Int
    BY ElementOfSeq
  <2>2. i \in p..p + Len(s) - 1 => i - p + 1 \in 1..Len(s)
    OBVIOUS
  <2>3. i \in p..p + Len(s) - 1 => s[i - p + 1] \in Int
    BY <2>2, ElementOfSeq
  <2> QED
    BY <2>1, <2>3
<1>2. Overwritten(m, p, s) = [i \in 1..Len(m) |-> new(i)]
  BY DEF Overwritten
<1> HIDE DEF new
<1>3. [i \in 1..Len(m) |-> new(i)] \in [1..Len(m) -> Int]
  BY <1>1
<1>4. Len(m) \in Nat
  OBVIOUS
<1> QED
  BY <1>2, <1>3, <1>4

(* p is written, and nothing after it up to n.                             *)
Written(c, p, n) ==
    /\ p \in Seq(Int) /\ Len(p) <= n
    /\ c = [mem |-> p \o Zeros(n - Len(p)), at |-> Len(p) + 1, left |-> n - Len(p)]

(* What comes next of t is r.                                              *)
ToWrite(c, t, r, n) == \E p \in Seq(Int) : Written(c, p, n) /\ t = p \o r

(* What is written behind p comes next in the memory.                      *)
LEMMA OverwrittenNext ==
    ASSUME NEW n \in Nat, NEW p \in Seq(Int), NEW s \in Seq(Int), Len(p) + Len(s) <= n
    PROVE  Overwritten(p \o Zeros(n - Len(p)), Len(p) + 1, s)
             = (p \o s) \o Zeros(n - Len(p \o s))
<1> DEFINE z == Zeros(n - Len(p))
           y == Zeros(n - Len(p \o s))
           a == Overwritten(p \o z, Len(p) + 1, s)
           b == (p \o s) \o y
           k == Len(p)
           l == Len(s)
<1>1. k \in Nat /\ l \in Nat /\ k + l <= n
  OBVIOUS
<1>2. z \in Seq(Int) /\ Len(z) = n - k /\ \A i \in 1..n - k : z[i] = 0
  <2>1. n - Len(p) \in Nat
    BY <1>1
  <2> QED
    BY <2>1, ZerosTyped
<1>3. /\ p \o s \in Seq(Int) /\ Len(p \o s) = k + l
      /\ \A i \in 1..k : (p \o s)[i] = p[i]
      /\ \A i \in k + 1..k + l : (p \o s)[i] = s[i - k]
  BY Joins
<1>4. y \in Seq(Int) /\ Len(y) = n - (k + l) /\ \A i \in 1..n - (k + l) : y[i] = 0
  <2>1. n - Len(p \o s) \in Nat /\ n - Len(p \o s) = n - (k + l)
    BY <1>1, <1>3
  <2> QED
    BY <2>1, ZerosTyped
<1> HIDE DEF z, y
<1>5. /\ p \o z \in Seq(Int) /\ Len(p \o z) = n
      /\ \A i \in 1..k : (p \o z)[i] = p[i]
      /\ \A i \in k + 1..n : (p \o z)[i] = z[i - k]
  <2>1. k + Len(z) = n
    BY <1>1, <1>2
  <2> QED
    BY <1>2, <2>1, Joins
<1>6. /\ b \in Seq(Int) /\ Len(b) = n
      /\ \A i \in 1..k + l : b[i] = (p \o s)[i]
      /\ \A i \in k + l + 1..n : b[i] = y[i - (k + l)]
  <2> DEFINE u == p \o s
  <2>1. u \in Seq(Int) /\ Len(u) = k + l /\ Len(u) + Len(y) = n
    BY <1>1, <1>3, <1>4
  <2> HIDE DEF u
  <2>2. /\ u \o y \in Seq(Int) /\ Len(u \o y) = n
        /\ \A i \in 1..Len(u) : (u \o y)[i] = u[i]
        /\ \A i \in Len(u) + 1..n : (u \o y)[i] = y[i - Len(u)]
    BY <1>4, <2>1, Joins
  <2> QED
    BY <2>1, <2>2 DEF u
<1>7. a \in Seq(Int) /\ Len(a) = n
  <2>1. k + 1 \in Int
    BY <1>1
  <2> QED
    BY <1>5, <2>1, OverwrittenTyped
<1>8. ASSUME NEW i \in 1..n PROVE a[i] = b[i]
  <2>1. a[i] = IF i \in k + 1..k + 1 + l - 1 THEN s[i - (k + 1) + 1] ELSE (p \o z)[i]
    BY <1>5 DEF Overwritten
  <2> HIDE DEF a, b
  <2>2. CASE i \in 1..k
    <3>1. i \notin k + 1..k + 1 + l - 1 /\ i \in 1..k + l
      BY <1>1, <2>2
    <3> QED
      BY <1>3, <1>5, <1>6, <2>1, <2>2, <3>1
  <2>3. CASE i \in k + 1..k + l
    <3>1. i \in k + 1..k + 1 + l - 1 /\ i \in 1..k + l /\ i - (k + 1) + 1 = i - k
      BY <1>1, <2>3
    <3> QED
      BY <1>3, <1>6, <2>1, <2>3, <3>1
  <2>4. CASE i \in k + l + 1..n
    <3>1. i \notin k + 1..k + 1 + l - 1 /\ i \in k + 1..n /\ i - k \in 1..n - k
          /\ i - (k + l) \in 1..n - (k + l)
      BY <1>1, <2>4
    <3> QED
      BY <1>2, <1>4, <1>5, <1>6, <2>1, <2>4, <3>1
  <2> QED
    BY <1>1, <2>2, <2>3, <2>4
<1> HIDE DEF a, b
<1>9. a = b
  BY <1>6, <1>7, <1>8, SeqEqual
<1> QED
  BY <1>9 DEF a, b, z, y

(* The fresh cursor over n zeros has all to write.                         *)
LEMMA StartsToWrite ==
    ASSUME NEW n \in Nat, NEW t \in Seq(Int)
    PROVE  ToWrite(Cursor(Zeros(n), n), t, t, n)
<1>1. n - Len(<<>>) = n /\ Len(<<>>) + 1 = 1 /\ <<>> \o t = t /\ <<>> \o Zeros(n) = Zeros(n)
  BY Empty, ZerosTyped
<1>2. Cursor(Zeros(n), n)
        = [mem |-> <<>> \o Zeros(n - Len(<<>>)), at |-> Len(<<>>) + 1, left |-> n - Len(<<>>)]
  BY <1>1 DEF Cursor
<1>3. Written(Cursor(Zeros(n), n), <<>>, n)
  BY <1>1, <1>2, Empty DEF Written
<1> QED
  BY <1>1, <1>3, Empty DEF ToWrite

(* sd_set_bytes: what comes next is written, and the rest remains.         *)
LEMMA SetBytesWrites ==
    ASSUME NEW n \in Nat, NEW c, NEW t \in Seq(Int), Len(t) <= n,
           NEW s \in Seq(Int), NEW r \in Seq(Int), ToWrite(c, t, s \o r, n)
    PROVE  /\ Len(s) > 0 => SetBytes(c, s).ret = "OK"
           /\ ToWrite(SetBytes(c, s).c, t, r, n)
<1>1. PICK p \in Seq(Int) : Written(c, p, n) /\ t = p \o (s \o r)
  BY DEF ToWrite
<1>2. /\ p \o s \in Seq(Int) /\ Len(p \o s) = Len(p) + Len(s) /\ Len(p) + Len(s) <= n
      /\ t = (p \o s) \o r
  <2>1. /\ s \o r \in Seq(Int) /\ Len(s \o r) = Len(s) + Len(r)
        /\ p \o s \in Seq(Int) /\ Len(p \o s) = Len(p) + Len(s)
    BY Joins
  <2>2. Len(p \o (s \o r)) = Len(p) + Len(s \o r)
    BY <2>1, Joins
  <2>3. (p \o s) \o r = p \o (s \o r)
    BY ConcatAssociative
  <2> QED
    BY <1>1, <2>1, <2>2, <2>3
<1>3. CASE Len(s) = 0
  <2>1. SetBytes(c, s).c = c /\ s \o r = r
    BY <1>3, Empty DEF SetBytes, Failed
  <2> QED
    BY <1>3, <2>1
<1>4. CASE Len(s) > 0
  <2>1. c.left = n - Len(p) /\ c.at = Len(p) + 1 /\ c.mem = p \o Zeros(n - Len(p))
    BY <1>1 DEF Written
  <2>2. Len(s) # 0 /\ ~(c.left < Len(s))
    BY <1>2, <1>4, <2>1
  <2>3. /\ SetBytes(c, s).ret = "OK"
        /\ SetBytes(c, s).c = Advance(c, Overwritten(c.mem, c.at, s), Len(s))
    BY <2>2 DEF SetBytes
  <2>4. Overwritten(c.mem, c.at, s) = (p \o s) \o Zeros(n - Len(p \o s))
    <3>1. Overwritten(p \o Zeros(n - Len(p)), Len(p) + 1, s) = (p \o s) \o Zeros(n - Len(p \o s))
      BY <1>2, OverwrittenNext
    <3> QED
      BY <2>1, <3>1
  <2>5. Advance(c, Overwritten(c.mem, c.at, s), Len(s))
          = [mem |-> Overwritten(c.mem, c.at, s), at |-> (Len(p) + 1) + Len(s), left |-> (n - Len(p)) - Len(s)]
    BY <2>1 DEF Advance
  <2>6. (Len(p) + 1) + Len(s) = Len(p \o s) + 1 /\ (n - Len(p)) - Len(s) = n - Len(p \o s)
        /\ Len(p \o s) <= n
    BY <1>2
  <2>7. Written(SetBytes(c, s).c, p \o s, n)
    BY <1>2, <2>3, <2>4, <2>5, <2>6 DEF Written
  <2> QED
    BY <1>2, <2>3, <2>7 DEF ToWrite
<1> QED
  BY <1>3, <1>4

(* Where nothing remains to write the memory holds the text.               *)
LEMMA WrittenIsRead ==
    ASSUME NEW n \in Nat, NEW c, NEW t \in Seq(Int), Len(t) <= n, ToWrite(c, t, <<>>, n)
    PROVE  /\ c.left = n - Len(t) /\ CharsAt(c.mem, 1, Len(t)) = t
           /\ Len(t) = n => c.mem = t
<1>1. Written(c, t, n)
  BY Empty DEF ToWrite
<1> DEFINE z == Zeros(n - Len(t))
<1>2. z \in Seq(Int) /\ Len(z) = n - Len(t)
  <2>1. n - Len(t) \in Nat
    OBVIOUS
  <2> QED
    BY <2>1, ZerosTyped
<1>3. c.left = n - Len(t) /\ c.mem = t \o z
  BY <1>1 DEF Written
<1> HIDE DEF z
<1>4. t \o z \in Seq(Int) /\ Len(t \o z) = n /\ Len(t) \in Nat /\ \A i \in 1..Len(t) : (t \o z)[i] = t[i]
  BY <1>2, Joins
<1>5. \A i \in 1..Len(t) : i \in DOMAIN c.mem /\ 1 + i - 1 = i
  BY <1>3, <1>4
<1>6. CharsAt(c.mem, 1, Len(t)) = [i \in 1..Len(t) |-> t[i]]
  BY <1>3, <1>4, <1>5 DEF CharsAt
<1>7. CharsAt(c.mem, 1, Len(t)) = t
  BY <1>6
<1>8. Len(t) = n => z = <<>>
  BY <1>2, Empty
<1> QED
  BY <1>3, <1>7, <1>8, Empty

-----------------------------------------------------------------------------
(* While a text is read, what comes next is its rest and then the end      *)
(* (ToRead).                                                               *)

(* The chars of any number.                                                *)
LEMMA CharsTyped ==
    ASSUME NEW n \in Nat, NEW v \in Nat
    PROVE  /\ Chars(v, n) \in Seq(CharSet) /\ Chars(v, n) \in Seq(Int) /\ Len(Chars(v, n)) = n
<1>1. ASSUME NEW i \in 1..n PROVE (v \div Power(i - 1)) % CharBase \in CharSet
  <2>1. i - 1 \in Nat /\ Power(i - 1) \in Nat \ {0}
    BY Powers
  <2>2. v \div Power(i - 1) \in Nat
    BY <2>1, QuotientOf
  <2> QED
    BY <2>2, QuotientOf, SizesAssumption DEF CharSet
<1>2. Chars(v, n) \in [1..n -> CharSet]
  BY <1>1 DEF Chars
<1>3. Chars(v, n) \in Seq(CharSet) /\ Len(Chars(v, n)) = n
  BY <1>2
<1>4. CharSet \subseteq Int
  BY SizesAssumption DEF CharSet
<1> QED
  BY <1>3, <1>4, SeqMonotonic

(* The numbers of a text are written, with and without the push.           *)
LEMMA SetToLtWrites ==
    ASSUME NEW n \in Nat, NEW c, NEW t \in Seq(Int), Len(t) <= n,
           NEW k \in Nat \ {0}, NEW v \in Nat, NEW r \in Seq(Int), ToWrite(c, t, Chars(v, k) \o r, n)
    PROVE  /\ SetToLt(c, k, v).ret = "OK" /\ ToWrite(SetToLt(c, k, v).c, t, r, n)
           /\ PushValue(c, k, v) = SetToLt(c, k, v)
<1> DEFINE s == Chars(v, k)
<1>1. s \in Seq(Int) /\ Len(s) = k
  BY CharsTyped
<1> HIDE DEF s
<1>2. ToWrite(c, t, s \o r, n)
  BY DEF s
<1>3. SetBytes(c, s).ret = "OK" /\ ToWrite(SetBytes(c, s).c, t, r, n)
  BY <1>1, <1>2, SetBytesWrites
<1>4. SetToLt(c, k, v) = SetBytes(c, s)
  BY DEF SetToLt, s
<1> QED
  BY <1>3, <1>4 DEF PushValue, Done

(* The bytes of a text are pushed.                                         *)
LEMMA PushBytesWrites ==
    ASSUME NEW n \in Nat, NEW c, NEW t \in Seq(Int), Len(t) <= n,
           NEW s \in Seq(Int), Len(s) > 0, NEW r \in Seq(Int), ToWrite(c, t, s \o r, n)
    PROVE  PushBytes(c, s).ret = "OK" /\ ToWrite(PushBytes(c, s).c, t, r, n)
BY SetBytesWrites DEF PushBytes, Done

(* A string is pushed behind its length.                                   *)
LEMMA PushCStrWrites ==
    ASSUME NEW n \in Nat, NEW c, NEW t \in Seq(Int), Len(t) <= n,
           NEW s \in Seq(Int), NEW r \in Seq(Int),
           ToWrite(c, t, Chars(Len(s), Int32) \o (s \o r), n)
    PROVE  ToWrite(PushCStr(c, s).c, t, r, n)
<1> DEFINE len == SetToLt(c, Int32, Len(s))
<1>1. Len(s) \in Nat /\ s \o r \in Seq(Int) /\ Int32 \in Nat \ {0}
  BY Joins, SizesAssumption
<1>2. len.ret = "OK" /\ ToWrite(len.c, t, s \o r, n)
  <2> DEFINE rest == s \o r
             l == Len(s)
  <2>1. ToWrite(c, t, Chars(l, Int32) \o rest, n) /\ rest \in Seq(Int) /\ l \in Nat
    BY <1>1
  <2> HIDE DEF rest, l
  <2>2. SetToLt(c, Int32, l).ret = "OK" /\ ToWrite(SetToLt(c, Int32, l).c, t, rest, n)
    BY <1>1, <2>1, SetToLtWrites
  <2> QED
    BY <2>2 DEF rest, l
<1> HIDE DEF len
<1>3. CASE Len(s) > 0
  <2>1. ToWrite(PushBytes(len.c, s).c, t, r, n)
    BY <1>2, <1>3, PushBytesWrites
  <2>2. PushCStr(c, s) = PushBytes(len.c, s)
    BY <1>2, <1>3 DEF PushCStr, len
  <2> QED
    BY <2>1, <2>2
<1>4. CASE Len(s) = 0
  <2>1. s \o r = r
    BY <1>4, Empty
  <2>2. PushCStr(c, s) = len
    BY <1>2, <1>4 DEF PushCStr, len
  <2> QED
    BY <1>2, <2>1, <2>2
<1> QED
  BY <1>1, <1>3, <1>4

(* What comes next is r, and then the end.                                 *)
ToRead(c, r) ==
    \E p \in Seq(Int) : c = [mem |-> p \o r, at |-> Len(p) + 1, left |-> Len(r)]

(* The fresh cursor over a text has all of it to read.                     *)
LEMMA StartsToRead ==
    ASSUME NEW t \in Seq(Int)
    PROVE  ToRead(Cursor(t, Len(t)), t)
<1>1. Len(<<>>) + 1 = 1 /\ <<>> \o t = t
  BY Empty
<1>2. Cursor(t, Len(t)) = [mem |-> <<>> \o t, at |-> Len(<<>>) + 1, left |-> Len(t)]
  BY <1>1 DEF Cursor
<1> QED
  BY <1>2, Empty DEF ToRead

(* At the end nothing is left.                                             *)
LEMMA NothingLeft == \A c : ToRead(c, <<>>) => c.left = 0
<1> SUFFICES ASSUME NEW c, ToRead(c, <<>>) PROVE c.left = 0
  OBVIOUS
<1>1. PICK p \in Seq(Int) : c = [mem |-> p \o <<>>, at |-> Len(p) + 1, left |-> Len(<<>>)]
  BY DEF ToRead
<1> QED
  BY <1>1

(* sd_get_bytes: what comes next is read, and the rest remains.            *)
LEMMA GetBytesReads ==
    ASSUME NEW c, NEW s \in Seq(Int), NEW r \in Seq(Int), ToRead(c, s \o r)
    PROVE  /\ GetBytes(c, Len(s)) = [ret |-> "OK", c |-> GetBytes(c, Len(s)).c, value |-> s]
           /\ ToRead(GetBytes(c, Len(s)).c, r)
           /\ c.left = Len(s) + Len(r) /\ GetBytes(c, Len(s)).c.left = Len(r)
<1>1. PICK p \in Seq(Int) : c = [mem |-> p \o (s \o r), at |-> Len(p) + 1, left |-> Len(s \o r)]
  BY DEF ToRead
<1>2. /\ s \o r \in Seq(Int) /\ Len(s \o r) = Len(s) + Len(r) /\ Len(s) \in Nat /\ Len(r) \in Nat
      /\ \A i \in 1..Len(s) : (s \o r)[i] = s[i]
  BY Joins
<1> DEFINE u == s \o r
           m == p \o u
<1> HIDE DEF u
<1>3. /\ m \in Seq(Int) /\ Len(m) = Len(p) + Len(u) /\ Len(p) \in Nat
      /\ \A i \in 1..Len(u) : m[Len(p) + i] = u[i]
  BY <1>2, Joins DEF u
<1> HIDE DEF m
<1>4. c.mem = m /\ c.at = Len(p) + 1 /\ c.left = Len(u)
  BY <1>1 DEF u, m
<1>5. Len(u) = Len(s) + Len(r) /\ \A i \in 1..Len(s) : u[i] = s[i]
  BY <1>2 DEF u
<1>6. ASSUME NEW i \in 1..Len(s)
      PROVE  c.at + i - 1 \in DOMAIN c.mem /\ c.mem[c.at + i - 1] = s[i]
  <2>1. i \in 1..Len(u)
    BY <1>2, <1>5
  <2>2. Len(u) \in Nat
    BY <1>2, <1>5
  <2>3. Len(p) + i \in 1..Len(m)
    BY <1>3, <2>1, <2>2
  <2>4. (Len(p) + 1) + i - 1 = Len(p) + i
    BY <1>3
  <2>5. c.at + i - 1 = Len(p) + i
    BY <1>4, <2>4
  <2>6. DOMAIN m = 1..Len(m)
    BY <1>3
  <2>7. m[Len(p) + i] = s[i]
    BY <1>3, <1>5, <2>1
  <2> QED
    BY <1>4, <2>3, <2>5, <2>6, <2>7
<1>7. CharsAt(c.mem, c.at, Len(s)) = s
  <2>1. CharsAt(c.mem, c.at, Len(s)) = [i \in 1..Len(s) |-> s[i]]
    BY <1>6 DEF CharsAt
  <2> QED
    BY <2>1
<1>8. ~(c.left < Len(s)) /\ ~(Len(s) < 0)
  BY <1>2, <1>4, <1>5
<1>9. GetBytes(c, Len(s)) = [ret |-> "OK", c |-> Advance(c, c.mem, Len(s)), value |-> s]
  BY <1>7, <1>8 DEF GetBytes
<1>10. Advance(c, c.mem, Len(s)) = [mem |-> m, at |-> (Len(p) + 1) + Len(s), left |-> Len(u) - Len(s)]
  BY <1>4 DEF Advance
<1>11. p \o s \in Seq(Int) /\ Len(p \o s) = Len(p) + Len(s) /\ m = (p \o s) \o r
  <2>1. (p \o s) \o r = p \o (s \o r)
    BY ConcatAssociative
  <2> QED
    BY <2>1, Joins DEF m, u
<1>12. (Len(p) + 1) + Len(s) = Len(p \o s) + 1 /\ Len(u) - Len(s) = Len(r)
  BY <1>2, <1>3, <1>5, <1>11
<1>13. Advance(c, c.mem, Len(s)) = [mem |-> (p \o s) \o r, at |-> Len(p \o s) + 1, left |-> Len(r)]
  BY <1>10, <1>11, <1>12
<1>14. ToRead(Advance(c, c.mem, Len(s)), r)
  BY <1>11, <1>13 DEF ToRead
<1>15. GetBytes(c, Len(s)).c = Advance(c, c.mem, Len(s))
  BY <1>9
<1>16. c.left = Len(s) + Len(r) /\ GetBytes(c, Len(s)).c.left = Len(r)
  BY <1>4, <1>5, <1>13, <1>15
<1> QED
  BY <1>9, <1>14, <1>15, <1>16

(* A number is popped, as it was pushed.                                   *)
LEMMA PopValueReads ==
    ASSUME NEW c, NEW n \in Nat, NEW v \in Unsigned(n), NEW r \in Seq(Int),
           ToRead(c, Chars(v, n) \o r)
    PROVE  /\ GetFromLt(c, n).ret = "OK" /\ GetFromLt(c, n).value = v
           /\ ToRead(GetFromLt(c, n).c, r) /\ GetFromLt(c, n).c.left = Len(r)
           /\ PopValue(c, n) = GetFromLt(c, n)
<1> DEFINE s == Chars(v, n)
<1>1. v \in 0..Power(n) - 1 /\ v \in Nat
  BY Powers DEF Unsigned
<1>2. s \in Seq(Int) /\ Len(s) = n /\ NumberOf(s) = v
  BY <1>1, NumberReadBack, CharsTyped
<1>3. ToRead(c, s \o r)
  OBVIOUS
<1> HIDE DEF s
<1>4. /\ GetBytes(c, n) = [ret |-> "OK", c |-> GetBytes(c, n).c, value |-> s]
      /\ ToRead(GetBytes(c, n).c, r) /\ GetBytes(c, n).c.left = Len(r)
  <2>1. /\ GetBytes(c, Len(s)) = [ret |-> "OK", c |-> GetBytes(c, Len(s)).c, value |-> s]
        /\ ToRead(GetBytes(c, Len(s)).c, r) /\ GetBytes(c, Len(s)).c.left = Len(r)
    BY <1>2, <1>3, GetBytesReads
  <2> QED
    BY <1>2, <2>1
<1>5. /\ GetFromLt(c, n).ret = "OK" /\ GetFromLt(c, n).c = GetBytes(c, n).c
      /\ GetFromLt(c, n).value = NumberOf(s)
  <2>1. PICK d : d = GetBytes(c, n).c
    OBVIOUS
  <2>2. GetBytes(c, n) = [ret |-> "OK", c |-> d, value |-> s]
    BY <1>4, <2>1, Zenon
  <2>3. /\ GetFromLt(c, n).ret = "OK" /\ GetFromLt(c, n).c = d
        /\ GetFromLt(c, n).value = NumberOf(s)
    BY <2>2 DEF GetFromLt
  <2> QED
    BY <2>1, <2>3
<1>6. PopValue(c, n) = GetFromLt(c, n)
  BY <1>5 DEF PopValue, Done
<1> QED
  BY <1>2, <1>4, <1>5, <1>6

(* A string is popped, as it was pushed, if its length fits an int.        *)
LEMMA PopStringReads ==
    ASSUME NEW c, NEW s \in Seq(Int), NEW r \in Seq(Int),
           Len(s) < Power(Int32) \div 2, ToRead(c, Chars(Len(s), Int32) \o (s \o r))
    PROVE  PopString(c).value = s /\ ToRead(PopString(c).c, r)
<1> DEFINE len == GetFromLt(c, Int32)
<1>1. Len(s) \in Nat /\ Len(r) \in Nat /\ s \o r \in Seq(Int) /\ Len(s \o r) = Len(s) + Len(r)
  BY Joins
<1>2. Int32 \in Nat /\ Len(s) \in Unsigned(Int32)
  <2>1. Int32 \in Nat /\ Power(Int32) \in Nat \ {0}
    BY SizesAssumption, Powers
  <2>2. Power(Int32) \div 2 <= Power(Int32)
    BY <2>1
  <2> QED
    BY <1>1, <2>1, <2>2 DEF Unsigned
<1>3. len.ret = "OK" /\ len.value = Len(s) /\ ToRead(len.c, s \o r) /\ len.c.left = Len(s \o r)
  BY <1>1, <1>2, PopValueReads
<1> HIDE DEF len
<1>4. Signed(len.value) = Len(s)
  BY <1>3 DEF Signed
<1>5. /\ GetBytes(len.c, Len(s)) = [ret |-> "OK", c |-> GetBytes(len.c, Len(s)).c, value |-> s]
      /\ ToRead(GetBytes(len.c, Len(s)).c, r)
  BY <1>3, GetBytesReads
<1>6. Signed(len.value) \in 0..len.c.left
  BY <1>1, <1>3, <1>4
<1>7. PopString(c) = GetBytes(len.c, Len(s))
  BY <1>3, <1>6 DEF PopString, len
<1> QED
  BY <1>5, <1>7

-----------------------------------------------------------------------------
(* AES by blocks.  What a block is turned into is left to Cipher; what the *)
(* texts need of it is that the deciphering undoes it.                     *)

BlocksOver(S) == {s \in Seq(S) : Len(s) = BlockSize}
Keys == {MD5(t) : t \in Seq(CharSet)}

(* aes_cipher makes chars of whatever the block holds, and aes_invcipher   *)
(* undoes it.                                                              *)
CipherInverts ==
    \A key \in Keys :
       /\ \A b \in BlocksOver(Int) : Cipher(b, key) \in BlocksOver(CharSet)
       /\ \A b \in BlocksOver(CharSet) : InvCipher(Cipher(b, key), key) = b

(* A char is a number.                                                     *)
LEMMA CharsAreInts == CharSet \subseteq Int
BY SizesAssumption DEF CharSet

(* The place of a char in its block.                                       *)
LEMMA PlaceInBlocks ==
    ASSUME NEW b \in Nat \ {0}, NEW q \in Nat, NEW r \in 0..b - 1
    PROVE  (b * q + r) \div b = q /\ (b * q + r) % b = r /\ b * q \in Nat /\ b * q + r \in Nat
<1>1. b * q \in Nat
  OBVIOUS
<1>2. (b * q + r) \div b = q
  BY <1>1, Quotient
<1>3. (b * q + r) = b * ((b * q + r) \div b) + ((b * q + r) % b)
  BY <1>1, QuotientOf
<1> DEFINE v == b * q + r
<1>4. v % b \in Nat
  BY <1>1, QuotientOf
<1> QED
  BY <1>1, <1>2, <1>3, <1>4

(* Blocks joined: each char is at its place.                               *)
LEMMA JoinedTyped ==
    ASSUME NEW S, NEW bs \in Seq(BlocksOver(S))
    PROVE  /\ Joined(bs) \in Seq(S) /\ Len(Joined(bs)) = Len(bs) * BlockSize
           /\ \A b \in 1..Len(bs), j \in 1..BlockSize :
                /\ (b - 1) * BlockSize + j \in 1..Len(bs) * BlockSize
                /\ Joined(bs)[(b - 1) * BlockSize + j] = bs[b][j]
<1> DEFINE k == BlockSize
           n == Len(bs) * k
           of(i) == bs[(i - 1) \div k + 1][((i - 1) % k) + 1]
<1>1. k \in Nat \ {0} /\ Len(bs) \in Nat /\ n \in Nat
  BY BlockSizeAssumption, SizesAssumption
<1>2. ASSUME NEW b \in 1..Len(bs) PROVE bs[b] \in Seq(S) /\ Len(bs[b]) = k
  <2>1. bs[b] \in BlocksOver(S)
    BY ElementOfSeq
  <2> QED
    BY <2>1 DEF BlocksOver
<1>3. ASSUME NEW i \in 1..n PROVE of(i) \in S
  <2> DEFINE q == (i - 1) \div k
             r == (i - 1) % k
  <2>1. q \in Nat /\ r \in 0..k - 1 /\ i - 1 = k * q + r
    <3>1. i - 1 \in Nat
      BY <1>1
    <3> QED
      BY <1>1, <3>1, QuotientOf
  <2> HIDE DEF q, r
  <2>2. q < Len(bs)
    <3>1. ASSUME q >= Len(bs) PROVE FALSE
      <4>1. k * q >= k * Len(bs) /\ k * Len(bs) = n
        BY <1>1, <2>1, <3>1
      <4>2. i - 1 < n /\ k * q \in Nat
        BY <1>1, <2>1
      <4> QED
        BY <1>1, <2>1, <4>1, <4>2
    <3> QED
      BY <1>1, <2>1, <3>1
  <2>3. q + 1 \in 1..Len(bs) /\ r + 1 \in 1..k
    BY <1>1, <2>1, <2>2
  <2>4. bs[q + 1][r + 1] \in S
    BY <1>2, <2>3, ElementOfSeq
  <2> QED
    BY <2>4 DEF q, r
<1>4. Joined(bs) = [i \in 1..n |-> of(i)]
  BY DEF Joined
<1>5. Joined(bs) \in Seq(S) /\ Len(Joined(bs)) = n
  <2> HIDE DEF of, n
  <2>1. Joined(bs) \in [1..n -> S]
    BY <1>3, <1>4
  <2> QED
    BY <1>1, <2>1
<1>6. ASSUME NEW b \in 1..Len(bs), NEW j \in 1..k
      PROVE  (b - 1) * k + j \in 1..n /\ Joined(bs)[(b - 1) * k + j] = bs[b][j]
  <2> DEFINE i == (b - 1) * k + j
             q == b - 1
  <2>1. q \in Nat /\ j - 1 \in 0..k - 1 /\ q * k = k * q /\ k * q \in Nat
    BY <1>1
  <2>2. (k * q + (j - 1)) \div k = q /\ (k * q + (j - 1)) % k = j - 1
    BY <1>1, <2>1, PlaceInBlocks
  <2>3. i - 1 = k * q + (j - 1)
    BY <2>1
  <2>4. i \in 1..n
    <3>1. k * q + k <= n
      <4>1. q + 1 <= Len(bs) /\ k * (q + 1) = k * q + k
        BY <1>1
      <4>2. k * (q + 1) <= k * Len(bs) /\ k * Len(bs) = n
        BY <1>1, <4>1
      <4> QED
        BY <4>1, <4>2
    <3> QED
      BY <1>1, <2>1, <2>3, <3>1
  <2>5. of(i) = bs[b][j]
    <3>1. (i - 1) \div k = q /\ (i - 1) % k = j - 1
      BY <2>2, <2>3
    <3> QED
      BY <3>1
  <2> QED
    BY <1>4, <2>4, <2>5
<1> QED
  BY <1>5, <1>6

(* A text of whole blocks is as long as these are.                         *)
LEMMA BlockOfWhole ==
    ASSUME NEW S, NEW s \in Seq(S), Whole(s)
    PROVE  /\ Blocks(s) \in Nat /\ Len(s) = Blocks(s) * BlockSize
           /\ \A b \in 1..Blocks(s) :
                 /\ BlockOf(s, b) \in BlocksOver(S)
                 /\ \A j \in 1..BlockSize : BlockOf(s, b)[j] = s[(b - 1) * BlockSize + j]
<1> DEFINE k == BlockSize
           n == Blocks(s)
<1>1. k \in Nat \ {0} /\ Len(s) \in Nat
  BY BlockSizeAssumption, SizesAssumption
<1>2. n \in Nat /\ Len(s) = k * n + (Len(s) % k) /\ Len(s) % k = 0
  BY <1>1, QuotientOf DEF Blocks, Whole
<1> HIDE DEF n
<1>3. Len(s) = n * k /\ k * n = n * k
  BY <1>1, <1>2
<1>4. ASSUME NEW b \in 1..n
      PROVE  /\ BlockOf(s, b) \in BlocksOver(S)
             /\ \A j \in 1..k : BlockOf(s, b)[j] = s[(b - 1) * k + j]
  <2> DEFINE o == (b - 1) * k
             e == b * k
  <2>1. o \in Nat /\ e = o + k /\ e <= Len(s)
    <3>1. b - 1 \in Nat /\ b * k = (b - 1) * k + k
      BY <1>1, <1>2
    <3>2. b * k <= n * k
      BY <1>1, <1>2
    <3> QED
      BY <1>1, <1>3, <3>1, <3>2
  <2>2. BlockOf(s, b) = SubSeq(s, o + 1, e)
    BY DEF BlockOf
  <2> HIDE DEF o, e
  <2>3. \A i \in o + 1..e : s[i] \in S
    <3> TAKE i \in o + 1..e
    <3>1. i \in 1..Len(s)
      BY <1>1, <2>1
    <3> QED
      BY <3>1, ElementOfSeq
  <2>4. o + 1 \in Int /\ e \in Int /\ o + 1 <= e /\ e - (o + 1) + 1 = k
    BY <1>1, <2>1
  <2>5. /\ SubSeq(s, o + 1, e) \in Seq(S) /\ Len(SubSeq(s, o + 1, e)) = k
        /\ \A j \in 1..k : SubSeq(s, o + 1, e)[j] = s[(o + 1) + j - 1]
    BY <2>3, <2>4, SubSeqProperties
  <2>6. \A j \in 1..k : (o + 1) + j - 1 = o + j
    BY <1>1, <2>1
  <2>7. \A j \in 1..k : SubSeq(s, o + 1, e)[j] = s[o + j]
    BY <2>5, <2>6
  <2> QED
    BY <2>2, <2>5, <2>7 DEF BlocksOver, o
<1> QED
  BY <1>2, <1>3, <1>4 DEF n

(* The blocks of a text joined are the text.                               *)
LEMMA JoinsBack ==
    ASSUME NEW S, NEW s \in Seq(S), Whole(s)
    PROVE  LET bs == [b \in 1..Blocks(s) |-> BlockOf(s, b)]
           IN bs \in Seq(BlocksOver(S)) /\ Len(bs) = Blocks(s) /\ Joined(bs) = s
<1> DEFINE k == BlockSize
           n == Blocks(s)
           bs == [b \in 1..n |-> BlockOf(s, b)]
<1>1. k \in Nat \ {0} /\ n \in Nat /\ Len(s) = n * k /\ Len(s) \in Nat
  BY BlockOfWhole, BlockSizeAssumption, SizesAssumption
<1>2. \A b \in 1..n : BlockOf(s, b) \in BlocksOver(S) /\ \A j \in 1..k : BlockOf(s, b)[j] = s[(b - 1) * k + j]
  BY BlockOfWhole
<1> HIDE DEF n
<1>3. bs \in Seq(BlocksOver(S)) /\ Len(bs) = n
  <2>1. bs \in [1..n -> BlocksOver(S)]
    BY <1>2
  <2> QED
    BY <1>1, <2>1
<1>4. \A b \in 1..n, j \in 1..k : bs[b][j] = s[(b - 1) * k + j]
  BY <1>2
<1> HIDE DEF bs
<1>5. /\ Joined(bs) \in Seq(S) /\ Len(Joined(bs)) = n * k
      /\ \A b \in 1..n, j \in 1..k : Joined(bs)[(b - 1) * k + j] = bs[b][j]
  BY <1>3, JoinedTyped
<1>6. ASSUME NEW i \in 1..n * k PROVE Joined(bs)[i] = s[i]
  <2> DEFINE q == (i - 1) \div k
             r == (i - 1) % k
  <2>1. q \in Nat /\ r \in 0..k - 1 /\ i - 1 = k * q + r
    <3>1. i - 1 \in Nat
      BY <1>1
    <3> QED
      BY <1>1, <3>1, QuotientOf
  <2> HIDE DEF q, r
  <2>2. q < n
    <3>1. ASSUME q >= n PROVE FALSE
      <4>1. k * q >= k * n /\ k * n = n * k
        BY <1>1, <2>1, <3>1
      <4>2. i - 1 < n * k /\ k * q \in Nat
        BY <1>1, <2>1
      <4> QED
        BY <1>1, <2>1, <4>1, <4>2
    <3> QED
      BY <1>1, <2>1, <3>1
  <2>3. q + 1 \in 1..n /\ r + 1 \in 1..k /\ (q + 1) - 1 = q
    BY <1>1, <2>1, <2>2
  <2>4. i = ((q + 1) - 1) * k + (r + 1)
    <3>1. k * q = q * k
      BY <1>1, <2>1
    <3> QED
      BY <1>1, <2>1, <2>3, <3>1
  <2>5. Joined(bs)[((q + 1) - 1) * k + (r + 1)] = s[((q + 1) - 1) * k + (r + 1)]
    BY <1>4, <1>5, <2>3, Zenon
  <2> QED
    BY <2>4, <2>5, Zenon
<1>7. Joined(bs) = s
  <2> DEFINE t == Joined(bs)
  <2>1. t \in Seq(S) /\ Len(t) = Len(s) /\ \A i \in 1..Len(s) : t[i] = s[i]
    BY <1>1, <1>5, <1>6
  <2> HIDE DEF t
  <2>2. t = s
    BY <2>1, SeqEqual
  <2> QED
    BY <2>2 DEF t
<1> QED
  BY <1>3, <1>7 DEF bs, n

(* The blocks of joined blocks are these.                                  *)
LEMMA BlockOfJoined ==
    ASSUME NEW S, NEW bs \in Seq(BlocksOver(S))
    PROVE  /\ Whole(Joined(bs)) /\ Blocks(Joined(bs)) = Len(bs)
           /\ \A b \in 1..Len(bs) : BlockOf(Joined(bs), b) = bs[b]
<1> DEFINE k == BlockSize
           n == Len(bs)
           t == Joined(bs)
<1>1. k \in Nat \ {0} /\ n \in Nat
  BY BlockSizeAssumption, SizesAssumption
<1>2. /\ t \in Seq(S) /\ Len(t) = n * k
      /\ \A b \in 1..n, j \in 1..k : t[(b - 1) * k + j] = bs[b][j]
  BY JoinedTyped
<1> HIDE DEF t
<1>3. Whole(t) /\ Blocks(t) = n
  <2>1. k * n + 0 = n * k /\ 0 \in 0..k - 1
    BY <1>1
  <2>2. (k * n + 0) \div k = n /\ (k * n + 0) % k = 0
    BY <1>1, <2>1, PlaceInBlocks
  <2> QED
    BY <1>2, <2>1, <2>2 DEF Whole, Blocks
<1>4. ASSUME NEW b \in 1..n PROVE BlockOf(t, b) = bs[b]
  <2> DEFINE u == BlockOf(t, b)
             v == bs[b]
  <2>1. u \in BlocksOver(S) /\ \A j \in 1..k : u[j] = t[(b - 1) * k + j]
    BY <1>2, <1>3, BlockOfWhole
  <2>2. v \in BlocksOver(S)
    BY ElementOfSeq
  <2>3. \A j \in 1..k : u[j] = v[j]
    BY <1>2, <2>1
  <2> HIDE DEF u, v
  <2>4. u \in Seq(S) /\ Len(u) = k /\ v \in Seq(S) /\ Len(v) = k
    BY <2>1, <2>2 DEF BlocksOver
  <2>5. u = v
    BY <2>3, <2>4, SeqEqual
  <2> QED
    BY <2>5 DEF u, v
<1> QED
  BY <1>3, <1>4 DEF t

(* What is ciphered is as long as the text was, and chars.                 *)
LEMMA CipheredTyped ==
    ASSUME CipherInverts, NEW s \in Seq(Int), Whole(s), NEW key \in Keys
    PROVE  /\ Ciphered(s, key) \in Seq(CharSet) /\ Len(Ciphered(s, key)) = Len(s)
           /\ LET cs == [b \in 1..Blocks(s) |-> Cipher(BlockOf(s, b), key)]
              IN cs \in Seq(BlocksOver(CharSet)) /\ Len(cs) = Blocks(s) /\ Ciphered(s, key) = Joined(cs)
<1> DEFINE n == Blocks(s)
           cs == [b \in 1..n |-> Cipher(BlockOf(s, b), key)]
<1>1. n \in Nat /\ Len(s) = n * BlockSize /\ \A b \in 1..n : BlockOf(s, b) \in BlocksOver(Int)
  BY BlockOfWhole
<1> HIDE DEF n
<1>2. cs \in Seq(BlocksOver(CharSet)) /\ Len(cs) = n
  <2>1. cs \in [1..n -> BlocksOver(CharSet)]
    BY <1>1 DEF CipherInverts
  <2> QED
    BY <1>1, <2>1
<1>3. SubSeq(cs, 1, n) = cs
  BY <1>2, SubSeqFull
<1>4. Ciphered(s, key) = Joined(cs)
  BY <1>3 DEF Ciphered, n
<1> HIDE DEF cs
<1>5. Joined(cs) \in Seq(CharSet) /\ Len(Joined(cs)) = n * BlockSize
  BY <1>2, JoinedTyped
<1> QED
  BY <1>1, <1>2, <1>4, <1>5 DEF n, cs

(* A text of whole blocks is deciphered to what it was.                    *)
LEMMA CipheredOpens ==
    ASSUME CipherInverts, NEW s \in Seq(CharSet), Whole(s), NEW key \in Keys
    PROVE  /\ Ciphered(s, key) \in Seq(CharSet) /\ Len(Ciphered(s, key)) = Len(s)
           /\ Decrypted(Ciphered(s, key), key) = s
<1> DEFINE n == Blocks(s)
           bs == [b \in 1..n |-> BlockOf(s, b)]
           cs == [b \in 1..n |-> Cipher(BlockOf(s, b), key)]
           t == Joined(cs)
<1>1. n \in Nat /\ Len(s) = n * BlockSize /\ \A b \in 1..n : BlockOf(s, b) \in BlocksOver(CharSet)
  BY BlockOfWhole
<1>2. bs \in Seq(BlocksOver(CharSet)) /\ Len(bs) = n /\ Joined(bs) = s
  BY JoinsBack
<1>3. cs \in Seq(BlocksOver(CharSet)) /\ Len(cs) = n /\ Ciphered(s, key) = t
  <2>1. s \in Seq(Int)
    BY CharsAreInts, SeqMonotonic
  <2> QED
    BY <2>1, CipheredTyped
<1> HIDE DEF n
<1>4. SubSeq(bs, 1, n) = bs
  BY <1>2, SubSeqFull
<1>6. \A b \in 1..n : InvCipher(cs[b], key) = bs[b]
  BY <1>1 DEF CipherInverts
<1> HIDE DEF cs, bs
<1>7. t \in Seq(CharSet) /\ Len(t) = n * BlockSize
  BY <1>3, JoinedTyped
<1>8. Blocks(t) = n /\ \A b \in 1..n : BlockOf(t, b) = cs[b]
  BY <1>3, BlockOfJoined
<1>9. bs = [b \in 1..n |-> InvCipher(BlockOf(t, b), key)]
  <2>1. \A b \in 1..n : bs[b] = InvCipher(BlockOf(t, b), key)
    BY <1>6, <1>8
  <2>2. bs = [b \in 1..n |-> bs[b]]
    BY <1>2
  <2> QED
    BY <2>1, <2>2
<1>10. Decrypted(t, key) = Joined(SubSeq([b \in 1..n |-> InvCipher(BlockOf(t, b), key)], 1, n))
  BY <1>8 DEF Decrypted
<1>11. Decrypted(t, key) = s
  BY <1>2, <1>4, <1>9, <1>10
<1> QED
  BY <1>1, <1>3, <1>7, <1>11

PadLen(n) == BlockSize - (n % BlockSize)

(* The pad is between one char and a block, and makes blocks whole.        *)
LEMMA PadIs ==
    ASSUME NEW n \in Nat
    PROVE  PadLen(n) \in 1..BlockSize /\ (n + PadLen(n)) % BlockSize = 0 /\ n + PadLen(n) > 0
           /\ n + PadLen(n) \in Nat
           /\ n + PadLen(n) = ((n + BlockSize) \div BlockSize) * BlockSize
<1> DEFINE k == BlockSize
           q == n \div k
           r == n % k
<1>1. k \in Nat \ {0}
  BY BlockSizeAssumption, SizesAssumption
<1>2. q \in Nat /\ r \in 0..k - 1 /\ n = k * q + r
  BY <1>1, QuotientOf
<1>3. PadLen(n) = k - r
  BY DEF PadLen
<1> HIDE DEF q, r
<1>4. n + (k - r) = k * (q + 1) + 0 /\ 0 \in 0..k - 1 /\ q + 1 \in Nat
  BY <1>1, <1>2
<1>5. (k * (q + 1) + 0) % k = 0
  BY <1>1, <1>4, PlaceInBlocks
<1>6. n + k = k * (q + 1) + r
  BY <1>1, <1>2
<1>7. (k * (q + 1) + r) \div k = q + 1
  BY <1>1, <1>2, <1>4, PlaceInBlocks
<1>8. (q + 1) * k = k * (q + 1) /\ k * (q + 1) \in Nat /\ k * (q + 1) > 0
  <2>1. k * (q + 1) = k * q + k /\ k * q \in Nat /\ (q + 1) * k = k * (q + 1)
    BY <1>1, <1>2
  <2> QED
    BY <1>1, <2>1
<1>9. k - r \in 1..k
  BY <1>1, <1>2
<1> QED
  BY <1>3, <1>4, <1>5, <1>6, <1>7, <1>8, <1>9

(* A padded text is one of whole blocks.                                   *)
LEMMA PaddedLength ==
    ASSUME NEW s \in Seq(Int)
    PROVE  /\ Padded(s) \in Seq(Int) /\ Len(Padded(s)) = Len(s) + PadLen(Len(s))
           /\ Whole(Padded(s))
<1> DEFINE fill == PadLen(Len(s))
           pad == [i \in 1..fill |-> fill]
<1>1. Len(s) \in Nat /\ fill \in Nat /\ (Len(s) + fill) % BlockSize = 0
  <2>1. Len(s) \in Nat /\ BlockSize \in Nat
    BY BlockSizeAssumption
  <2>2. fill \in 1..BlockSize /\ (Len(s) + fill) % BlockSize = 0
    BY <2>1, PadIs
  <2> HIDE DEF fill
  <2> QED
    BY <2>1, <2>2
<1>2. Padded(s) = s \o pad
  BY DEF Padded, PadLen
<1> HIDE DEF fill
<1>3. pad \in Seq(Int) /\ Len(pad) = fill
  <2>1. pad \in [1..fill -> Int]
    BY <1>1
  <2> QED
    BY <1>1, <2>1
<1> HIDE DEF pad
<1>4. s \o pad \in Seq(Int) /\ Len(s \o pad) = Len(s) + fill
  BY <1>3, ConcatProperties
<1> QED
  BY <1>1, <1>2, <1>4 DEF Whole, fill

(* The pad is found again and cut off, whatever stands before the text.    *)
LEMMA PaddedOpens ==
    ASSUME NEW s \in Seq(CharSet), NEW stray
    PROVE  /\ Padded(s) \in Seq(CharSet) /\ Padded(s) # <<>>
           /\ PadOf(Padded(s), stray) = PadLen(Len(s)) /\ PadLen(Len(s)) \in 1..BlockSize
           /\ Unpadded(Padded(s), PadLen(Len(s))) = s
           /\ \A t \in Seq(CharSet) :
                 /\ PadOf(t \o Padded(s), stray) = PadLen(Len(s))
                 /\ Unpadded(t \o Padded(s), PadLen(Len(s))) = t \o s
<1> DEFINE fill == PadLen(Len(s))
           pad == [i \in 1..fill |-> fill]
<1>1. Len(s) \in Nat /\ BlockSize \in Nat /\ CharBase \in Nat /\ BlockSize < CharBase \div 2
  BY BlockSizeAssumption, SizesAssumption
<1>2. fill \in 1..BlockSize
  BY <1>1, PadIs
<1>3. Padded(s) = s \o pad
  BY DEF Padded, PadLen
<1> HIDE DEF fill
<1>4. fill \in CharSet /\ SignedChar(fill) = fill /\ fill \in Nat
  <2>1. CharBase \div 2 <= CharBase
    BY <1>1
  <2>2. fill < CharBase \div 2
    BY <1>1, <1>2
  <2> QED
    BY <1>1, <1>2, <2>1, <2>2 DEF CharSet, SignedChar
<1>5. pad \in Seq(CharSet) /\ Len(pad) = fill /\ \A i \in 1..fill : pad[i] = fill
  <2>1. pad \in [1..fill -> CharSet]
    BY <1>4
  <2> QED
    BY <1>4, <2>1
<1> HIDE DEF pad
<1>6. ASSUME NEW u \in Seq(CharSet)
      PROVE  /\ u \o pad \in Seq(CharSet) /\ u \o pad # <<>>
             /\ PadOf(u \o pad, stray) = fill /\ Unpadded(u \o pad, fill) = u
  <2> DEFINE v == u \o pad
             n == Len(u)
  <2>1. /\ v \in Seq(CharSet) /\ Len(v) = n + fill /\ n \in Nat
        /\ \A i \in 1..n + fill : v[i] = IF i <= n THEN u[i] ELSE pad[i - n]
    <3>1. /\ u \o pad \in Seq(CharSet) /\ Len(u \o pad) = Len(u) + Len(pad)
          /\ \A i \in 1..Len(u) + Len(pad) :
                (u \o pad)[i] = IF i <= Len(u) THEN u[i] ELSE pad[i - Len(u)]
      BY <1>5, ConcatProperties
    <3>2. Len(u) \in Nat
      OBVIOUS
    <3> QED
      BY <1>5, <3>1, <3>2
  <2> HIDE DEF v
  <2>2. v # <<>>
    BY <1>2, <2>1
  <2>3. v[n + fill] = fill
    <3>1. n + fill \in 1..n + fill /\ ~(n + fill <= n) /\ (n + fill) - n = fill /\ fill \in 1..fill
      BY <1>2, <2>1
    <3> QED
      BY <1>5, <2>1, <3>1
  <2>4. PadOf(v, stray) = fill
    BY <1>4, <2>1, <2>2, <2>3 DEF PadOf
  <2>5. Unpadded(v, fill) = SubSeq(v, 1, n)
    <3>1. Len(v) - fill = n
      BY <1>4, <2>1
    <3> QED
      BY <3>1 DEF Unpadded
  <2>6. SubSeq(v, 1, n) = u
    <3>1. n \in Int /\ \A i \in 1..n : v[i] = u[i] /\ u[i] \in CharSet
      <4>1. \A i \in 1..n : u[i] \in CharSet
        BY <2>1, ElementOfSeq
      <4> QED
        BY <1>4, <2>1, <4>1
    <3> DEFINE w == SubSeq(v, 1, n)
    <3>2. w \in Seq(CharSet) /\ Len(w) = n /\ \A i \in 1..n : w[i] = v[i]
      <4>1. /\ w \in Seq(CharSet) /\ Len(w) = IF 1 <= n THEN n - 1 + 1 ELSE 0
            /\ \A i \in 1..n - 1 + 1 : w[i] = v[1 + i - 1]
        BY <3>1, SubSeqProperties
      <4> HIDE DEF w
      <4>2. n - 1 + 1 = n /\ \A i \in 1..n : 1 + i - 1 = i
        BY <2>1
      <4> QED
        BY <2>1, <4>1, <4>2
    <3> HIDE DEF w
    <3>3. w = u
      BY <2>1, <3>1, <3>2, SeqEqual
    <3> QED
      BY <3>3 DEF w
  <2> QED
    BY <2>1, <2>2, <2>4, <2>5, <2>6 DEF v
<1>7. ASSUME NEW t \in Seq(CharSet)
      PROVE  PadOf(t \o Padded(s), stray) = fill /\ Unpadded(t \o Padded(s), fill) = t \o s
  <2>1. t \o s \in Seq(CharSet) /\ t \o (s \o pad) = (t \o s) \o pad
    BY <1>5, ConcatProperties, ConcatAssociative
  <2> DEFINE u == t \o s
  <2> HIDE DEF u
  <2>2. PadOf(u \o pad, stray) = fill /\ Unpadded(u \o pad, fill) = u
    BY <1>6, <2>1 DEF u
  <2> QED
    BY <1>3, <2>1, <2>2 DEF u
<1>8. Padded(s) \in Seq(CharSet) /\ Padded(s) # <<>> /\ PadOf(Padded(s), stray) = fill /\ Unpadded(Padded(s), fill) = s
  BY <1>3, <1>6
<1> QED
  BY <1>2, <1>7, <1>8 DEF fill

-----------------------------------------------------------------------------
(* xl_aes: a text whose first three words stay in the clear, and the       *)
(* shells of the client.                                                   *)

(* The two parts of a concatenation.                                       *)
LEMMA Parts ==
    ASSUME NEW S, NEW s \in Seq(S), NEW t \in Seq(S)
    PROVE  /\ SubSeq(s \o t, 1, Len(s)) = s
           /\ SubSeq(s \o t, Len(s) + 1, Len(s \o t)) = t
           /\ s \o t \in Seq(S) /\ Len(s \o t) = Len(s) + Len(t) /\ Len(s) \in Nat /\ Len(t) \in Nat
<1> DEFINE v == s \o t
           n == Len(s)
           m == Len(t)
<1>1. n \in Nat /\ m \in Nat
  OBVIOUS
<1>2. /\ v \in Seq(S) /\ Len(v) = n + m
      /\ \A i \in 1..n + m : v[i] = IF i <= n THEN s[i] ELSE t[i - n]
  BY ConcatProperties
<1> HIDE DEF v
<1>3. SubSeq(v, 1, n) = s
  <2> DEFINE w == SubSeq(v, 1, n)
  <2>1. \A i \in 1..n : v[i] = s[i] /\ v[i] \in S
    <3>1. \A i \in 1..n : s[i] \in S
      BY ElementOfSeq
    <3> QED
      BY <1>1, <1>2, <3>1
  <2>2. w \in Seq(S) /\ Len(w) = n /\ \A i \in 1..n : w[i] = v[i]
    <3>1. /\ w \in Seq(S) /\ Len(w) = IF 1 <= n THEN n - 1 + 1 ELSE 0
          /\ \A i \in 1..n - 1 + 1 : w[i] = v[1 + i - 1]
      BY <1>1, <2>1, SubSeqProperties
    <3> HIDE DEF w
    <3>2. n - 1 + 1 = n /\ \A i \in 1..n : 1 + i - 1 = i
      BY <1>1
    <3> QED
      BY <1>1, <3>1, <3>2
  <2> HIDE DEF w
  <2>3. w = s
    BY <1>1, <2>1, <2>2, SeqEqual
  <2> QED
    BY <2>3 DEF w
<1>4. SubSeq(v, n + 1, Len(v)) = t
  <2> DEFINE w == SubSeq(v, n + 1, n + m)
  <2>1. \A i \in n + 1..n + m : v[i] = t[i - n] /\ v[i] \in S
    <3>1. \A i \in 1..m : t[i] \in S
      BY ElementOfSeq
    <3> QED
      BY <1>1, <1>2, <3>1
  <2>2. w \in Seq(S) /\ Len(w) = m /\ \A i \in 1..m : w[i] = v[n + i]
    <3>1. /\ w \in Seq(S) /\ Len(w) = IF n + 1 <= n + m THEN (n + m) - (n + 1) + 1 ELSE 0
          /\ \A i \in 1..(n + m) - (n + 1) + 1 : w[i] = v[(n + 1) + i - 1]
      BY <1>1, <2>1, SubSeqProperties
    <3> HIDE DEF w
    <3>2. (n + m) - (n + 1) + 1 = m /\ \A i \in 1..m : (n + 1) + i - 1 = n + i
      BY <1>1
    <3> QED
      BY <1>1, <3>1, <3>2
  <2> HIDE DEF w
  <2>3. \A i \in 1..m : w[i] = t[i]
    <3> TAKE i \in 1..m
    <3>1. n + i \in n + 1..n + m /\ (n + i) - n = i
      BY <1>1
    <3> QED
      BY <2>1, <2>2, <3>1
  <2>4. w = t
    BY <1>1, <2>2, <2>3, SeqEqual
  <2> QED
    BY <1>2, <2>4 DEF w
<1> QED
  BY <1>1, <1>2, <1>3, <1>4 DEF v

(* A sequence is the concatenation of what it is cut into.                 *)
LEMMA Cut ==
    ASSUME NEW S, NEW s \in Seq(S), NEW n \in 0..Len(s)
    PROVE  /\ SubSeq(s, 1, n) \in Seq(S) /\ Len(SubSeq(s, 1, n)) = n
           /\ \A i \in 1..n : SubSeq(s, 1, n)[i] = s[i]
           /\ SubSeq(s, n + 1, Len(s)) \in Seq(S) /\ Len(SubSeq(s, n + 1, Len(s))) = Len(s) - n
           /\ \A i \in 1..Len(s) - n : SubSeq(s, n + 1, Len(s))[i] = s[n + i]
           /\ SubSeq(s, 1, n) \o SubSeq(s, n + 1, Len(s)) = s
<1> DEFINE a == SubSeq(s, 1, n)
           b == SubSeq(s, n + 1, Len(s))
           m == Len(s)
<1>1. n \in Nat /\ m \in Nat /\ n <= m
  OBVIOUS
<1>2. \A i \in 1..m : s[i] \in S
  BY ElementOfSeq
<1>3. a \in Seq(S) /\ Len(a) = n /\ \A i \in 1..n : a[i] = s[i]
  <2>1. \A i \in 1..n : s[i] \in S
    BY <1>1, <1>2
  <2>2. /\ a \in Seq(S) /\ Len(a) = IF 1 <= n THEN n - 1 + 1 ELSE 0
        /\ \A i \in 1..n - 1 + 1 : a[i] = s[1 + i - 1]
    BY <1>1, <2>1, SubSeqProperties
  <2> HIDE DEF a
  <2>3. n - 1 + 1 = n /\ \A i \in 1..n : 1 + i - 1 = i
    BY <1>1
  <2> QED
    BY <1>1, <2>2, <2>3
<1>4. b \in Seq(S) /\ Len(b) = m - n /\ \A i \in 1..m - n : b[i] = s[n + i]
  <2>1. \A i \in n + 1..m : s[i] \in S
    BY <1>1, <1>2
  <2>2. /\ b \in Seq(S) /\ Len(b) = IF n + 1 <= m THEN m - (n + 1) + 1 ELSE 0
        /\ \A i \in 1..m - (n + 1) + 1 : b[i] = s[(n + 1) + i - 1]
    BY <1>1, <2>1, SubSeqProperties
  <2> HIDE DEF b
  <2>3. m - (n + 1) + 1 = m - n /\ \A i \in 1..m - n : (n + 1) + i - 1 = n + i
    BY <1>1
  <2>4. Len(b) = m - n
    BY <1>1, <2>2
  <2>5. \A i \in 1..m - n : b[i] = s[n + i]
    BY <2>2, <2>3
  <2> QED
    BY <2>2, <2>4, <2>5
<1> HIDE DEF a, b
<1>5. a \o b = s
  <2> DEFINE v == a \o b
  <2>0. /\ v \in Seq(S) /\ Len(v) = Len(a) + Len(b)
        /\ \A i \in 1..Len(a) + Len(b) : v[i] = IF i <= Len(a) THEN a[i] ELSE b[i - Len(a)]
    BY <1>3, <1>4, ConcatProperties
  <2>1. /\ v \in Seq(S) /\ Len(v) = n + (m - n)
        /\ \A i \in 1..n + (m - n) : v[i] = IF i <= n THEN a[i] ELSE b[i - n]
    <3> HIDE DEF v
    <3>1. Len(a) = n /\ Len(b) = m - n
      BY <1>3, <1>4
    <3> QED
      BY <2>0, <3>1
  <2> HIDE DEF v
  <2>2. n + (m - n) = m
    BY <1>1
  <2>3. ASSUME NEW i \in 1..m PROVE v[i] = s[i]
    <3>1. CASE i <= n
      BY <1>1, <1>3, <2>1, <2>2, <3>1
    <3>2. CASE ~(i <= n)
      <4>1. i - n \in 1..m - n /\ n + (i - n) = i
        BY <1>1, <3>2
      <4>2. b[i - n] = s[n + (i - n)]
        BY <1>4, <4>1
      <4> QED
        BY <2>1, <2>2, <3>2, <4>1, <4>2
    <3> QED
      BY <3>1, <3>2
  <2>4. v = s
    BY <2>1, <2>2, <2>3, SeqEqual
  <2> QED
    BY <2>4 DEF v
<1> QED
  BY <1>3, <1>4, <1>5 DEF a, b

(* The length of a sealed text.                                            *)
LEMMA EncryptedTyped ==
    ASSUME CipherInverts, NEW s \in Seq(Int), NEW key \in Keys
    PROVE  /\ Encrypted(s, key) \in Seq(CharSet) /\ Whole(Encrypted(s, key))
           /\ Len(Encrypted(s, key)) = Len(s) + PadLen(Len(s))
           /\ Len(Encrypted(s, key)) \in Nat /\ Len(Encrypted(s, key)) > 0
<1>1. Padded(s) \in Seq(Int) /\ Len(Padded(s)) = Len(s) + PadLen(Len(s)) /\ Whole(Padded(s))
  BY PaddedLength
<1>2. Len(s) \in Nat
  OBVIOUS
<1>3. Len(s) + PadLen(Len(s)) > 0 /\ Len(s) + PadLen(Len(s)) \in Nat
  BY <1>2, PadIs
<1>4. Encrypted(s, key) \in Seq(CharSet) /\ Len(Encrypted(s, key)) = Len(Padded(s))
  BY <1>1, CipheredTyped DEF Encrypted
<1> QED
  BY <1>1, <1>3, <1>4 DEF Whole

(* Deciphering a sealed text gives the padded one.                         *)
LEMMA EncryptedOpens ==
    ASSUME CipherInverts, NEW s \in Seq(CharSet), NEW key \in Keys
    PROVE  /\ Encrypted(s, key) \in Seq(CharSet) /\ Whole(Encrypted(s, key))
           /\ Len(Encrypted(s, key)) = Len(s) + PadLen(Len(s))
           /\ Len(Encrypted(s, key)) \in Nat /\ Len(Encrypted(s, key)) > 0
           /\ Decrypted(Encrypted(s, key), key) = Padded(s)
<1>1. s \in Seq(Int)
  BY CharsAreInts, SeqMonotonic
<1>2. Padded(s) \in Seq(CharSet)
  BY PaddedOpens
<1>3. Whole(Padded(s))
  BY <1>1, PaddedLength
<1>4. Decrypted(Encrypted(s, key), key) = Padded(s)
  BY <1>2, <1>3, CipheredOpens DEF Encrypted
<1> QED
  BY <1>1, <1>4, EncryptedTyped

(* sd_aes_decrypt_with_known_key opens what sd_aes_encrypt_with_known_key  *)
(* sealed, whatever stray the short read of a pad would have left.         *)
THEOREM KnownKeyOpens ==
    ASSUME CipherInverts, NEW s \in Seq(CharSet), NEW key \in Keys, NEW stray
    PROVE  AesDecryptWithKnownKey(AesEncryptWithKnownKey(s, key).out, key, stray) = Result("SUCCESS", s)
<1> DEFINE e == Encrypted(s, key)
           fill == PadLen(Len(s))
<1>1. AesEncryptWithKnownKey(s, key).out = e
  BY DEF AesEncryptWithKnownKey, Result
<1>2. Whole(e) /\ Decrypted(e, key) = Padded(s)
  BY EncryptedOpens
<1>3. /\ PadOf(Padded(s), stray) = fill /\ fill \in 1..BlockSize /\ Padded(s) # <<>>
      /\ Unpadded(Padded(s), fill) = s
  BY PaddedOpens
<1> HIDE DEF e, fill
<1>4. AesDecryptWithKnownKey(e, key, stray) = Result("SUCCESS", s)
  BY <1>2, <1>3 DEF AesDecryptWithKnownKey
<1> QED
  BY <1>1, <1>4

(* xl_aes_decrypt opens what xl_aes_encrypt sealed: all but the third      *)
(* word, in which the length of the sealed part now stands.                *)
THEOREM PacketOpens ==
    ASSUME CipherInverts, NEW s \in Seq(CharSet), Len(s) >= Words(3), NEW stray
    PROVE  LET opening == SubSeq(s, 1, Words(2))
               sealed  == Encrypted(Rest(s), PacketKey(s))
               head    == opening \o Chars(Len(sealed), Int32)
           IN /\ XlAesEncrypt(s).out = head \o sealed
              /\ XlAesEncrypt(s).out \in Seq(CharSet)
              /\ Rest(s) \in Seq(CharSet) /\ Len(Rest(s)) = Len(s) - Words(3)
              /\ Len(sealed) = Len(Rest(s)) + PadLen(Len(Rest(s)))
              /\ head \in Seq(CharSet) /\ Len(head) = Words(3)
              /\ XlAesDecrypt(XlAesEncrypt(s).out, stray) = Result("SUCCESS", head \o Rest(s))
<1>1. /\ Int32 \in Nat \ {0} /\ Words(2) = 2 * Int32 /\ Words(3) = 3 * Int32
      /\ Words(2) \in 0..Len(s) /\ Words(3) \in 0..Len(s) /\ Words(2) + Int32 = Words(3)
  BY SizesAssumption DEF Words
<1>2. PICK a \in Seq(CharSet) : a = SubSeq(s, 1, Words(2)) /\ Len(a) = Words(2)
  <2>1. SubSeq(s, 1, Words(2)) \in Seq(CharSet) /\ Len(SubSeq(s, 1, Words(2))) = Words(2)
    BY <1>1, Cut
  <2> QED
    BY <2>1
<1>3. PICK rest \in Seq(CharSet) : rest = Rest(s) /\ Len(rest) = Len(s) - Words(3)
  BY <1>1, Cut DEF Rest
<1>4. PICK key \in Keys : key = MD5(a) /\ key = PacketKey(s)
  BY <1>2 DEF PacketKey, Keys
<1>5. PICK e \in Seq(CharSet) : e = Encrypted(rest, key)
  BY EncryptedOpens
<1>6. PICK fill : fill = PadLen(Len(rest))
  OBVIOUS
<1>7. Whole(e) /\ Len(e) = Len(rest) + fill /\ Len(e) \in Nat /\ Decrypted(e, key) = Padded(rest)
  BY <1>5, <1>6, EncryptedOpens
<1>8. PICK w \in Seq(CharSet) : w = Chars(Len(e), Int32) /\ Len(w) = Int32
  BY <1>1, <1>7, CharsTyped
<1>9. PICK h \in Seq(CharSet) : h = a \o w
  BY Parts
<1>10. PICK b \in Seq(CharSet) : b = h \o e
  BY Parts
<1>11. /\ Len(h) = Words(3) /\ Len(b) = Words(3) + Len(e)
       /\ SubSeq(b, 1, Words(2)) = a /\ SubSeq(b, 1, Words(3)) = h
       /\ SubSeq(b, Words(3) + 1, Len(b)) = e
  <2>1. Len(a \o w) = Len(a) + Len(w)
    BY Parts
  <2>2. /\ Len(h \o e) = Len(h) + Len(e) /\ SubSeq(h \o e, 1, Len(h)) = h
        /\ SubSeq(h \o e, Len(h) + 1, Len(h \o e)) = e
    BY Parts
  <2>3. PICK r \in Seq(CharSet) : r = w \o e
    BY Parts
  <2>4. SubSeq(a \o r, 1, Len(a)) = a
    BY Parts
  <2>5. (a \o w) \o e = a \o (w \o e)
    BY ConcatAssociative, SMTT(30)
  <2>6. b = a \o r
    BY <1>9, <1>10, <2>3, <2>5
  <2>7. Len(h) = Words(3)
    BY <1>1, <1>2, <1>8, <1>9, <2>1
  <2>8. Len(b) = Words(3) + Len(e) /\ SubSeq(b, 1, Words(3)) = h /\ SubSeq(b, Words(3) + 1, Len(b)) = e
    BY <1>10, <2>2, <2>7
  <2>9. SubSeq(b, 1, Words(2)) = a
    BY <1>2, <2>4, <2>6
  <2> QED
    BY <2>7, <2>8, <2>9
<1>12. XlAesEncrypt(s).out = b
  BY <1>2, <1>3, <1>4, <1>5, <1>8, <1>9, <1>10 DEF XlAesEncrypt, Result
<1>13. Rest(b) = e /\ PacketKey(b) = key /\ Opening(b) = h
  BY <1>4, <1>11 DEF Rest, PacketKey, Opening
<1>14. /\ PadOf(Padded(rest), stray) = fill /\ fill \in 1..BlockSize /\ Padded(rest) # <<>>
       /\ Unpadded(h \o Padded(rest), fill) = h \o rest
  BY <1>6, PaddedOpens
<1>15. ~(Len(b) < Words(3))
  <2>1. Words(3) \in Nat
    BY <1>1
  <2> QED
    BY <1>7, <1>11, <2>1
<1>16. XlAesDecrypt(b, stray) = Result("SUCCESS", h \o rest)
  BY <1>7, <1>13, <1>14, <1>15 DEF XlAesDecrypt
<1>17. PICK sealed : sealed = Encrypted(Rest(s), PacketKey(s)) /\ sealed = e
  BY <1>3, <1>4, <1>5
<1>18. SubSeq(s, 1, Words(2)) \o Chars(Len(sealed), Int32) = h
  BY <1>2, <1>8, <1>9, <1>17
<1> QED
  BY <1>3, <1>6, <1>7, <1>10, <1>11, <1>12, <1>16, <1>17, <1>18

-----------------------------------------------------------------------------
(* The file that sd_aes_decrypt_file replaces.  FileInv says of each step  *)
(* what the file beside it holds: a beginning of the text, which what      *)
(* waits in the buffer goes on with, and all of it from the flush on.  A   *)
(* crash leaves such a beginning, which the next call writes over.         *)

(* A deciphered block is as long as the block was.                         *)
BlocksStay ==
    \A s \in Seq(Int) : Len(s) = BlockSize =>
       InvCipher(s, LocalKey) \in Seq(Int) /\ Len(InvCipher(s, LocalKey)) = BlockSize
(* No read or write takes less than it is given: what is lost by one that  *)
(* does is told in the README.                                             *)
WholeCalls == Faults \cap {"short_read", "short_write"} = {}
FSConstants ==
    /\ BlockSize \in Nat \ {0} /\ BufferLen \in Nat /\ BlockSize <= BufferLen
    /\ Sealed \in Seq(Int) /\ Absent \notin Seq(Int)
    /\ BlocksStay /\ WholeCalls
WholeBlocks == Sealed # <<>> /\ Len(Sealed) % BlockSize = 0

(* What begins the text. *)
Begins(s) ==
    s \in Seq(Int) /\ Len(s) <= Len(Text) /\ \A i \in 1..Len(s) : s[i] = Text[i]
(* What waits in the buffer is what comes next, up to n.                   *)
Waits(n) ==
    /\ outPos \in Nat /\ outPos <= Len(files["tmp"])
    /\ buffer \in Seq(Int) /\ outPos + Len(buffer) = n /\ n <= Len(Text)
    /\ \A i \in 1..Len(buffer) : buffer[i] = Text[outPos + i]
Between(o) == \E q \in Nat : o = q * BlockSize

FilesTyped ==
    /\ files \in [Names -> Seq(Int) \cup {Absent}]
    /\ step \in {"open", "block", "flush", "close", "rename", "done"}
TextKept ==
    /\ files["file"] = Sealed \/ (files["file"] = Absent /\ files["tmp"] = Text)
                              \/ (files["file"] = Text /\ step = "done")
    /\ step # "done" => files["tmp"] = Absent \/ Begins(files["tmp"])
AtStep ==
    /\ step = "open" => inOffset = 0 /\ outPos = 0 /\ buffer = <<>>
    /\ step \in {"block", "flush", "close"} => files["file"] = Sealed /\ files["tmp"] # Absent
    /\ step = "block" => /\ inOffset \in Nat /\ Between(inOffset) /\ inOffset < Len(Sealed)
                         /\ Waits(inOffset)
    /\ step = "flush" => Waits(Len(Text))
    /\ step = "close" /\ ret = "SUCCESS" => files["tmp"] = Text
    /\ step = "rename" => files["tmp"] = Text
FileInv == FilesTyped /\ TextKept /\ AtStep

LEMMA QuotientOfMultiple ==
    ASSUME NEW q \in Nat, NEW b \in Nat, b > 0, NEW r \in Nat, r < b
    PROVE  (q * b + r) \div b = q
OBVIOUS

LEMMA Multiple ==
    ASSUME NEW s \in Nat, NEW b \in Nat, b > 0, s % b = 0
    PROVE  \E q \in Nat : s = q * b
<1>1. s \div b \in Nat
  OBVIOUS
<1>2. s % b = s - b * (s \div b)
  OBVIOUS
<1>3. b * (s \div b) = (s \div b) * b /\ b * (s \div b) \in Nat
  BY <1>1
<1>4. s = (s \div b) * b
  BY <1>2, <1>3
<1>5. QED
  BY <1>1, <1>4

LEMMA MultiplesApart ==
    ASSUME NEW p \in Nat, NEW q \in Nat, NEW b \in Nat, b > 0, p * b < q * b
    PROVE  p * b + b <= q * b
<1>1. p < q
  OBVIOUS
<1>2. (p + 1) * b <= q * b
  BY <1>1
<1>3. QED
  BY <1>2
LEMMA FirstOnes ==
    ASSUME NEW S, NEW s \in Seq(S), NEW m \in 0..Len(s)
    PROVE  /\ SubSeq(s, 1, m) \in Seq(S) /\ Len(SubSeq(s, 1, m)) = m
           /\ \A i \in 1..m : SubSeq(s, 1, m)[i] = s[i]
OBVIOUS

LEMMA BlockTyped ==
    ASSUME FSConstants, NEW o \in Nat, o + BlockSize <= Len(Sealed)
    PROVE  /\ SubSeq(Sealed, o + 1, o + BlockSize) \in Seq(Int)
           /\ Len(SubSeq(Sealed, o + 1, o + BlockSize)) = BlockSize
           /\ BlockAt(o) \in Seq(Int) /\ Len(BlockAt(o)) = BlockSize
<1> DEFINE s == SubSeq(Sealed, o + 1, o + BlockSize)
<1>1. s \in Seq(Int) /\ Len(s) = BlockSize
  BY DEF FSConstants
<1> HIDE DEF s
<1>2. InvCipher(s, LocalKey) \in Seq(Int) /\ Len(InvCipher(s, LocalKey)) = BlockSize
  BY <1>1, Zenon DEF FSConstants, BlocksStay
<1>3. QED
  BY <1>1, <1>2 DEF s, BlockAt

LEMMA PlainIsBlocks ==
    ASSUME FSConstants, WholeBlocks
    PROVE  /\ Plain \in Seq(Int) /\ Len(Plain) = Len(Sealed)
           /\ \A o \in Nat, j \in 1..BlockSize :
                 Between(o) /\ o + BlockSize <= Len(Sealed) => Plain[o + j] = BlockAt(o)[j]
<1> DEFINE N == Len(Sealed)
           b == BlockSize
           of(i) == ((i - 1) \div b) * b
<1>1. N \in Nat /\ N > 0 /\ b \in Nat /\ b > 0
  BY DEF FSConstants, WholeBlocks
<1>2. PICK p \in Nat : N = p * b
  BY <1>1, Multiple DEF WholeBlocks
<1>3. Plain = [i \in 1..N |-> BlockAt(of(i))[i - of(i)]]
  BY DEF Plain
<1>4. ASSUME NEW i \in 1..N PROVE BlockAt(of(i))[i - of(i)] \in Int
  <2> DEFINE k == (i - 1) \div b
  <2>1. i - 1 \in Nat /\ k \in Nat /\ (i - 1) % b \in Nat /\ (i - 1) % b < b
    BY <1>1
  <2>2. (i - 1) % b = (i - 1) - b * k
    BY <1>1, <2>1
  <2> HIDE DEF k
  <2>3. b * k = k * b /\ k * b \in Nat
    BY <1>1, <2>1
  <2>4. i - k * b \in 1..b /\ k * b < p * b
    BY <1>1, <1>2, <2>1, <2>2, <2>3
  <2>5. k * b + b <= N
    BY <1>1, <1>2, <2>1, <2>4, MultiplesApart
  <2>6. BlockAt(k * b) \in Seq(Int) /\ Len(BlockAt(k * b)) = b
    BY <2>3, <2>5, BlockTyped
  <2>7. BlockAt(k * b)[i - k * b] \in Int
    BY <2>4, <2>6
  <2>8. QED
    BY <2>7 DEF k
<1>5. Plain \in Seq(Int) /\ Len(Plain) = N
  BY <1>1, <1>3, <1>4
<1>6. ASSUME NEW o \in Nat, NEW j \in 1..b, Between(o), o + b <= N
      PROVE  Plain[o + j] = BlockAt(o)[j]
  <2>1. PICK q \in Nat : o = q * b
    BY <1>6 DEF Between
  <2>2. (q * b + (j - 1)) \div b = q
    BY <1>1, <2>1, QuotientOfMultiple
  <2>3. (o + j) - 1 = q * b + (j - 1) /\ o + j \in 1..N /\ (o + j) - o = j
    BY <1>1, <1>6, <2>1
  <2>4. of(o + j) = o
    BY <2>1, <2>2, <2>3, Zenon
  <2> HIDE DEF of
  <2>5. Plain[o + j] = BlockAt(of(o + j))[(o + j) - of(o + j)]
    BY <1>3, <2>3, Zenon
  <2>6. QED
    BY <2>3, <2>4, <2>5, Zenon
<1>7. QED
  BY <1>5, <1>6

LEMMA TextIsPlain ==
    ASSUME FSConstants, WholeBlocks, ValidPad
    PROVE  /\ Text \in Seq(Int)
           /\ \E pad \in 1..BlockSize :
                /\ pad = SignedChar(BlockAt(Len(Sealed) - BlockSize)[BlockSize])
                /\ Len(Text) = Len(Sealed) - pad
           /\ \A i \in 1..Len(Text) : Text[i] = Plain[i]
           /\ BlockSize <= Len(Sealed) /\ Between(Len(Sealed) - BlockSize)
<1> DEFINE N == Len(Sealed)
           b == BlockSize
           pad == SignedChar(Plain[Len(Plain)])
<1>1. N \in Nat /\ N > 0 /\ b \in Nat /\ b > 0
  BY DEF FSConstants, WholeBlocks
<1>2. b <= N /\ Between(N - b)
  <2>1. PICK p \in Nat : N = p * b
    BY <1>1, Multiple DEF WholeBlocks
  <2>2. p # 0
    BY <1>1, <2>1
  <2>3. p - 1 \in Nat /\ (p - 1) * b = p * b - b /\ (p - 1) * b \in Nat
    BY <1>1, <2>2
  <2>4. QED
    BY <1>1, <2>1, <2>3 DEF Between
<1>3. Plain \in Seq(Int) /\ Len(Plain) = N
  BY PlainIsBlocks
<1>4. Plain[Len(Plain)] = BlockAt(N - b)[b]
  <2>1. N - b \in Nat /\ (N - b) + b = N /\ (N - b) + b <= N /\ b \in 1..b
    BY <1>1, <1>2
  <2>2. Plain[(N - b) + b] = BlockAt(N - b)[b]
    BY <1>2, <2>1, PlainIsBlocks
  <2>3. Plain[Len(Plain)] = Plain[N]
    BY <1>3 DEF Last
  <2>4. QED
    BY <2>1, <2>2, <2>3, Zenon
<1>5. pad \in 1..b /\ Text = SubSeq(Plain, 1, N - pad)
  BY <1>3 DEF ValidPad, Text
<1> HIDE DEF pad
<1>6. N - pad \in 0..N
  BY <1>1, <1>2, <1>5
<1>7. /\ Text \in Seq(Int) /\ Len(Text) = N - pad
      /\ \A i \in 1..N - pad : Text[i] = Plain[i]
  BY <1>3, <1>5, <1>6, FirstOnes, SMTT(30)
<1>8. QED
  BY <1>2, <1>4, <1>5, <1>7 DEF pad

LEMMA WholeText ==
    ASSUME FSConstants, WholeBlocks, ValidPad, NEW s, Begins(s), Len(s) >= Len(Text)
    PROVE  s = Text
<1>1. Text \in Seq(Int) /\ Len(s) = Len(Text) /\ s \in Seq(Int)
  <2>1. Text \in Seq(Int)
    BY TextIsPlain
  <2>2. QED
    BY <2>1 DEF Begins
<1>2. \A i \in 1..Len(s) : s[i] = Text[i]
  BY DEF Begins
<1> DEFINE t == Text
<1> HIDE DEF t
<1>3. t \in Seq(Int) /\ Len(s) = Len(t) /\ s \in Seq(Int) /\ \A i \in 1..Len(s) : s[i] = t[i]
  BY <1>1, <1>2 DEF t
<1>4. s = t
  BY <1>3, SeqEqual, Zenon
<1>5. QED
  BY <1>4 DEF t

(* A write of what comes next. *)
LEMMA OverlaidBegins ==
    ASSUME FSConstants, WholeBlocks, ValidPad,
           NEW t, Begins(t), NEW p \in Nat, p <= Len(t),
           NEW s \in Seq(Int), p + Len(s) <= Len(Text),
           \A i \in 1..Len(s) : s[i] = Text[p + i]
    PROVE  Begins(Overlaid(t, p, s)) /\ p + Len(s) <= Len(Overlaid(t, p, s))
<1> DEFINE a == SubSeq(t, 1, p)
           c == SubSeq(t, p + Len(s) + 1, Len(t))
           as == a \o s
           r == as \o c
           T == Text
           L == Len(Text)
<1>1. t \in Seq(Int) /\ Len(t) \in Nat /\ Len(s) \in Nat /\ Len(t) <= L /\ L \in Nat
  <2>1. Text \in Seq(Int)
    BY TextIsPlain
  <2>2. QED
    BY <2>1 DEF Begins
<1>2. a \in Seq(Int) /\ Len(a) = p /\ \A i \in 1..p : a[i] = t[i]
  BY <1>1
<1>3. /\ c \in Seq(Int)
      /\ Len(c) = IF Len(t) > p + Len(s) THEN Len(t) - (p + Len(s)) ELSE 0
      /\ \A i \in 1..Len(c) : c[i] = t[(p + Len(s)) + i]
  BY <1>1
<1> HIDE DEF a, c
<1>4. /\ as \in Seq(Int) /\ Len(as) = p + Len(s)
      /\ \A i \in 1..p + Len(s) : as[i] = IF i <= p THEN a[i] ELSE s[i - p]
  <2>1. /\ as \in Seq(Int) /\ Len(as) = Len(a) + Len(s)
        /\ \A i \in 1..Len(a) + Len(s) : as[i] = IF i <= Len(a) THEN a[i] ELSE s[i - Len(a)]
    BY <1>2, ConcatProperties, ZenonT(60)
  <2> HIDE DEF as
  <2>2. QED
    BY <1>2, <2>1, Zenon
<1> HIDE DEF as
<1>5. /\ r \in Seq(Int) /\ Len(r) = Len(as) + Len(c)
      /\ \A i \in 1..Len(as) + Len(c) :
            r[i] = IF i <= Len(as) THEN as[i] ELSE c[i - Len(as)]
  BY <1>3, <1>4, ConcatProperties, ZenonT(60)
<1> DEFINE k == p + Len(s)
           lt == Len(t)
           lc == Len(c)
<1> HIDE DEF r, T
<1>6. \A i \in 1..lt : t[i] = T[i]
  BY DEF Begins, T
<1>7. \A i \in 1..Len(s) : s[i] = T[p + i]
  BY DEF T
<1>8. k \in Nat /\ k <= L /\ lt \in Nat /\ lt <= L /\ L \in Nat /\ p <= k /\ p <= lt
  BY <1>1
<1> HIDE DEF L
<1>9. /\ Len(r) = k + lc /\ Len(as) = k /\ lc = IF lt > k THEN lt - k ELSE 0
      /\ \A i \in 1..p : as[i] = t[i]
      /\ \A i \in p + 1..k : as[i] = s[i - p]
      /\ \A i \in 1..k : r[i] = as[i]
      /\ \A i \in k + 1..k + lc : r[i] = c[i - k]
      /\ \A i \in 1..lc : c[i] = t[k + i]
  <2>1. Len(as) = k /\ Len(r) = k + lc
    BY <1>4, <1>5
  <2>2. lc = IF lt > k THEN lt - k ELSE 0
    BY <1>3
  <2>3. ASSUME NEW i \in 1..p PROVE as[i] = t[i]
    <3>1. i \in 1..p + Len(s) /\ i <= p
      BY <1>1
    <3>2. QED
      BY <3>1, <1>2, <1>4, Zenon
  <2>4. ASSUME NEW i \in p + 1..k PROVE as[i] = s[i - p]
    <3>1. i \in 1..p + Len(s) /\ ~(i <= p)
      BY <1>1
    <3>2. QED
      BY <3>1, <1>4, Zenon
  <2>5. \A i \in 1..lc : c[i] = t[k + i]
    BY <1>3
  <2>6. lc \in Nat
    BY <2>2, <1>8
  <2> HIDE DEF k, lc
  <2>7. /\ \A i \in 1..k : r[i] = as[i]
        /\ \A i \in k + 1..k + lc : r[i] = c[i - k]
    <3>1. \A i \in 1..k + lc : r[i] = IF i <= k THEN as[i] ELSE c[i - k]
      BY <2>1, <1>5, Zenon DEF lc
    <3>2. /\ \A i \in 1..k : i \in 1..k + lc /\ i <= k
          /\ \A i \in k + 1..k + lc : i \in 1..k + lc /\ ~(i <= k)
      BY <2>6, <1>8
    <3>3. QED
      BY <3>1, <3>2, Zenon
  <2>8. QED
    BY <2>1, <2>2, <2>3, <2>4, <2>5, <2>7
<1>10. Len(r) <= L /\ k <= Len(r) /\ \A i \in 1..Len(r) : r[i] = T[i]
  <2>1. k \in Nat /\ lc \in Nat /\ k - p = Len(s)
    BY <1>1, <1>8, <1>9
  <2> HIDE DEF k, lc, lt
  <2>2. Len(r) <= L /\ k <= Len(r)
    BY <2>1, <1>8, <1>9
  <2> SUFFICES ASSUME NEW i \in 1..Len(r) PROVE r[i] = T[i]
    BY <2>2
  <2>3. CASE i <= p
    <3>1. i \in 1..p /\ i \in 1..k /\ i \in 1..lt
      BY <2>3, <1>8, <1>9, <2>1
    <3>2. QED
      BY <3>1, <1>6, <1>9
  <2>4. CASE i > p /\ i <= k
    <3>1. i \in p + 1..k /\ i \in 1..k /\ i - p \in 1..Len(s) /\ p + (i - p) = i
      BY <2>1, <2>4, <1>8, <1>9
    <3>2. r[i] = s[i - p] /\ s[i - p] = T[p + (i - p)]
      BY <3>1, <1>7, <1>9
    <3>3. QED
      BY <3>1, <3>2, Zenon
  <2>5. CASE i > k
    <3>0. i \in Nat /\ i <= Len(r)
      BY <2>2, <2>1
    <3>a. i \in k + 1..k + lc /\ i - k \in 1..lc /\ k + (i - k) = i
      BY <2>1, <2>5, <1>8, <1>9, <3>0
    <3>b. i \in 1..lt
      BY <2>1, <2>5, <1>8, <1>9, <3>0
    <3>1. i \in k + 1..k + lc /\ i - k \in 1..lc /\ k + (i - k) = i /\ i \in 1..lt
      BY <3>a, <3>b
    <3>2. r[i] = c[i - k] /\ c[i - k] = t[k + (i - k)]
      BY <3>1, <1>9
    <3>3. QED
      BY <3>1, <3>2, <1>6, Zenon
  <2>6. QED
    BY <2>1, <2>3, <2>4, <2>5, <1>8
<1>11. Overlaid(t, p, s) = r
  BY DEF Overlaid, r, as, a, c
<1>12. QED
  BY <1>5, <1>10, <1>11 DEF Begins, T, L, k
(* What a call may come to. *)
LEMMA OutcomesAre ==
    ASSUME FSConstants
    PROVE  /\ Outcomes({"read_error", "short_read"}) \subseteq {"full", "read_error"}
           /\ Outcomes({"write_error", "short_write"}) \subseteq {"full", "write_error"}
BY DEF Outcomes, FSConstants, WholeCalls

LEMMA WriteIs ==
    ASSUME NEW t, NEW p, NEW s, NEW how \in {"full", "write_error"}
    PROVE  /\ how = "full" => /\ SdWrite(t, p, s, how).ret = "SUCCESS"
                             /\ SdWrite(t, p, s, how).text = Overlaid(t, p, s)
                             /\ SdWrite(t, p, s, how).pos = p + Len(s)
           /\ how # "full" => /\ SdWrite(t, p, s, how).ret = "errno"
                             /\ SdWrite(t, p, s, how).text = t
                             /\ SdWrite(t, p, s, how).pos = p
BY DEF SdWrite

(* The buffer after it is written where it belongs. *)
LEMMA BufferGoesOn ==
    ASSUME FSConstants, WholeBlocks, ValidPad, NEW n, Waits(n), Begins(files["tmp"])
    PROVE  /\ Begins(Overlaid(files["tmp"], outPos, buffer))
           /\ n <= Len(Overlaid(files["tmp"], outPos, buffer))
<1>1. /\ outPos \in Nat /\ outPos <= Len(files["tmp"]) /\ buffer \in Seq(Int)
      /\ outPos + Len(buffer) = n /\ outPos + Len(buffer) <= Len(Text)
      /\ \A i \in 1..Len(buffer) : buffer[i] = Text[outPos + i]
  BY DEF Waits
<1> DEFINE t == files["tmp"]
<1> HIDE DEF t
<1>2. Begins(t) /\ outPos <= Len(t)
  BY <1>1 DEF t
<1>3. Begins(Overlaid(t, outPos, buffer)) /\ outPos + Len(buffer) <= Len(Overlaid(t, outPos, buffer))
  BY <1>1, <1>2, OverlaidBegins
<1>4. QED
  BY <1>1, <1>3 DEF t

LEMMA InitFiles ==
    ASSUME FSConstants, FileInit
    PROVE  FileInv
BY DEF FileInit, FileInv, FilesTyped, TextKept, AtStep, Names, FSConstants

LEMMA OpenKeepsText ==
    ASSUME FSConstants, WholeBlocks, ValidPad, FileInv, Open
    PROVE  FileInv'
<1>1. /\ step = "open" /\ UNCHANGED <<inOffset, outPos, buffer>>
      /\ inOffset = 0 /\ outPos = 0 /\ buffer = <<>>
      /\ Len(Sealed) \in Nat /\ Len(Sealed) > 0 /\ Text \in Seq(Int) /\ Sealed # Absent
  BY TextIsPlain, SMTT(30) DEF Open, FileInv, AtStep, WholeBlocks, FSConstants
<1>2. CASE step' = "done" /\ UNCHANGED files
  BY <1>1, <1>2 DEF FileInv, FilesTyped, TextKept, AtStep
<1>3. CASE ~(step' = "done" /\ UNCHANGED files)
  <2>1. /\ files["file"] # Absent /\ step' = "block"
        /\ files' = [files EXCEPT !["tmp"] = IF files["tmp"] # Absent THEN files["tmp"] ELSE <<>>]
    BY <1>3 DEF Open, Exists
  <2>2. files["file"] = Sealed /\ (files["tmp"] = Absent \/ Begins(files["tmp"]))
    BY <1>1, <2>1 DEF FileInv, TextKept
  <2>3. files'["file"] = Sealed /\ files'["tmp"] = IF files["tmp"] # Absent THEN files["tmp"] ELSE <<>>
    BY <2>1, <2>2 DEF FileInv, FilesTyped, Names
  <2>4. Begins(<<>>) /\ <<>> # Absent
    <3>1. <<>> \in Seq(Int) /\ Len(<<>>) = 0
      OBVIOUS
    <3>2. 0 <= Len(Text) /\ 1..0 = {}
      BY <1>1
    <3>3. \A i \in 1..Len(<<>>) : <<>>[i] = Text[i]
      BY <3>1, <3>2, Zenon
    <3>4. Len(<<>>) <= Len(Text)
      BY <3>1, <3>2, Zenon
    <3>5. QED
      BY <3>1, <3>3, <3>4, Zenon DEF Begins, FSConstants
  <2>5. Begins(files'["tmp"]) /\ files'["tmp"] # Absent
    BY <2>2, <2>3, <2>4
  <2>6. FilesTyped'
    BY <2>1, <2>3 DEF FileInv, FilesTyped, Names
  <2>7. Waits(0)'
    <3>1. 0 <= Len(files'["tmp"]) /\ 0 <= Len(Text)
      BY <1>1, <2>5 DEF Begins
    <3>2. QED
      BY <1>1, <3>1 DEF Waits
  <2>8. Between(0)
    BY DEF Between, FSConstants
  <2>9. QED
    BY <1>1, <2>1, <2>3, <2>5, <2>6, <2>7, <2>8 DEF FileInv, TextKept, AtStep
<1>4. QED
  BY <1>2, <1>3

(* A block is what comes next in the text, and the last one ends it. *)
LEMMA BlockIsNext ==
    ASSUME FSConstants, WholeBlocks, ValidPad, NEW o \in Nat, Between(o), o < Len(Sealed)
    PROVE  LET isLast == Len(Sealed) - o <= BlockSize
               plain  == BlockAt(o)
               data   == IF isLast THEN SubSeq(plain, 1, BlockSize - SignedChar(plain[BlockSize]))
                         ELSE plain
           IN /\ o + BlockSize <= Len(Sealed)
              /\ isLast => SignedChar(plain[BlockSize]) \in 1..BlockSize
              /\ isLast => o + Len(data) = Len(Text)
              /\ ~isLast => /\ Len(data) = BlockSize /\ Between(o + BlockSize)
                            /\ o + BlockSize < Len(Sealed) /\ o + BlockSize <= Len(Text)
              /\ data \in Seq(Int) /\ Len(data) <= BlockSize
              /\ \A i \in 1..Len(data) : data[i] = Text[o + i]
<1> DEFINE N == Len(Sealed)
           b == BlockSize
           plain == BlockAt(o)
           last == N - o <= b
<1>1. N \in Nat /\ N > 0 /\ b \in Nat /\ b > 0
  BY DEF FSConstants, WholeBlocks
<1>2. PICK q \in Nat : o = q * b
  BY DEF Between
<1>3. PICK p \in Nat : N = p * b
  BY <1>1, Multiple DEF WholeBlocks
<1>4. o + b <= N
  BY <1>1, <1>2, <1>3, MultiplesApart
<1>5. /\ Text \in Seq(Int) /\ \A i \in 1..Len(Text) : Text[i] = Plain[i]
      /\ b <= N
  BY TextIsPlain
<1>6. PICK pad \in 1..b : pad = SignedChar(BlockAt(N - b)[b]) /\ Len(Text) = N - pad
  BY TextIsPlain
<1>7. plain \in Seq(Int) /\ Len(plain) = b
  BY <1>4, BlockTyped
<1>8. \A i \in 1..b : Plain[o + i] = plain[i]
  BY <1>4, PlainIsBlocks
<1> DEFINE data == IF last THEN SubSeq(plain, 1, b - SignedChar(plain[b])) ELSE plain
<1> HIDE DEF plain
<1>9. CASE last
  <2>1. o = N - b
    BY <1>1, <1>4, <1>9
  <2>2. SignedChar(plain[b]) = pad
    BY <1>6, <2>1, Zenon DEF plain
  <2>3. data = SubSeq(plain, 1, b - pad)
    BY <1>9, <2>2, Zenon
  <2>4. b - pad \in 0..b /\ o + (b - pad) = N - pad
    BY <1>1, <2>1
  <2>5. /\ data \in Seq(Int) /\ Len(data) = b - pad
        /\ \A i \in 1..b - pad : data[i] = plain[i]
    <3> DEFINE m == b - pad
               d == SubSeq(plain, 1, m)
    <3>1. m \in 0..Len(plain) /\ Len(plain) \in Nat
      BY <1>7, <2>4
    <3> HIDE DEF m
    <3>2. d \in Seq(Int) /\ Len(d) = m /\ \A i \in 1..m : d[i] = plain[i]
      BY <1>7, <3>1, FirstOnes, SMTT(30)
    <3>3. data = d
      BY <2>3 DEF m
    <3> HIDE DEF d, data
    <3>4. QED
      BY <3>2, <3>3 DEF m
  <2> HIDE DEF data
  <2>6. ASSUME NEW i \in 1..Len(data) PROVE data[i] = Text[o + i]
    <3>1. i \in 1..b /\ i \in 1..b - pad /\ o + i \in 1..Len(Text)
      <4> DEFINE m == b - pad
                 T == Len(Text)
      <4>1. i \in 1..m /\ m \in 0..b /\ o + m = N - pad /\ T = N - pad
        BY <1>6, <2>4, <2>5
      <4> HIDE DEF m, T
      <4>2. i \in 1..b /\ i \in 1..m /\ o + i \in 1..T
        BY <1>1, <2>1, <4>1
      <4>3. QED
        BY <4>2 DEF m, T
    <3>2. QED
      BY <3>1, <1>5, <1>8, <2>5, Zenon
  <2>7. /\ o + Len(data) = Len(Text) /\ Len(data) <= b
    BY <1>1, <1>6, <2>4, <2>5
  <2>8. /\ o + BlockSize <= Len(Sealed)
        /\ SignedChar(plain[b]) \in 1..b
        /\ data \in Seq(Int)
        /\ \A i \in 1..Len(data) : data[i] = Text[o + i]
    BY <1>4, <2>2, <2>5, <2>6
  <2>9. QED
    BY <1>9, <2>7, <2>8, Zenon DEF data, plain
<1>10. CASE ~last
  <2>1. data = plain
    BY <1>10
  <2>2. o + b < N
    BY <1>1, <1>10
  <2>3. (q + 1) * b = o + b /\ q + 1 \in Nat
    BY <1>1, <1>2
  <2>4. (o + b) + b <= N
    BY <1>1, <1>3, <2>2, <2>3, MultiplesApart
  <2>5. Between(o + b) /\ o + b <= Len(Text)
    BY <1>1, <1>6, <2>3, <2>4 DEF Between
  <2>6. ASSUME NEW i \in 1..b PROVE plain[i] = Text[o + i]
    <3>1. o + i \in 1..Len(Text)
      BY <1>1, <1>5, <2>5
    <3>2. QED
      BY <3>1, <1>5, <1>8, Zenon
  <2>7. b <= b
    BY <1>1
  <2> HIDE DEF data
  <2>8. QED
    BY <1>4, <1>7, <1>10, <2>1, <2>2, <2>5, <2>6, <2>7, Zenon DEF data, plain
<1>11. QED
  BY <1>9, <1>10

(* A call that fails leaves the temporary file as it was. *)
LEMMA BlockKeepsText ==
    ASSUME FSConstants, WholeBlocks, ValidPad, FileInv, Block
    PROVE  FileInv'
<1>0. PICK o : o = inOffset
  OBVIOUS
<1> DEFINE isLast == Len(Sealed) - o <= BlockSize
           plain  == BlockAt(o)
           data   == IF isLast THEN SubSeq(plain, 1, BlockSize - SignedChar(plain[BlockSize]))
                     ELSE plain
           tmp    == files["tmp"]
           w(how) == SdWriteSaveToBuffer(data, how)
<1>1. /\ files["file"] = Sealed /\ tmp # Absent /\ Begins(tmp)
      /\ o \in Nat /\ Between(o) /\ o < Len(Sealed) /\ Waits(o) /\ step = "block"
      /\ files \in [Names -> Seq(Int) \cup {Absent}]
  BY <1>0 DEF Block, FileInv, FilesTyped, TextKept, AtStep
<1>2. /\ o + BlockSize <= Len(Sealed)
      /\ isLast => SignedChar(plain[BlockSize]) \in 1..BlockSize
      /\ isLast => o + Len(data) = Len(Text)
      /\ ~isLast => /\ Len(data) = BlockSize /\ Between(o + BlockSize)
                    /\ o + BlockSize < Len(Sealed) /\ o + BlockSize <= Len(Text)
      /\ data \in Seq(Int) /\ Len(data) <= BlockSize
      /\ \A i \in 1..Len(data) : data[i] = Text[o + i]
  BY <1>1, BlockIsNext
<1>3. PICK rd \in {"full", "read_error"}, wr \in {"full", "write_error"} :
        LET r == SdRead(Sealed, o, BlockSize, rd)
            pl == InvCipher(r.got, LocalKey)
            bad == isLast /\ SignedChar(pl[BlockSize]) \notin 1..BlockSize
            da == IF isLast THEN SubSeq(pl, 1, BlockSize - SignedChar(pl[BlockSize])) ELSE pl
            v == SdWriteSaveToBuffer(da, wr)
        IN IF r.ret # "SUCCESS" \/ Len(r.got) # BlockSize
           THEN /\ step' = "close" /\ ret' = r.ret
                /\ UNCHANGED <<files, inOffset, outPos, buffer>>
           ELSE IF bad
           THEN /\ step' = "flush" /\ ret' = "-1"
                /\ UNCHANGED <<files, inOffset, outPos, buffer>>
           ELSE /\ step' = IF v.ret # "SUCCESS" THEN "close" ELSE IF isLast THEN "flush" ELSE "block"
                /\ ret' = v.ret
                /\ files' = [files EXCEPT !["tmp"] = v.text]
                /\ inOffset' = inOffset + BlockSize
                /\ outPos' = v.pos
                /\ buffer' = v.buffer
  <2>1. \E rd \in Outcomes({"read_error", "short_read"}),
           wr \in Outcomes({"write_error", "short_write"}) :
             LET last == Len(files["file"]) - inOffset <= BlockSize
                 r    == SdRead(files["file"], inOffset, BlockSize, rd)
                 pl   == InvCipher(r.got, LocalKey)
                 pad  == SignedChar(pl[BlockSize])
                 bad  == last /\ pad \notin 1..BlockSize
                 da   == IF last THEN SubSeq(pl, 1, BlockSize - pad) ELSE pl
                 v    == SdWriteSaveToBuffer(da, wr)
             IN IF r.ret # "SUCCESS" \/ Len(r.got) # BlockSize
                THEN /\ step' = "close" /\ ret' = r.ret
                     /\ UNCHANGED <<files, inOffset, outPos, buffer>>
                ELSE IF bad
                THEN /\ step' = "flush" /\ ret' = "-1"
                     /\ UNCHANGED <<files, inOffset, outPos, buffer>>
                ELSE /\ step' = IF v.ret # "SUCCESS" THEN "close"
                                ELSE IF last THEN "flush" ELSE "block"
                     /\ ret' = v.ret
                     /\ files' = [files EXCEPT !["tmp"] = v.text]
                     /\ inOffset' = inOffset + BlockSize
                     /\ outPos' = v.pos
                     /\ buffer' = v.buffer
    BY Zenon DEF Block
  <2>2. files["file"] = Sealed /\ inOffset = o
    BY <1>0, <1>1
  <2>3. QED
    BY <2>1, <2>2, OutcomesAre
<1>4. CASE rd = "read_error"
  <2>1. SdRead(Sealed, o, BlockSize, rd).ret = "errno"
    BY <1>4 DEF SdRead
  <2>2. step' = "close" /\ ret' = "errno" /\ UNCHANGED <<files, inOffset, outPos, buffer>>
    BY <1>3, <2>1, Zenon
  <2>3. QED
    BY <1>1, <2>2 DEF FileInv, FilesTyped, TextKept, AtStep
<1>5. CASE rd = "full"
  <2> DEFINE got == SubSeq(Sealed, o + 1, o + BlockSize)
             v == w(wr)
  <2>1. SdRead(Sealed, o, BlockSize, rd).ret = "SUCCESS"
        /\ SdRead(Sealed, o, BlockSize, rd).got = got
    BY <1>5 DEF SdRead
  <2>2. Len(got) = BlockSize
    BY <1>1, <1>2, BlockTyped
  <2>3. InvCipher(got, LocalKey) = plain
    BY DEF BlockAt
  <2> HIDE DEF got, plain, isLast
  <2>4. ~(isLast /\ SignedChar(plain[BlockSize]) \notin 1..BlockSize)
    BY <1>2, Zenon
  <2>5. /\ step' = IF v.ret # "SUCCESS" THEN "close" ELSE IF isLast THEN "flush" ELSE "block"
        /\ ret' = v.ret
        /\ files' = [files EXCEPT !["tmp"] = v.text]
        /\ inOffset' = o + BlockSize
        /\ outPos' = v.pos
        /\ buffer' = v.buffer
    BY <1>0, <1>3, <2>1, <2>2, <2>3, <2>4
  <2>n. PICK n : n = o + Len(data)
    OBVIOUS
  <2>6. /\ n \in Nat /\ n <= Len(Text) /\ Len(data) \in Nat /\ BlockSize \in Nat
        /\ o + BlockSize \in Nat
        /\ Text \in Seq(Int) /\ Len(Text) \in Nat
        /\ isLast => n = Len(Text)
        /\ ~isLast => n = o + BlockSize /\ Between(n) /\ n < Len(Sealed)
    <3> HIDE DEF data
    <3>1. Text \in Seq(Int)
      BY TextIsPlain
    <3>2. Len(Text) \in Nat /\ Len(data) \in Nat /\ BlockSize \in Nat
      BY <3>1, <1>2 DEF FSConstants
    <3>3. CASE isLast
      <4>1. o + Len(data) = Len(Text)
        BY <1>2, <3>3, Zenon
      <4>2. QED
        BY <1>1, <2>n, <3>1, <3>2, <3>3, <4>1
    <3>4. CASE ~isLast
      <4>1. /\ Len(data) = BlockSize /\ Between(o + BlockSize)
            /\ o + BlockSize < Len(Sealed) /\ o + BlockSize <= Len(Text)
        BY <1>2, <3>4, Zenon
      <4>2. QED
        BY <1>1, <2>n, <3>1, <3>2, <3>4, <4>1
    <3>5. QED
      BY <3>3, <3>4
  <2> HIDE DEF data
  <2>7. /\ outPos \in Nat /\ outPos <= Len(tmp) /\ buffer \in Seq(Int)
        /\ outPos + Len(buffer) = o
        /\ \A i \in 1..Len(buffer) : buffer[i] = Text[outPos + i]
    BY <1>1 DEF Waits
  <2>8. CASE Len(buffer) + Len(data) <= BufferLen
    <3> DEFINE bd == buffer \o data
    <3>1. v.ret = "SUCCESS" /\ v.text = tmp /\ v.pos = outPos /\ v.buffer = bd
      BY <2>8 DEF SdWriteSaveToBuffer
    <3> HIDE DEF v
    <3>2. files' = files
      BY <1>1, <2>5, <3>1 DEF Names
    <3>3. /\ bd \in Seq(Int) /\ Len(bd) = Len(buffer) + Len(data)
          /\ \A i \in 1..Len(buffer) + Len(data) :
                bd[i] = IF i <= Len(buffer) THEN buffer[i] ELSE data[i - Len(buffer)]
      BY <1>2, <2>7, ConcatProperties
    <3> HIDE DEF bd
    <3>4. ASSUME NEW i \in 1..Len(bd) PROVE bd[i] = Text[outPos + i]
      <4>1. CASE i <= Len(buffer)
        <5>1. i \in 1..Len(buffer) /\ i \in 1..Len(buffer) + Len(data)
          BY <2>7, <3>3, <4>1
        <5>2. QED
          BY <2>7, <3>3, <4>1, <5>1, Zenon
      <4>2. CASE ~(i <= Len(buffer))
        <5> DEFINE lb == Len(buffer)
                   ld == Len(data)
        <5>a. lb \in Nat /\ ld \in Nat /\ outPos \in Nat /\ outPos + lb = o /\ i \in 1..lb + ld
          BY <2>6, <2>7, <3>3
        <5>b. ~(i <= lb)
          BY <4>2
        <5> HIDE DEF lb, ld
        <5>c. i - lb \in 1..ld /\ i \in 1..lb + ld /\ o + (i - lb) = outPos + i
          BY <5>a, <5>b
        <5>1. /\ i - Len(buffer) \in 1..Len(data) /\ i \in 1..Len(buffer) + Len(data)
              /\ o + (i - Len(buffer)) = outPos + i
          BY <5>c DEF lb, ld
        <5>2. bd[i] = data[i - Len(buffer)]
          BY <3>3, <4>2, <5>1, Zenon
        <5>3. data[i - Len(buffer)] = Text[o + (i - Len(buffer))]
          BY <1>2, <5>1, Zenon
        <5>4. QED
          BY <5>1, <5>2, <5>3, Zenon
      <4>3. QED
        BY <4>1, <4>2
    <3>5. outPos + Len(bd) = n
      <4>1. Len(bd) = Len(buffer) + Len(data) /\ Len(buffer) \in Nat
        BY <2>7, <3>3
      <4>2. QED
        BY <1>1, <2>n, <2>6, <2>7, <4>1
    <3>6. /\ outPos' = outPos /\ buffer' = bd /\ ret' = "SUCCESS" /\ inOffset' = o + BlockSize
          /\ step' = IF isLast THEN "flush" ELSE "block"
      BY <2>5, <3>1, Zenon
    <3>7. Waits(n)'
      BY <2>6, <2>7, <3>2, <3>3, <3>4, <3>5, <3>6 DEF Waits
    <3>8. QED
      BY <1>1, <2>6, <3>2, <3>6, <3>7 DEF FileInv, FilesTyped, TextKept, AtStep, Waits
  <2>9. CASE ~(Len(buffer) + Len(data) <= BufferLen) /\ wr = "full"
    <3> DEFINE out == Overlaid(tmp, outPos, buffer)
    <3>1. Begins(out) /\ o <= Len(out)
      BY <1>1, BufferGoesOn
    <3>2. v.ret = "SUCCESS" /\ v.text = out /\ v.pos = outPos + Len(buffer) /\ v.buffer = data
      BY <2>9 DEF SdWriteSaveToBuffer, SdWrite
    <3> HIDE DEF v, out
    <3>3. out # Absent /\ out \in Seq(Int)
      BY <3>1 DEF Begins, FSConstants
    <3>4. /\ files'["file"] = Sealed /\ files'["tmp"] = out
          /\ files' \in [Names -> Seq(Int) \cup {Absent}]
      BY <1>1, <2>5, <3>2, <3>3 DEF Names
    <3>5. /\ outPos' = o /\ buffer' = data /\ ret' = "SUCCESS" /\ inOffset' = o + BlockSize
          /\ step' = IF isLast THEN "flush" ELSE "block"
      BY <2>5, <2>7, <3>2, Zenon
    <3>6. Waits(n)'
      BY <1>1, <1>2, <2>6, <3>1, <3>4, <3>5 DEF Waits
    <3>7. QED
      BY <1>1, <2>6, <3>1, <3>3, <3>4, <3>5, <3>6 DEF FileInv, FilesTyped, TextKept, AtStep, Waits
  <2>10. CASE ~(Len(buffer) + Len(data) <= BufferLen) /\ wr # "full"
    <3>1. v.ret = "errno" /\ v.text = tmp
      BY <1>3, <2>10 DEF SdWriteSaveToBuffer, SdWrite
    <3> HIDE DEF v
    <3>2. files' = files /\ ret' = "errno" /\ step' = "close"
      BY <1>1, <2>5, <3>1 DEF Names
    <3>3. QED
      BY <1>1, <3>2 DEF FileInv, FilesTyped, TextKept, AtStep
  <2>11. QED
    BY <2>8, <2>9, <2>10
<1>6. QED
  BY <1>3, <1>4, <1>5

LEMMA FlushKeepsText ==
    ASSUME FSConstants, WholeBlocks, ValidPad, FileInv, Flush
    PROVE  FileInv'
<1> DEFINE tmp == files["tmp"]
           out == Overlaid(tmp, outPos, buffer)
<1>1. /\ files["file"] = Sealed /\ tmp # Absent /\ Begins(tmp) /\ Waits(Len(Text))
      /\ step = "flush" /\ step' = "close"
      /\ files \in [Names -> Seq(Int) \cup {Absent}]
  BY DEF Flush, FileInv, FilesTyped, TextKept, AtStep
<1>2. PICK how \in {"full", "write_error"} :
        LET w == SdWrite(tmp, outPos, buffer, how)
        IN IF buffer = <<>> THEN UNCHANGED <<files, outPos, ret>>
           ELSE files' = [files EXCEPT !["tmp"] = w.text] /\ outPos' = w.pos /\ ret' = w.ret
  BY OutcomesAre, Zenon DEF Flush
<1>3. CASE buffer = <<>>
  <2>1. Len(buffer) = 0
    BY <1>3
  <2>2. outPos \in Nat /\ outPos + Len(buffer) = Len(Text) /\ outPos <= Len(tmp)
    BY <1>1 DEF Waits
  <2>3. Len(tmp) >= Len(Text)
    BY <1>1, <2>1, <2>2 DEF Begins
  <2>4. tmp = Text
    BY <1>1, <2>3, WholeText
  <2>5. UNCHANGED files
    BY <1>2, <1>3
  <2>6. QED
    BY <1>1, <2>4, <2>5 DEF FileInv, FilesTyped, TextKept, AtStep
<1>4. CASE buffer # <<>> /\ how = "full"
  <2>1. Begins(out) /\ Len(Text) <= Len(out)
    BY <1>1, BufferGoesOn
  <2>2. out \in Seq(Int) /\ out # Absent /\ Text \in Seq(Int)
    BY <2>1, TextIsPlain DEF Begins, FSConstants
  <2>3. Len(out) >= Len(Text)
    BY <2>1, <2>2
  <2>4. out = Text
    BY <2>1, <2>3, WholeText
  <2>5. SdWrite(tmp, outPos, buffer, how).text = out
    BY <1>4, WriteIs
  <2> HIDE DEF out
  <2>6. /\ files'["file"] = Sealed /\ files'["tmp"] = out
        /\ files' \in [Names -> Seq(Int) \cup {Absent}]
    BY <1>1, <1>2, <1>4, <2>2, <2>5 DEF Names
  <2>7. QED
    BY <1>1, <2>1, <2>2, <2>4, <2>6 DEF FileInv, FilesTyped, TextKept, AtStep
<1>5. CASE buffer # <<>> /\ how # "full"
  <2>1. /\ SdWrite(tmp, outPos, buffer, how).text = tmp
        /\ SdWrite(tmp, outPos, buffer, how).ret = "errno"
    BY <1>5, WriteIs
  <2>2. UNCHANGED files /\ ret' = "errno"
    BY <1>1, <1>2, <1>5, <2>1 DEF Names
  <2>3. QED
    BY <1>1, <2>2 DEF FileInv, FilesTyped, TextKept, AtStep
<1>6. QED
  BY <1>3, <1>4, <1>5

LEMMA CloseKeepsText ==
    ASSUME FSConstants, WholeBlocks, ValidPad, FileInv, Close
    PROVE  FileInv'
<1>1. /\ files["file"] = Sealed /\ files["tmp"] # Absent /\ Begins(files["tmp"])
      /\ step = "close"
      /\ files \in [Names -> Seq(Int) \cup {Absent}]
  BY DEF Close, FileInv, FilesTyped, TextKept, AtStep
<1>2. CASE ret = "SUCCESS"
  <2>1. /\ step' = "rename" /\ files["tmp"] = Text
        /\ files' = files \/ files' = [files EXCEPT !["file"] = Absent]
    BY <1>1, <1>2 DEF Close, SdDeleteFile, FileInv, AtStep
  <2>2. /\ files'["tmp"] = Text /\ files'["file"] \in {Sealed, Absent}
        /\ files' \in [Names -> Seq(Int) \cup {Absent}]
    BY <1>1, <2>1 DEF Names
  <2>3. QED
    BY <1>1, <2>1, <2>2 DEF FileInv, FilesTyped, TextKept, AtStep
<1>3. CASE ret # "SUCCESS"
  <2>1. /\ step' = "done"
        /\ files' = files \/ files' = [files EXCEPT !["tmp"] = Absent]
    BY <1>3 DEF Close, SdDeleteFile
  <2>2. files'["file"] = Sealed /\ files' \in [Names -> Seq(Int) \cup {Absent}]
    BY <1>1, <2>1 DEF Names
  <2>3. QED
    BY <1>1, <2>1, <2>2 DEF FileInv, FilesTyped, TextKept, AtStep
<1>4. QED
  BY <1>2, <1>3

LEMMA RenameKeepsText ==
    ASSUME FSConstants, WholeBlocks, ValidPad, FileInv, Rename
    PROVE  FileInv'
<1>1. /\ files["tmp"] = Text /\ step = "rename" /\ step' = "done"
      /\ files["file"] \in {Sealed, Absent}
      /\ files \in [Names -> Seq(Int) \cup {Absent}]
      /\ Text \in Seq(Int) /\ Sealed # Absent
  BY TextIsPlain DEF Rename, FileInv, FilesTyped, TextKept, AtStep, FSConstants
<1>2. CASE files["file"] = Sealed
  <2>1. files' = files
    BY <1>1, <1>2 DEF Rename, SdRenameFile, Exists
  <2>2. QED
    BY <1>1, <1>2, <2>1 DEF FileInv, FilesTyped, TextKept, AtStep
<1>3. CASE files["file"] = Absent
  <2>1. files' = [files EXCEPT !["file"] = files["tmp"], !["tmp"] = Absent]
    BY <1>1, <1>3 DEF Rename, SdRenameFile, Exists
  <2>2. /\ files'["file"] = Text
        /\ files' \in [Names -> Seq(Int) \cup {Absent}]
    BY <1>1, <2>1 DEF Names
  <2>3. QED
    BY <1>1, <2>2 DEF FileInv, FilesTyped, TextKept, AtStep
<1>4. QED
  BY <1>1, <1>2, <1>3

(* The next call begins with what the crash left.                          *)
LEMMA CrashKeepsText ==
    ASSUME FSConstants, FileInv, CallAgain
    PROVE  FileInv'
BY DEF CallAgain, FileInv, FilesTyped, TextKept, AtStep

LEMMA FileStepKeepsText ==
    ASSUME FSConstants, WholeBlocks, ValidPad, FileInv, [FileNext]_(fileVars)
    PROVE  FileInv'
<1>1. CASE FileNext
  BY <1>1, OpenKeepsText, BlockKeepsText, FlushKeepsText, CloseKeepsText, RenameKeepsText,
     CrashKeepsText DEF FileNext
<1>2. CASE UNCHANGED fileVars
  BY <1>2 DEF fileVars, FileInv, FilesTyped, TextKept, AtStep, Waits
<1>3. QED
  BY <1>1, <1>2

(* What is not of whole blocks is refused and stays as it is.              *)
LEMMA RefusedStays ==
    ASSUME FSConstants, ~WholeBlocks, step \in {"open", "done"}, files["file"] = Sealed,
           [FileNext]_(fileVars)
    PROVE  step' \in {"open", "done"} /\ files'["file"] = Sealed
<1>1. CASE Open
  <2>1. Sealed # Absent /\ (Sealed = <<>> \/ Len(Sealed) % BlockSize # 0)
    BY DEF FSConstants, WholeBlocks
  <2>2. QED
    BY <1>1, <2>1 DEF Open
<1>2. CASE CallAgain
  BY <1>2 DEF CallAgain
<1>3. CASE UNCHANGED fileVars
  BY <1>3 DEF fileVars
<1>4. QED
  BY <1>1, <1>2, <1>3 DEF FileNext, Block, Flush, Close, Rename

(* Whatever fails and whenever the process crashes, the text of a sealed   *)
(* file is on disk (sd_aes_decrypt_file of aes.c): what is not of whole    *)
(* blocks is left as it is, and what is and has a pad is there as it was   *)
(* or as its text.                                                         *)
THEOREM TextStaysOnDisk ==
    ASSUME Absent \notin Seq(Int), BlocksStay, WholeCalls, WholeBlocks => ValidPad
    PROVE  FileSpec => []TextIsOnDisk
<1>0. FSConstants
  <2>1. Sealed \in Seq(Int)
    BY CharsAreInts, FileAssumption, SeqMonotonic
  <2>2. BlockSize \in Nat \ {0} /\ BufferLen \in Nat /\ BlockSize <= BufferLen
    BY BlockSizeAssumption, SizesAssumption, FileAssumption
  <2> QED
    BY <2>1, <2>2, Zenon DEF FSConstants
<1>1. CASE WholeBlocks
  <2>1. FileInit => FileInv
    BY <1>0, InitFiles
  <2>2. FileInv /\ [FileNext]_(fileVars) => FileInv'
    BY <1>0, <1>1, FileStepKeepsText
  <2>3. FileInv => TextIsOnDisk
    BY <1>1 DEF FileInv, TextKept, TextIsOnDisk, Exists
  <2>4. QED
    BY <2>1, <2>2, <2>3, PTL DEF FileSpec
<1>2. CASE ~WholeBlocks
  <2> DEFINE Refused == step \in {"open", "done"} /\ files["file"] = Sealed
  <2>1. FileInit => Refused
    BY DEF FileInit, Names
  <2>2. Refused /\ [FileNext]_(fileVars) => Refused'
    BY <1>0, <1>2, RefusedStays
  <2>3. Refused => TextIsOnDisk
    BY DEF TextIsOnDisk
  <2>4. QED
    BY <2>1, <2>2, <2>3, PTL DEF FileSpec
<1>3. QED
  BY <1>1, <1>2

-----------------------------------------------------------------------------
(* The text of a query, part by part.                                      *)

(* A number or a string and what comes after it. *)
NumberThen(v, n, r) == Chars(v, n) \o r
StringThen(s, r) == Chars(Len(s), Int32) \o (s \o r)

(* Chars and their sequences.                                              *)
LEMMA CharSeqs ==
    /\ Seq(CharSet) \subseteq Seq(Int)
    /\ <<>> \in Seq(CharSet)
    /\ Int32 \in Nat \ {0} /\ Power(Int32) \in Nat \ {0}
    /\ \A n \in Nat : \A v \in Unsigned(n) : v \in Nat
<1>1. Seq(CharSet) \subseteq Seq(Int)
  BY CharsAreInts, SeqMonotonic
<1>2. <<>> \in Seq(CharSet)
  BY EmptySeq
<1>3. Int32 \in Nat \ {0} /\ Power(Int32) \in Nat \ {0}
  BY SizesAssumption, Powers
<1>4. \A n \in Nat : \A v \in Unsigned(n) : v \in Nat
  BY Powers DEF Unsigned
<1> QED
  BY <1>1, <1>2, <1>3, <1>4, Zenon

(* The bytes of a digest are chars.                                        *)
LEMMA SmallChars == 0..255 \subseteq CharSet
<1>1. 256 <= CharBase
  BY ClientAssumption, Zenon
<1> QED
  BY <1>1, SizesAssumption DEF CharSet

(* The length of a text that begins with a number.                         *)
LEMMA NumberThenTyped ==
    ASSUME NEW v \in Nat, NEW n \in Nat
    PROVE  /\ \A r \in Seq(Int) : NumberThen(v, n, r) \in Seq(Int) /\ Len(NumberThen(v, n, r)) = n + Len(r)
           /\ \A r \in Seq(CharSet) : NumberThen(v, n, r) \in Seq(CharSet)
<1>1. PICK w : w = Chars(v, n)
  OBVIOUS
<1>2. w \in Seq(CharSet) /\ w \in Seq(Int) /\ Len(w) = n
  BY <1>1, CharsTyped
<1>3. ASSUME NEW r \in Seq(Int) PROVE w \o r \in Seq(Int) /\ Len(w \o r) = n + Len(r)
  BY <1>2, Joins
<1>4. ASSUME NEW r \in Seq(CharSet) PROVE w \o r \in Seq(CharSet)
  BY <1>2, Parts
<1> QED
  BY <1>1, <1>3, <1>4 DEF NumberThen

(* The length of a text that begins with a string.                         *)
LEMMA StringThenTyped ==
    /\ \A s, r \in Seq(Int) :
          /\ StringThen(s, r) \in Seq(Int) /\ Len(StringThen(s, r)) = Int32 + Len(s) + Len(r)
          /\ s \o r \in Seq(Int)
    /\ \A s, r \in Seq(CharSet) : StringThen(s, r) \in Seq(CharSet) /\ s \o r \in Seq(CharSet)
<1>1. ASSUME NEW s \in Seq(Int), NEW r \in Seq(Int)
      PROVE  /\ StringThen(s, r) \in Seq(Int) /\ Len(StringThen(s, r)) = Int32 + Len(s) + Len(r)
             /\ s \o r \in Seq(Int)
  <2>1. Len(s) \in Nat /\ Len(r) \in Nat /\ Int32 \in Nat /\ s \o r \in Seq(Int) /\ Len(s \o r) = Len(s) + Len(r)
    BY Joins, CharSeqs
  <2>2. PICK t \in Seq(Int) : t = s \o r
    BY <2>1
  <2>3. NumberThen(Len(s), Int32, t) \in Seq(Int) /\ Len(NumberThen(Len(s), Int32, t)) = Int32 + Len(t)
    BY <2>1, NumberThenTyped
  <2>4. StringThen(s, r) = NumberThen(Len(s), Int32, t)
    BY <2>2 DEF StringThen, NumberThen
  <2> QED
    BY <2>1, <2>2, <2>3, <2>4
<1>2. ASSUME NEW s \in Seq(CharSet), NEW r \in Seq(CharSet)
      PROVE  StringThen(s, r) \in Seq(CharSet) /\ s \o r \in Seq(CharSet)
  <2>1. Len(s) \in Nat /\ Int32 \in Nat /\ s \o r \in Seq(CharSet)
    BY Parts, CharSeqs
  <2>2. PICK t \in Seq(CharSet) : t = s \o r
    BY <2>1
  <2>3. NumberThen(Len(s), Int32, t) \in Seq(CharSet)
    BY <2>1, NumberThenTyped
  <2> QED
    BY <2>1, <2>2, <2>3 DEF StringThen, NumberThen
<1> QED
  BY <1>1, <1>2

-----------------------------------------------------------------------------
(* The parts of a query. *)

(* gen_sha1_info_id makes half as many chars as the digits it reads.       *)
LEMMA IdTyped ==
    ASSUME NEW q \in Queries, GenSHA1InfoId(q.infohash).ret = "EC_SUCC",
           Len(q.infohash) = InfoIdLen
    PROVE  /\ GenSHA1InfoId(q.infohash).id \in Seq(CharSet)
           /\ Len(GenSHA1InfoId(q.infohash).id) = InfoIdLen \div 2
<1>1. PICK h \in Seq(-1..15) : h = q.infohash
  BY ParametersAssumption
<1>2. PICK n \in Nat : n = Len(h) /\ n = InfoIdLen
  BY <1>1
<1>3. n % 2 = 0
  BY <1>2, ClientAssumption
<1>4. \A i \in 1..n : h[i] # NoDigit
  BY <1>1, <1>2, <1>3 DEF GenSHA1InfoId
<1>5. GenSHA1InfoId(h).id = [i \in 1..n \div 2 |-> h[2 * i - 1] * 16 + h[2 * i]]
  BY <1>2, <1>3, <1>4 DEF GenSHA1InfoId
<1>6. n \div 2 \in Nat /\ 2 * (n \div 2) = n
  BY <1>3
<1>7. ASSUME NEW i \in 1..n \div 2 PROVE h[2 * i - 1] * 16 + h[2 * i] \in CharSet
  <2>1. 2 * i - 1 \in 1..n /\ 2 * i \in 1..n
    BY <1>6
  <2>2. h[2 * i - 1] \in 0..15 /\ h[2 * i] \in 0..15
    <3>1. h[2 * i - 1] \in -1..15 /\ h[2 * i] \in -1..15
      BY <1>2, <2>1, ElementOfSeq
    <3> QED
      BY <1>4, <2>1, <3>1 DEF NoDigit
  <2>3. h[2 * i - 1] * 16 + h[2 * i] \in 0..255
    <3>1. \A a, b \in 0..15 : a * 16 + b \in 0..255
      OBVIOUS
    <3> QED
      BY <2>2, <3>1, Zenon
  <2> QED
    BY <2>3, SmallChars
<1>8. PICK id : id = GenSHA1InfoId(h).id
  OBVIOUS
<1>9. id \in [1..n \div 2 -> CharSet]
  BY <1>5, <1>7, <1>8
<1>10. id \in Seq(CharSet) /\ Len(id) = n \div 2
  BY <1>6, <1>9
<1> QED
  BY <1>1, <1>2, <1>8, <1>10

(* The decimal digits of a number are chars.                               *)
LEMMA ToStrTyped ==
    ASSUME NEW v \in Nat
    PROVE  ToStr(v) \in Seq(CharSet)
<1> DEFINE G == [p \in Nat \X Nat |-> p[2] \div 10]
           by10 == CHOOSE h : h = [k \in 0..9 |-> IF k = 0 THEN v ELSE h[k - 1] \div 10]
           more == Cardinality({k \in 1..9 : by10[k] # 0})
<1>1. PICK f : Recurs(f, Nat, v, G)
  <2>1. G \in [Nat \X Nat -> Nat]
    <3>1. ASSUME NEW p \in Nat \X Nat PROVE p[2] \div 10 \in Nat
      OBVIOUS
    <3> QED
      BY <3>1
  <2> HIDE DEF G
  <2> QED
    BY <2>1, Recursion
<1>2. f \in [Nat -> Nat] /\ f[0] = v /\ \A n \in Nat \ {0} : f[n] = f[n - 1] \div 10
  <2>1. f \in [Nat -> Nat] /\ f[0] = v /\ \A n \in Nat \ {0} : f[n] = G[<<n, f[n - 1]>>]
    BY <1>1 DEF Recurs
  <2>2. ASSUME NEW n \in Nat \ {0} PROVE f[n] = f[n - 1] \div 10
    <3>1. <<n, f[n - 1]>> \in Nat \X Nat
      BY <2>1
    <3> QED
      BY <2>1, <3>1
  <2> QED
    BY <2>1, <2>2
<1> DEFINE g == [k \in 0..9 |-> f[k]]
<1>3. g = [k \in 0..9 |-> IF k = 0 THEN v ELSE g[k - 1] \div 10]
  <2>1. ASSUME NEW k \in 0..9 PROVE f[k] = IF k = 0 THEN v ELSE g[k - 1] \div 10
    <3>1. CASE k = 0
      BY <1>2, <3>1
    <3>2. CASE k # 0
      BY <1>2, <3>2
    <3> QED
      BY <3>1, <3>2
  <2> QED
    BY <2>1
<1>4. by10 = [k \in 0..9 |-> IF k = 0 THEN v ELSE by10[k - 1] \div 10]
  <2> HIDE DEF g
  <2> QED
    BY <1>3
<1>5. ToStr(v) = [i \in 1..more + 1 |-> 48 + (by10[more + 1 - i] % 10)]
  BY DEF ToStr
<1> HIDE DEF by10, g
<1>6. ASSUME NEW k \in 0..9 PROVE by10[k] \in Nat
  <2> DEFINE T == {j \in Nat : j \in 0..9 => by10[j] \in Nat}
  <2>1. 0 \in T
    BY <1>4
  <2>2. ASSUME NEW j \in T PROVE j + 1 \in T
    <3> SUFFICES ASSUME j + 1 \in 0..9 PROVE by10[j + 1] \in Nat
      OBVIOUS
    <3>1. j \in 0..9 /\ (j + 1) - 1 = j /\ j + 1 # 0
      OBVIOUS
    <3>2. by10[j + 1] = by10[j] \div 10 /\ by10[j] \in Nat
      BY <1>4, <3>1
    <3> QED
      BY <3>2
  <2>3. T = Nat
    <3> HIDE DEF T
    <3>1. T \in SUBSET Nat
      BY DEF T
    <3> QED
      BY <2>1, <2>2, <3>1, Induction
  <2> QED
    BY <2>3
<1>7. more \in 0..9
  <2> DEFINE D == {k \in 1..9 : by10[k] # 0}
  <2>1. IsFiniteSet(1..9) /\ Cardinality(1..9) = 9
    <3>1. 1 \in Int /\ 9 \in Int
      OBVIOUS
    <3>2. IsFiniteSet(1..9) /\ Cardinality(1..9) = IF 1 > 9 THEN 0 ELSE 9 - 1 + 1
      BY <3>1, FS_Interval
    <3> QED
      BY <3>2
  <2>2. D \subseteq 1..9
    OBVIOUS
  <2> HIDE DEF D
  <2>3. Cardinality(D) \in Nat /\ Cardinality(D) <= 9
    BY <2>1, <2>2, FS_Subset, FS_CardinalityType
  <2>4. more = Cardinality(D)
    BY DEF D
  <2> QED
    BY <2>3, <2>4
<1> HIDE DEF more
<1>8. ASSUME NEW i \in 1..more + 1 PROVE 48 + (by10[more + 1 - i] % 10) \in CharSet
  <2>1. more + 1 - i \in 0..9
    BY <1>7
  <2>2. by10[more + 1 - i] \in Nat
    BY <1>6, <2>1
  <2>3. 48 + (by10[more + 1 - i] % 10) \in 0..255
    <3>1. \A n \in Nat : 48 + (n % 10) \in 0..255
      OBVIOUS
    <3> QED
      BY <2>2, <3>1, Zenon
  <2> QED
    BY <2>3, SmallChars
<1>9. ToStr(v) \in [1..more + 1 -> CharSet]
  BY <1>5, <1>8
<1>10. more + 1 \in Nat
  BY <1>7
<1> QED
  BY <1>9, <1>10

(* A number of the text is written.                                        *)
LEMMA NumberWrites ==
    ASSUME NEW n \in Nat, NEW c, NEW t \in Seq(Int), Len(t) <= n,
           NEW k \in Nat \ {0}, NEW v \in Nat, NEW r \in Seq(Int), ToWrite(c, t, NumberThen(v, k, r), n)
    PROVE  ToWrite(SetToLt(c, k, v).c, t, r, n) /\ ToWrite(PushValue(c, k, v).c, t, r, n)
<1>1. ToWrite(c, t, Chars(v, k) \o r, n)
  BY DEF NumberThen
<1>2. ToWrite(SetToLt(c, k, v).c, t, r, n) /\ PushValue(c, k, v) = SetToLt(c, k, v)
  BY <1>1, SetToLtWrites
<1> QED
  BY <1>2

(* A string of the text is written.                                        *)
LEMMA StringWrites ==
    ASSUME NEW n \in Nat, NEW c, NEW t \in Seq(Int), Len(t) <= n,
           NEW s \in Seq(Int), NEW r \in Seq(Int), ToWrite(c, t, StringThen(s, r), n)
    PROVE  /\ ToWrite(SetBytes(SetToLt(c, Int32, Len(s)).c, s).c, t, r, n)
           /\ ToWrite(PushCStr(c, s).c, t, r, n)
<1>1. ToWrite(c, t, Chars(Len(s), Int32) \o (s \o r), n)
  BY DEF StringThen
<1>2. ToWrite(PushCStr(c, s).c, t, r, n)
  BY <1>1, PushCStrWrites
<1>3. PICK u \in Seq(Int) : u = s \o r
  BY StringThenTyped
<1>4. PICK l \in Nat : l = Len(s)
  BY Joins
<1>5. Int32 \in Nat \ {0} /\ ToWrite(c, t, Chars(l, Int32) \o u, n)
  BY <1>1, <1>3, <1>4, SizesAssumption
<1>6. ToWrite(SetToLt(c, Int32, l).c, t, u, n)
  BY <1>5, SetToLtWrites
<1>7. PICK d : d = SetToLt(c, Int32, l).c
  OBVIOUS
<1>8. ToWrite(d, t, s \o r, n)
  BY <1>3, <1>6, <1>7
<1>9. ToWrite(SetBytes(d, s).c, t, r, n)
  BY <1>8, SetBytesWrites
<1> QED
  BY <1>2, <1>4, <1>7, <1>9

(* Whatever is written, the memory is one of numbers. *)
TypedCursor(c) == c.mem \in Seq(Int) /\ c.at \in Int

(* Setting bytes keeps the memory one of numbers, if they fit or not.      *)
LEMMA SetBytesTyped ==
    ASSUME NEW c, TypedCursor(c), NEW s \in Seq(Int)
    PROVE  TypedCursor(SetBytes(c, s).c)
<1>1. c.mem \in Seq(Int) /\ c.at \in Int /\ Len(s) \in Nat
  BY Joins DEF TypedCursor
<1>2. PICK m \in Seq(Int) : m = Overwritten(c.mem, c.at, s)
  BY <1>1, OverwrittenTyped
<1>3. SetBytes(c, s).c = c \/ SetBytes(c, s).c = Advance(c, m, Len(s))
  BY <1>2 DEF SetBytes, Failed
<1>4. Advance(c, m, Len(s)).mem = m /\ Advance(c, m, Len(s)).at = c.at + Len(s)
  BY DEF Advance
<1>5. c.at + Len(s) \in Int
  BY <1>1
<1>6. CASE SetBytes(c, s).c = c
  BY <1>6
<1>7. CASE SetBytes(c, s).c = Advance(c, m, Len(s))
  BY <1>4, <1>5, <1>7 DEF TypedCursor
<1> QED
  BY <1>3, <1>6, <1>7

(* So does setting a number.                                               *)
LEMMA SetToLtTyped ==
    ASSUME NEW c, TypedCursor(c), NEW k \in Nat, NEW v \in Nat
    PROVE  TypedCursor(SetToLt(c, k, v).c)
<1>1. Chars(v, k) \in Seq(Int)
  BY CharsTyped
<1> QED
  BY <1>1, SetBytesTyped DEF SetToLt

(* So does setting a string behind its length.                             *)
LEMMA SetStringTyped ==
    ASSUME NEW c, TypedCursor(c), NEW s \in Seq(Int)
    PROVE  TypedCursor(SetBytes(SetToLt(c, Int32, Len(s)).c, s).c)
<1>1. Len(s) \in Nat /\ Int32 \in Nat
  BY Joins, SizesAssumption
<1> QED
  BY <1>1, SetToLtTyped, SetBytesTyped

-----------------------------------------------------------------------------
(* What build_reserve6x writes when it fits.                               *)

ReserveBody(q) ==
    StringThen(Version, NumberThen(ProductId, Int32, StringThen(ToStr(q.appid),
      StringThen(Version, StringThen(q.channel, <<>>)))))

(* The parameters of a query.                                              *)
LEMMA ParamsTyped ==
    ASSUME NEW q \in Queries
    PROVE  /\ Version \in Seq(CharSet) /\ Version \in Seq(Int)
           /\ q.channel \in Seq(CharSet) /\ q.channel \in Seq(Int)
           /\ ToStr(q.appid) \in Seq(CharSet) /\ ToStr(q.appid) \in Seq(Int)
           /\ q.peerid \in Seq(CharSet) /\ q.peerid \in Seq(Int)
           /\ ProductId \in Nat /\ q.version \in Nat /\ q.seq \in Nat /\ q.compress \in Nat
           /\ q.cmdId \in Nat /\ Short \in Nat \ {0} /\ Int32 \in Nat \ {0}
           /\ ReserveLen(q) \in Nat
<1>1. Version \in Seq(CharSet) /\ ProductId \in Unsigned(Int32) /\ Short \in Nat \ {0}
  BY ClientAssumption, Zenon
<1>2. /\ q.channel \in Seq(CharSet) /\ q.peerid \in Seq(CharSet) /\ q.cmdId \in Unsigned(Short)
      /\ q.version \in Unsigned(Int32) /\ q.seq \in Unsigned(Int32)
      /\ q.appid \in Unsigned(Int32) /\ q.compress \in Unsigned(Int32)
  BY ParametersAssumption
<1>3. Int32 \in Nat \ {0} /\ Int32 \in Nat /\ Short \in Nat
  BY <1>1, SizesAssumption
<1>4. /\ ProductId \in Nat /\ q.version \in Nat /\ q.seq \in Nat /\ q.compress \in Nat
      /\ q.cmdId \in Nat /\ q.appid \in Nat
  BY <1>1, <1>2, <1>3, CharSeqs, Zenon
<1>5. ToStr(q.appid) \in Seq(CharSet)
  BY <1>4, ToStrTyped
<1>6. \A s \in Seq(CharSet) : s \in Seq(Int) /\ Len(s) \in Nat
  BY CharSeqs
<1>7. Len(Version) \in Nat /\ Len(q.channel) \in Nat /\ Len(ToStr(q.appid)) \in Nat
  BY <1>1, <1>2, <1>5, <1>6, Zenon
<1>8. ReserveLen(q) \in Nat
  <2>1. \A a, b, c, d \in Nat : 5 * a + 2 * b + c + d \in Nat
    OBVIOUS
  <2> QED
    BY <1>3, <1>7, <2>1, Zenon DEF ReserveLen
<1> QED
  BY <1>1, <1>2, <1>3, <1>4, <1>5, <1>6, <1>8, Zenon

(* The reserve is as long as ReserveLen counts.                            *)
LEMMA ReserveBodyTyped ==
    ASSUME NEW q \in Queries
    PROVE  /\ ReserveBody(q) \in Seq(CharSet) /\ ReserveBody(q) \in Seq(Int)
           /\ Len(ReserveBody(q)) = ReserveLen(q)
<1>1. PICK v \in Seq(CharSet) : v = Version
  BY ParamsTyped
<1>2. PICK p \in Seq(CharSet) : p = ToStr(q.appid)
  BY ParamsTyped
<1>3. PICK ch \in Seq(CharSet) : ch = q.channel
  BY ParamsTyped
<1>4. PICK id \in Nat : id = ProductId
  BY ParamsTyped
<1>5. /\ Int32 \in Nat /\ v \in Seq(Int) /\ p \in Seq(Int) /\ ch \in Seq(Int)
      /\ Len(v) \in Nat /\ Len(p) \in Nat /\ Len(ch) \in Nat
      /\ <<>> \in Seq(CharSet) /\ <<>> \in Seq(Int) /\ Len(<<>>) = 0
  BY CharSeqs, Empty
<1>6. PICK r5 : r5 = StringThen(ch, <<>>)
  OBVIOUS
<1>7. r5 \in Seq(CharSet) /\ r5 \in Seq(Int) /\ Len(r5) = Int32 + Len(ch)
  <2>1. Len(r5) = Int32 + Len(ch) + Len(<<>>)
    BY <1>5, <1>6, StringThenTyped
  <2>2. r5 \in Seq(CharSet) /\ r5 \in Seq(Int)
    BY <1>5, <1>6, StringThenTyped
  <2> QED
    BY <1>5, <2>1, <2>2
<1>8. PICK r4 : r4 = StringThen(v, r5)
  OBVIOUS
<1>9. r4 \in Seq(CharSet) /\ r4 \in Seq(Int) /\ Len(r4) = Int32 + Len(v) + Len(r5)
  BY <1>5, <1>7, <1>8, StringThenTyped
<1>10. PICK r3 : r3 = StringThen(p, r4)
  OBVIOUS
<1>11. r3 \in Seq(CharSet) /\ r3 \in Seq(Int) /\ Len(r3) = Int32 + Len(p) + Len(r4)
  BY <1>5, <1>9, <1>10, StringThenTyped
<1>12. PICK r2 : r2 = NumberThen(id, Int32, r3)
  OBVIOUS
<1>13. r2 \in Seq(CharSet) /\ r2 \in Seq(Int) /\ Len(r2) = Int32 + Len(r3)
  BY <1>5, <1>11, <1>12, NumberThenTyped
<1>14. PICK r1 : r1 = StringThen(v, r2)
  OBVIOUS
<1>15. r1 \in Seq(CharSet) /\ r1 \in Seq(Int) /\ Len(r1) = Int32 + Len(v) + Len(r2)
  BY <1>5, <1>13, <1>14, StringThenTyped
<1>16. ReserveBody(q) = r1
  BY <1>1, <1>2, <1>3, <1>4, <1>6, <1>8, <1>10, <1>12, <1>14, Zenon DEF ReserveBody
<1>17. Len(r1) = 5 * Int32 + 2 * Len(v) + Len(p) + Len(ch)
  BY <1>5, <1>7, <1>9, <1>11, <1>13, <1>15
<1>18. ReserveLen(q) = 5 * Int32 + 2 * Len(v) + Len(p) + Len(ch)
  BY <1>1, <1>2, <1>3 DEF ReserveLen
<1> QED
  BY <1>15, <1>16, <1>17, <1>18

ReserveText(q) == NumberThen(ReserveLen(q), Int32, ReserveBody(q))

(* With its length before it, four chars more.                             *)
LEMMA ReserveTextTyped ==
    ASSUME NEW q \in Queries
    PROVE  /\ ReserveText(q) \in Seq(CharSet) /\ ReserveText(q) \in Seq(Int)
           /\ Len(ReserveText(q)) = ReserveLen(q) + Int32
<1>1. PICK b \in Seq(CharSet) : b = ReserveBody(q)
  BY ReserveBodyTyped
<1>2. PICK n \in Nat : n = ReserveLen(q)
  BY ParamsTyped
<1>3. b \in Seq(Int) /\ Len(b) = n /\ Int32 \in Nat
  BY <1>1, <1>2, ReserveBodyTyped, CharSeqs
<1>4. PICK t : t = NumberThen(n, Int32, b)
  OBVIOUS
<1>5. t \in Seq(CharSet) /\ t \in Seq(Int) /\ Len(t) = Int32 + n
  BY <1>3, <1>4, NumberThenTyped
<1>6. ReserveText(q) = t
  BY <1>1, <1>2, <1>4 DEF ReserveText
<1> QED
  BY <1>2, <1>3, <1>5, <1>6

(* build_reserve6x makes as many chars, if they fit its buffer or not.     *)
LEMMA ReserveTyped ==
    ASSUME NEW q \in Queries
    PROVE  /\ BuildReserve6x(q) \in Seq(Int)
           /\ Len(BuildReserve6x(q)) = ReserveLen(q) + Int32
<1>1. PICK c0 : c0 = Cursor(Zeros(ReserveRoom), ReserveRoom)
  OBVIOUS
<1>2. PICK c1 : c1 = SetToLt(c0, Int32, ReserveLen(q)).c
  OBVIOUS
<1>3. PICK c2 : c2 = SetBytes(SetToLt(c1, Int32, Len(Version)).c, Version).c
  OBVIOUS
<1>4. PICK c3 : c3 = SetToLt(c2, Int32, ProductId).c
  OBVIOUS
<1>5. PICK c4 : c4 = SetBytes(SetToLt(c3, Int32, Len(ToStr(q.appid))).c, ToStr(q.appid)).c
  OBVIOUS
<1>6. PICK c5 : c5 = SetBytes(SetToLt(c4, Int32, Len(Version)).c, Version).c
  OBVIOUS
<1>7. PICK c6 : c6 = SetBytes(SetToLt(c5, Int32, Len(q.channel)).c, q.channel).c
  OBVIOUS
<1>8. PICK n \in Nat : n = ReserveLen(q) + Int32
  BY ParamsTyped
<1>9. BuildReserve6x(q) = CharsAt(c6.mem, 1, n)
  BY <1>1, <1>2, <1>3, <1>4, <1>5, <1>6, <1>7, <1>8, Zenon DEF BuildReserve6x
<1>10. TypedCursor(c0)
  <2>1. ReserveRoom \in Nat
    BY ClientAssumption, Zenon
  <2>2. Zeros(ReserveRoom) \in Seq(Int)
    BY <2>1, ZerosTyped
  <2> QED
    BY <1>1, <2>2 DEF TypedCursor, Cursor
<1>11. TypedCursor(c6)
  <2>0. Int32 \in Nat /\ ProductId \in Nat /\ ReserveLen(q) \in Nat
    BY ParamsTyped
  <2>1. TypedCursor(c1)
    BY <1>2, <1>10, <2>0, SetToLtTyped
  <2>2. TypedCursor(c2)
    BY <1>3, <2>1, SetStringTyped, ParamsTyped
  <2>3. TypedCursor(c3)
    BY <1>4, <2>0, <2>2, SetToLtTyped
  <2>4. TypedCursor(c4)
    BY <1>5, <2>3, SetStringTyped, ParamsTyped
  <2>5. TypedCursor(c5)
    BY <1>6, <2>4, SetStringTyped, ParamsTyped
  <2> QED
    BY <1>7, <2>5, SetStringTyped, ParamsTyped
<1>12. PICK m \in Seq(Int) : m = c6.mem
  BY <1>11 DEF TypedCursor
<1>13. PICK s : s = CharsAt(m, 1, n)
  OBVIOUS
<1>14. s \in [1..n -> Int]
  <2>1. ASSUME NEW i \in 1..n PROVE (IF 1 + i - 1 \in DOMAIN m THEN m[1 + i - 1] ELSE Outside) \in Int
    <3>1. CASE 1 + i - 1 \in DOMAIN m
      <4>1. 1 + i - 1 \in 1..Len(m)
        BY <3>1
      <4> QED
        BY <3>1, <4>1, ElementOfSeq
    <3>2. CASE 1 + i - 1 \notin DOMAIN m
      BY <3>2 DEF Outside
    <3> QED
      BY <3>1, <3>2
  <2> QED
    BY <1>13, <2>1 DEF CharsAt
<1>15. s \in Seq(Int) /\ Len(s) = n
  BY <1>14
<1> QED
  BY <1>8, <1>9, <1>12, <1>13, <1>15

(* And if they fit it makes these.                                         *)
LEMMA ReserveFits ==
    ASSUME NEW q \in Queries, Fits(q)
    PROVE  BuildReserve6x(q) = ReserveText(q)
<1>1. PICK n \in Nat : n = ReserveRoom
  BY ClientAssumption, Zenon
<1>2. PICK v \in Seq(Int) : v = Version
  BY ParamsTyped
<1>3. PICK p \in Seq(Int) : p = ToStr(q.appid)
  BY ParamsTyped
<1>4. PICK ch \in Seq(Int) : ch = q.channel
  BY ParamsTyped
<1>5. PICK id \in Nat : id = ProductId
  BY ParamsTyped
<1>6. PICK l \in Nat : l = ReserveLen(q)
  BY ParamsTyped
<1>7. Int32 \in Nat \ {0} /\ Int32 \in Nat
  BY ParamsTyped
<1>8. PICK r5 \in Seq(Int) : r5 = StringThen(ch, <<>>)
  BY StringThenTyped, Empty
<1>9. PICK r4 \in Seq(Int) : r4 = StringThen(v, r5)
  BY StringThenTyped
<1>10. PICK r3 \in Seq(Int) : r3 = StringThen(p, r4)
  BY StringThenTyped
<1>11. PICK r2 \in Seq(Int) : r2 = NumberThen(id, Int32, r3)
  BY <1>7, NumberThenTyped
<1>12. PICK r1 \in Seq(Int) : r1 = StringThen(v, r2)
  BY StringThenTyped
<1>13. PICK t \in Seq(Int) : t = NumberThen(l, Int32, r1)
  BY <1>7, NumberThenTyped
<1>14. t = ReserveText(q)
  BY <1>2, <1>3, <1>4, <1>5, <1>6, <1>8, <1>9, <1>10, <1>11, <1>12, <1>13, Zenon
     DEF ReserveText, ReserveBody
<1>15. Len(t) = l + Int32 /\ Len(t) <= n
  <2>1. Len(t) = ReserveLen(q) + Int32 /\ Len(BuildReserve6x(q)) = ReserveLen(q) + Int32
    BY <1>14, ReserveTextTyped, ReserveTyped
  <2> QED
    BY <1>1, <1>6, <2>1 DEF Fits
<1>16. PICK c0 : c0 = Cursor(Zeros(ReserveRoom), ReserveRoom)
  OBVIOUS
<1>17. PICK c1 : c1 = SetToLt(c0, Int32, ReserveLen(q)).c
  OBVIOUS
<1>18. PICK c2 : c2 = SetBytes(SetToLt(c1, Int32, Len(Version)).c, Version).c
  OBVIOUS
<1>19. PICK c3 : c3 = SetToLt(c2, Int32, ProductId).c
  OBVIOUS
<1>20. PICK c4 : c4 = SetBytes(SetToLt(c3, Int32, Len(ToStr(q.appid))).c, ToStr(q.appid)).c
  OBVIOUS
<1>21. PICK c5 : c5 = SetBytes(SetToLt(c4, Int32, Len(Version)).c, Version).c
  OBVIOUS
<1>22. PICK c6 : c6 = SetBytes(SetToLt(c5, Int32, Len(q.channel)).c, q.channel).c
  OBVIOUS
<1>23. BuildReserve6x(q) = CharsAt(c6.mem, 1, ReserveLen(q) + Int32)
  BY <1>16, <1>17, <1>18, <1>19, <1>20, <1>21, <1>22, Zenon DEF BuildReserve6x
<1>24. ToWrite(c6, t, <<>>, n)
  <2>1. ToWrite(c0, t, t, n)
    BY <1>1, <1>16, StartsToWrite
  <2>2. ToWrite(c1, t, r1, n)
    <3>1. c1 = SetToLt(c0, Int32, l).c
      BY <1>6, <1>17
    <3>2. ToWrite(c0, t, NumberThen(l, Int32, r1), n)
      BY <2>1, <1>13
    <3> QED
      BY <1>7, <1>15, <3>1, <3>2, NumberWrites
  <2>3. ToWrite(c2, t, r2, n)
    <3>1. c2 = SetBytes(SetToLt(c1, Int32, Len(v)).c, v).c
      BY <1>2, <1>18
    <3>2. ToWrite(c1, t, StringThen(v, r2), n)
      BY <2>2, <1>12
    <3> QED
      BY <1>15, <3>1, <3>2, StringWrites
  <2>4. ToWrite(c3, t, r3, n)
    <3>1. c3 = SetToLt(c2, Int32, id).c
      BY <1>5, <1>19
    <3>2. ToWrite(c2, t, NumberThen(id, Int32, r3), n)
      BY <2>3, <1>11
    <3> QED
      BY <1>7, <1>15, <3>1, <3>2, NumberWrites
  <2>5. ToWrite(c4, t, r4, n)
    <3>1. c4 = SetBytes(SetToLt(c3, Int32, Len(p)).c, p).c
      BY <1>3, <1>20
    <3>2. ToWrite(c3, t, StringThen(p, r4), n)
      BY <2>4, <1>10
    <3> QED
      BY <1>15, <3>1, <3>2, StringWrites
  <2>6. ToWrite(c5, t, r5, n)
    <3>1. c5 = SetBytes(SetToLt(c4, Int32, Len(v)).c, v).c
      BY <1>2, <1>21
    <3>2. ToWrite(c4, t, StringThen(v, r5), n)
      BY <2>5, <1>9
    <3> QED
      BY <1>15, <3>1, <3>2, StringWrites
  <2>7. c6 = SetBytes(SetToLt(c5, Int32, Len(ch)).c, ch).c
    BY <1>4, <1>22
  <2>8. ToWrite(c5, t, StringThen(ch, <<>>), n) /\ <<>> \in Seq(Int)
    BY <2>6, <1>8, Empty
  <2> QED
    BY <1>15, <2>7, <2>8, StringWrites
<1>25. CharsAt(c6.mem, 1, Len(t)) = t
  BY <1>15, <1>24, WrittenIsRead
<1> QED
  BY <1>6, <1>14, <1>15, <1>23, <1>25

(* What set_query_params writes: what goes on behind the id, behind the    *)
(* reserve, behind the first three words, and all of it.                   *)
PackedPeer(q) == NumberThen(q.compress, Int32, StringThen(q.peerid, <<>>))
PackedTail(q, id) == NumberThen(q.cmdId, Short, StringThen(id, PackedPeer(q)))
PackedRest(q, reserve, id) ==
    NumberThen(0, Int32, NumberThen(0, Short, reserve \o PackedTail(q, id)))
PackedText(q, reserve, id) ==
    NumberThen(q.version, Int32, NumberThen(q.seq, Int32,
      NumberThen(CmdLen(q, reserve, id), Int32, PackedRest(q, reserve, id))))

(* What is written behind the reserve.                                     *)
LEMMA TailTyped ==
    ASSUME NEW q \in Queries, NEW id \in Seq(Int)
    PROVE  /\ StringThen(q.peerid, <<>>) \in Seq(Int) /\ PackedPeer(q) \in Seq(Int)
           /\ StringThen(id, PackedPeer(q)) \in Seq(Int) /\ PackedTail(q, id) \in Seq(Int)
           /\ Len(PackedTail(q, id)) = Short + 3 * Int32 + Len(id) + Len(q.peerid)
<1>1. q.peerid \in Seq(Int) /\ q.compress \in Nat /\ q.cmdId \in Nat /\ Int32 \in Nat /\ Short \in Nat
  BY ParamsTyped
<1>2. PICK a : a = StringThen(q.peerid, <<>>)
  OBVIOUS
<1>3. a \in Seq(Int) /\ Len(a) = Int32 + Len(q.peerid) + Len(<<>>)
  BY <1>1, <1>2, StringThenTyped, Empty
<1>4. PICK b : b = NumberThen(q.compress, Int32, a)
  OBVIOUS
<1>5. b \in Seq(Int) /\ Len(b) = Int32 + Len(a)
  BY <1>1, <1>3, <1>4, NumberThenTyped
<1>6. PICK c : c = StringThen(id, b)
  OBVIOUS
<1>7. c \in Seq(Int) /\ Len(c) = Int32 + Len(id) + Len(b)
  BY <1>5, <1>6, StringThenTyped
<1>8. PICK d : d = NumberThen(q.cmdId, Short, c)
  OBVIOUS
<1>9. d \in Seq(Int) /\ Len(d) = Short + Len(c)
  BY <1>1, <1>7, <1>8, NumberThenTyped
<1>10. PackedPeer(q) = b /\ PackedTail(q, id) = d
  BY <1>2, <1>4, <1>6, <1>8 DEF PackedPeer, PackedTail
<1>11. Len(id) \in Nat /\ Len(q.peerid) \in Nat /\ Len(<<>>) = 0
  BY <1>1, Empty
<1>12. Len(d) = Short + 3 * Int32 + Len(id) + Len(q.peerid)
  <2>1. PICK k, x, y, na, nb, nc, nd :
          k = Short /\ x = Len(id) /\ y = Len(q.peerid) /\ na = Len(a) /\ nb = Len(b) /\ nc = Len(c) /\ nd = Len(d)
    OBVIOUS
  <2>2. /\ k \in Nat /\ x \in Nat /\ y \in Nat
        /\ nd = k + nc /\ nc = Int32 + x + nb /\ nb = Int32 + na /\ na = Int32 + y + 0
    BY <1>1, <1>3, <1>5, <1>7, <1>9, <1>11, <2>1, Zenon
  <2>3. nd = k + 3 * Int32 + x + y
    BY <1>1, <2>2
  <2> QED
    BY <2>1, <2>3, Zenon
<1> QED
  BY <1>2, <1>3, <1>5, <1>6, <1>7, <1>9, <1>10, <1>12

(* Each rest of the text, to its beginning.                                *)
LEMMA RestTyped ==
    ASSUME NEW q \in Queries, NEW id \in Seq(Int), NEW reserve \in Seq(Int)
    PROVE  LET a == reserve \o PackedTail(q, id)
               b == NumberThen(0, Short, a)
               c == PackedRest(q, reserve, id)
               d == NumberThen(CmdLen(q, reserve, id), Int32, c)
               e == NumberThen(q.seq, Int32, d)
           IN /\ a \in Seq(Int) /\ b \in Seq(Int) /\ c \in Seq(Int) /\ d \in Seq(Int) /\ e \in Seq(Int)
              /\ PackedText(q, reserve, id) \in Seq(Int)
              /\ CmdLen(q, reserve, id) \in Nat
              /\ Len(PackedText(q, reserve, id)) = CmdLen(q, reserve, id) + Shell
<1>1. /\ q.peerid \in Seq(Int) /\ q.version \in Nat /\ q.seq \in Nat /\ Int32 \in Nat /\ Short \in Nat
      /\ 0 \in Nat
  BY ParamsTyped
<1>2. PICK z : z = PackedTail(q, id)
  OBVIOUS
<1>3. z \in Seq(Int) /\ Len(z) = Short + 3 * Int32 + Len(id) + Len(q.peerid)
  BY <1>2, TailTyped
<1>4. PICK a : a = reserve \o z
  OBVIOUS
<1>5. a \in Seq(Int) /\ Len(a) = Len(reserve) + Len(z)
  BY <1>3, <1>4, Joins
<1>6. PICK b : b = NumberThen(0, Short, a)
  OBVIOUS
<1>7. b \in Seq(Int) /\ Len(b) = Short + Len(a)
  BY <1>1, <1>5, <1>6, NumberThenTyped
<1>8. PICK c : c = NumberThen(0, Int32, b)
  OBVIOUS
<1>9. c \in Seq(Int) /\ Len(c) = Int32 + Len(b)
  BY <1>1, <1>7, <1>8, NumberThenTyped
<1>10. Len(reserve) \in Nat /\ Len(id) \in Nat /\ Len(q.peerid) \in Nat
  BY <1>1
<1>11. PICK l : l = CmdLen(q, reserve, id)
  OBVIOUS
<1>12. l \in Nat /\ l = 4 * Int32 + 2 * Short + Len(reserve) + Len(id) + Len(q.peerid)
  <2>1. PICK k, w, x, y : k = Short /\ w = Len(reserve) /\ x = Len(id) /\ y = Len(q.peerid)
    OBVIOUS
  <2>2. k \in Nat /\ w \in Nat /\ x \in Nat /\ y \in Nat
    BY <1>1, <1>10, <2>1, Zenon
  <2>3. l = Int32 + k + w + k + (x + Int32) + Int32 + (y + Int32)
    BY <1>11, <2>1, Zenon DEF CmdLen
  <2>4. l \in Nat /\ l = 4 * Int32 + 2 * k + w + x + y
    BY <1>1, <2>2, <2>3
  <2> QED
    BY <2>1, <2>4, Zenon
<1>13. PICK d : d = NumberThen(l, Int32, c)
  OBVIOUS
<1>14. d \in Seq(Int) /\ Len(d) = Int32 + Len(c)
  BY <1>1, <1>9, <1>12, <1>13, NumberThenTyped
<1>15. PICK e : e = NumberThen(q.seq, Int32, d)
  OBVIOUS
<1>16. e \in Seq(Int) /\ Len(e) = Int32 + Len(d)
  BY <1>1, <1>14, <1>15, NumberThenTyped
<1>17. PICK t : t = NumberThen(q.version, Int32, e)
  OBVIOUS
<1>18. t \in Seq(Int) /\ Len(t) = Int32 + Len(e)
  BY <1>1, <1>16, <1>17, NumberThenTyped
<1>19. PackedRest(q, reserve, id) = c /\ PackedText(q, reserve, id) = t
  BY <1>2, <1>4, <1>6, <1>8, <1>11, <1>13, <1>15, <1>17, Zenon DEF PackedRest, PackedText
<1>20. Len(t) = l + Shell
  <2>1. PICK k, w, x, y, na, nb, nc, nd, ne, nt, nz :
          /\ k = Short /\ w = Len(reserve) /\ x = Len(id) /\ y = Len(q.peerid) /\ nz = Len(z) /\ na = Len(a)
          /\ nb = Len(b) /\ nc = Len(c) /\ nd = Len(d) /\ ne = Len(e) /\ nt = Len(t)
    OBVIOUS
  <2>2. /\ k \in Nat /\ w \in Nat /\ x \in Nat /\ y \in Nat
        /\ nz = k + 3 * Int32 + x + y /\ na = w + nz /\ nb = k + na /\ nc = Int32 + nb
        /\ nd = Int32 + nc /\ ne = Int32 + nd /\ nt = Int32 + ne
        /\ l = 4 * Int32 + 2 * k + w + x + y
    BY <1>1, <1>3, <1>5, <1>7, <1>9, <1>10, <1>12, <1>14, <1>16, <1>18, <2>1, Zenon
  <2>3. nt = l + Int32 * 3
    BY <1>1, <2>2
  <2> QED
    BY <2>1, <2>3, Zenon DEF Shell
<1> QED
  BY <1>2, <1>4, <1>5, <1>6, <1>7, <1>9, <1>11, <1>12, <1>13, <1>14, <1>15, <1>16, <1>18, <1>19, <1>20

(* set_query_params writes the whole text: the buffer it allocates has as  *)
(* much room as it takes.                                                  *)
LEMMA PackedIs ==
    ASSUME NEW q \in Queries, NEW id \in Seq(Int)
    PROVE  SetQueryParams(q, id) = PackedText(q, BuildReserve6x(q), id)
<1>1. PICK reserve : reserve = BuildReserve6x(q)
  OBVIOUS
<1>2. reserve \in Seq(Int) /\ Len(reserve) > 0
  <2>1. reserve \in Seq(Int) /\ Len(reserve) = ReserveLen(q) + Int32 /\ ReserveLen(q) \in Nat /\ Int32 \in Nat \ {0}
    BY <1>1, ReserveTyped, ParamsTyped
  <2> QED
    BY <2>1
<1>3. /\ Int32 \in Nat \ {0} /\ Short \in Nat \ {0} /\ q.version \in Nat /\ q.seq \in Nat
      /\ q.cmdId \in Nat /\ q.compress \in Nat /\ q.peerid \in Seq(Int) /\ 0 \in Nat
  BY ParamsTyped
<1>4. PICK l : l = CmdLen(q, reserve, id)
  OBVIOUS
<1>5. PICK n : n = l + Shell
  OBVIOUS
<1>6. PICK r10 : r10 = StringThen(q.peerid, <<>>)
  OBVIOUS
<1>7. PICK r9 : r9 = PackedPeer(q)
  OBVIOUS
<1>8. PICK r8 : r8 = StringThen(id, r9)
  OBVIOUS
<1>9. PICK r7 : r7 = PackedTail(q, id)
  OBVIOUS
<1>10. PICK r6 : r6 = reserve \o r7
  OBVIOUS
<1>11. PICK r5 : r5 = NumberThen(0, Short, r6)
  OBVIOUS
<1>12. PICK r4 : r4 = PackedRest(q, reserve, id)
  OBVIOUS
<1>13. PICK r3 : r3 = NumberThen(l, Int32, r4)
  OBVIOUS
<1>14. PICK r2 : r2 = NumberThen(q.seq, Int32, r3)
  OBVIOUS
<1>15. PICK t : t = PackedText(q, reserve, id)
  OBVIOUS
<1>16. r10 \in Seq(Int) /\ r9 \in Seq(Int) /\ r8 \in Seq(Int) /\ r7 \in Seq(Int)
  BY <1>6, <1>7, <1>8, <1>9, TailTyped
<1>17. /\ r6 \in Seq(Int) /\ r5 \in Seq(Int) /\ r4 \in Seq(Int) /\ r3 \in Seq(Int) /\ r2 \in Seq(Int)
       /\ t \in Seq(Int) /\ l \in Nat /\ Len(t) = n
  BY <1>2, <1>4, <1>5, <1>9, <1>10, <1>11, <1>12, <1>13, <1>14, <1>15, RestTyped
<1>18. n \in Nat /\ Len(t) <= n
  BY <1>17
<1>19. /\ r9 = NumberThen(q.compress, Int32, r10) /\ r7 = NumberThen(q.cmdId, Short, r8)
       /\ r4 = NumberThen(0, Int32, r5) /\ t = NumberThen(q.version, Int32, r2)
  <2>1. r9 = NumberThen(q.compress, Int32, r10) /\ r7 = NumberThen(q.cmdId, Short, r8)
    BY <1>6, <1>7, <1>8, <1>9, Zenon DEF PackedPeer, PackedTail
  <2>2. r4 = NumberThen(0, Int32, r5)
    BY <1>9, <1>10, <1>11, <1>12, Zenon DEF PackedRest
  <2>3. t = NumberThen(q.version, Int32, r2)
    BY <1>4, <1>12, <1>13, <1>14, <1>15, Zenon DEF PackedText
  <2> QED
    BY <2>1, <2>2, <2>3
<1>20. PICK c0 : c0 = Cursor(Zeros(n), n)
  OBVIOUS
<1>21. PICK c1 : c1 = PushValue(c0, Int32, q.version).c
  OBVIOUS
<1>22. PICK c2 : c2 = PushValue(c1, Int32, q.seq).c
  OBVIOUS
<1>23. PICK c3 : c3 = PushValue(c2, Int32, l).c
  OBVIOUS
<1>24. PICK c4 : c4 = PushValue(c3, Int32, 0).c
  OBVIOUS
<1>25. PICK c5 : c5 = PushValue(c4, Short, 0).c
  OBVIOUS
<1>26. PICK c6 : c6 = PushBytes(c5, reserve).c
  OBVIOUS
<1>27. PICK c7 : c7 = PushValue(c6, Short, q.cmdId).c
  OBVIOUS
<1>28. PICK c8 : c8 = PushCStr(c7, id).c
  OBVIOUS
<1>29. PICK c9 : c9 = PushValue(c8, Int32, q.compress).c
  OBVIOUS
<1>30. PICK c10 : c10 = PushCStr(c9, q.peerid).c
  OBVIOUS
<1>31. SetQueryParams(q, id) = IF ErrorOccur(c10) THEN <<>> ELSE c10.mem
  BY <1>1, <1>4, <1>5, <1>20, <1>21, <1>22, <1>23, <1>24, <1>25, <1>26, <1>27, <1>28, <1>29, <1>30,
     Zenon DEF SetQueryParams
<1>32. ToWrite(c10, t, <<>>, n)
  <2>1. ToWrite(c0, t, t, n)
    BY <1>17, <1>18, <1>20, StartsToWrite
  <2>2. ToWrite(c1, t, r2, n)
    BY <1>3, <1>17, <1>18, <1>19, <1>21, <2>1, NumberWrites
  <2>3. ToWrite(c2, t, r3, n)
    BY <1>3, <1>14, <1>17, <1>18, <1>22, <2>2, NumberWrites
  <2>4. ToWrite(c3, t, r4, n)
    BY <1>3, <1>13, <1>17, <1>18, <1>23, <2>3, NumberWrites
  <2>5. ToWrite(c4, t, r5, n)
    BY <1>3, <1>17, <1>18, <1>19, <1>24, <2>4, NumberWrites
  <2>6. ToWrite(c5, t, r6, n)
    BY <1>3, <1>11, <1>17, <1>18, <1>25, <2>5, NumberWrites
  <2>7. ToWrite(c6, t, r7, n)
    BY <1>2, <1>10, <1>16, <1>17, <1>18, <1>26, <2>6, PushBytesWrites
  <2>8. ToWrite(c7, t, r8, n)
    BY <1>3, <1>16, <1>17, <1>18, <1>19, <1>27, <2>7, NumberWrites
  <2>9. ToWrite(c8, t, r9, n)
    BY <1>8, <1>16, <1>17, <1>18, <1>28, <2>8, StringWrites
  <2>10. ToWrite(c9, t, r10, n)
    BY <1>3, <1>16, <1>17, <1>18, <1>19, <1>29, <2>9, NumberWrites
  <2> QED
    BY <1>3, <1>6, <1>17, <1>18, <1>30, <2>10, StringWrites, Empty
<1>33. c10.left = n - Len(t) /\ c10.mem = t
  BY <1>17, <1>18, <1>32, WrittenIsRead
<1>34. ~(c10.left < 0)
  BY <1>17, <1>18, <1>33
<1> QED
  BY <1>1, <1>15, <1>31, <1>33, <1>34 DEF ErrorOccur

(* The text is one of chars.                                               *)
LEMMA PackedTyped ==
    ASSUME NEW q \in Queries, NEW id \in Seq(CharSet)
    PROVE  PackedText(q, ReserveText(q), id) \in Seq(CharSet)
<1>1. PICK reserve \in Seq(CharSet) : reserve = ReserveText(q)
  BY ReserveTextTyped
<1>2. PICK peer \in Seq(CharSet) : peer = q.peerid
  BY ParamsTyped
<1>3. /\ Int32 \in Nat /\ Short \in Nat /\ q.version \in Nat /\ q.seq \in Nat /\ q.cmdId \in Nat
      /\ q.compress \in Nat /\ 0 \in Nat
  BY ParamsTyped
<1>4. CmdLen(q, reserve, id) \in Nat
  <2>1. reserve \in Seq(Int) /\ id \in Seq(Int)
    BY CharSeqs
  <2> QED
    BY <2>1, RestTyped
<1>5. PICK r10 \in Seq(CharSet) : r10 = StringThen(peer, <<>>)
  BY StringThenTyped, CharSeqs
<1>6. PICK r9 \in Seq(CharSet) : r9 = NumberThen(q.compress, Int32, r10)
  BY <1>3, NumberThenTyped
<1>7. PICK r8 \in Seq(CharSet) : r8 = StringThen(id, r9)
  BY StringThenTyped
<1>8. PICK r7 \in Seq(CharSet) : r7 = NumberThen(q.cmdId, Short, r8)
  BY <1>3, NumberThenTyped
<1>9. PICK r6 \in Seq(CharSet) : r6 = reserve \o r7
  BY StringThenTyped
<1>10. PICK r5 \in Seq(CharSet) : r5 = NumberThen(0, Short, r6)
  BY <1>3, NumberThenTyped
<1>11. PICK r4 \in Seq(CharSet) : r4 = NumberThen(0, Int32, r5)
  BY <1>3, NumberThenTyped
<1>12. PICK r3 \in Seq(CharSet) : r3 = NumberThen(CmdLen(q, reserve, id), Int32, r4)
  BY <1>3, <1>4, NumberThenTyped
<1>13. PICK r2 \in Seq(CharSet) : r2 = NumberThen(q.seq, Int32, r3)
  BY <1>3, NumberThenTyped
<1>14. PICK t \in Seq(CharSet) : t = NumberThen(q.version, Int32, r2)
  BY <1>3, NumberThenTyped
<1>15. t = PackedText(q, reserve, id)
  BY <1>2, <1>5, <1>6, <1>7, <1>8, <1>9, <1>10, <1>11, <1>12, <1>13, <1>14, Zenon
     DEF PackedText, PackedRest, PackedTail, PackedPeer
<1> QED
  BY <1>1, <1>14, <1>15

-----------------------------------------------------------------------------
(* The header with the key, sealed by RSA, and the packet.                 *)

RsaInverts ==
    \A key \in Keys : RsaEncrypt(key) \in Seq(CharSet) /\ RsaDecrypt(RsaEncrypt(key)) = key

(* The length of a sealed packet.                                          *)
LEMMA SealedTyped ==
    ASSUME CipherInverts, NEW s \in Seq(Int), NEW n \in Nat, Len(s) = Shell + n,
           SubSeq(s, 1, Words(2)) \in Seq(CharSet)
    PROVE  /\ XlAesEncrypt(s).out \in Seq(CharSet)
           /\ Len(XlAesEncrypt(s).out) = Shell + Rounded(n) /\ Rounded(n) \in Nat
<1>1. /\ Int32 \in Nat \ {0} /\ Words(2) = 2 * Int32 /\ Words(3) = 3 * Int32 /\ Shell = 3 * Int32
      /\ Words(2) \in 0..Len(s) /\ Words(3) \in 0..Len(s) /\ Len(s) - Words(3) = n
  BY SizesAssumption DEF Words, Shell
<1>2. PICK a \in Seq(CharSet) : a = SubSeq(s, 1, Words(2))
  OBVIOUS
<1>3. Len(a) = 2 * Int32
  BY <1>1, <1>2, Cut
<1>4. PICK rest : rest = Rest(s)
  OBVIOUS
<1>5. rest \in Seq(Int) /\ Len(rest) = n
  BY <1>1, <1>4, Cut DEF Rest
<1>6. PICK key \in Keys : key = PacketKey(s)
  BY <1>2 DEF PacketKey, Keys
<1>7. PICK e : e = Encrypted(rest, key)
  OBVIOUS
<1>8. e \in Seq(CharSet) /\ Len(e) = n + PadLen(n) /\ Len(e) \in Nat
  BY <1>5, <1>7, EncryptedTyped
<1>9. Len(e) = Rounded(n)
  BY <1>8, PadIs DEF Rounded
<1>10. PICK w : w = Chars(Len(e), Int32)
  OBVIOUS
<1>11. w \in Seq(CharSet) /\ Len(w) = Int32
  BY <1>1, <1>8, <1>10, CharsTyped
<1>12. PICK h : h = a \o w
  OBVIOUS
<1>13. h \in Seq(CharSet) /\ Len(h) = 3 * Int32
  <2>1. a \o w \in Seq(CharSet) /\ Len(a \o w) = Len(a) + Len(w)
    BY <1>11, Parts
  <2> QED
    BY <1>1, <1>3, <1>11, <1>12, <2>1
<1>14. h \o e \in Seq(CharSet) /\ Len(h \o e) = Len(h) + Len(e)
  BY <1>8, <1>13, Parts
<1>15. XlAesEncrypt(s).out = h \o e
  BY <1>2, <1>4, <1>6, <1>7, <1>10, <1>12 DEF XlAesEncrypt, Result
<1> QED
  BY <1>1, <1>8, <1>9, <1>13, <1>14, <1>15

-----------------------------------------------------------------------------
(* The header. *)

HeaderText(key, len) ==
    NumberThen(Magic, Int32, NumberThen(KeyVersion, Int32, NumberThen(CipherLen, Int32,
      RsaEncrypt(key) \o NumberThen(len, Int32, <<>>))))

(* The sizes of the header.                                                *)
LEMMA SizesTyped ==
    /\ Int32 \in Nat \ {0} /\ CipherLen \in Nat \ {0} /\ Magic \in Nat /\ KeyVersion \in Nat
    /\ RsaHeader \in Nat /\ RsaHeader = 4 * Int32 + CipherLen
<1>1. CipherLen \in Nat \ {0} /\ Magic \in Unsigned(Int32) /\ KeyVersion \in Unsigned(Int32)
  BY ClientAssumption, Zenon
<1>2. Magic \in Nat /\ KeyVersion \in Nat
  BY <1>1, CharSeqs
<1>3. Int32 \in Nat \ {0}
  BY SizesAssumption
<1> QED
  BY <1>1, <1>2, <1>3 DEF RsaHeader

(* A part of what stands behind s.                                         *)
LEMMA Behind ==
    ASSUME NEW S, NEW s \in Seq(S), NEW t \in Seq(S), NEW i \in 1..Len(t), NEW j \in 1..Len(t)
    PROVE  SubSeq(s \o t, Len(s) + i, Len(s) + j) = SubSeq(t, i, j)
<1> DEFINE a == Len(s) + i
           b == Len(s) + j
<1>1. Len(s) \in Nat /\ Len(t) \in Nat
  OBVIOUS
<1>2. /\ a \in Len(s) + 1..Len(s) + Len(t) /\ b \in Len(s) + 1..Len(s) + Len(t)
      /\ a - Len(s) = i /\ b - Len(s) = j
  BY <1>1
<1> HIDE DEF a, b
<1>3. SubSeq(s \o t, a, b) = SubSeq(t, a - Len(s), b - Len(s))
  BY <1>2, SubSeqOfConcat2
<1> QED
  BY <1>2, <1>3 DEF a, b

(* A part of what stands behind a number.                                  *)
LEMMA BehindNumber ==
    ASSUME NEW v \in Nat, NEW n \in Nat, NEW r \in Seq(CharSet), NEW i \in 1..Len(r), NEW j \in 1..Len(r)
    PROVE  SubSeq(NumberThen(v, n, r), n + i, n + j) = SubSeq(r, i, j)
<1>1. PICK w : w = Chars(v, n)
  OBVIOUS
<1>2. w \in Seq(CharSet) /\ Len(w) = n
  BY <1>1, CharsTyped
<1>3. SubSeq(w \o r, Len(w) + i, Len(w) + j) = SubSeq(r, i, j)
  BY <1>2, Behind
<1> QED
  BY <1>1, <1>2, <1>3 DEF NumberThen

(* A number before chars.                                                  *)
LEMMA NumberOfChars ==
    ASSUME NEW v \in Nat, NEW n \in Nat, NEW r \in Seq(CharSet)
    PROVE  NumberThen(v, n, r) \in Seq(CharSet) /\ Len(NumberThen(v, n, r)) = n + Len(r)
<1>1. r \in Seq(Int)
  BY CharSeqs
<1> QED
  BY <1>1, NumberThenTyped

(* Where the header holds the sealed key and the length.                   *)
LEMMA HeaderTyped ==
    ASSUME RsaInverts, NEW key \in Keys, NEW len \in Nat, Len(RsaEncrypt(key)) = CipherLen
    PROVE  LET d == NumberThen(len, Int32, <<>>)
               c == RsaEncrypt(key) \o d
               b == NumberThen(CipherLen, Int32, c)
               a == NumberThen(KeyVersion, Int32, b)
           IN /\ d \in Seq(CharSet) /\ c \in Seq(CharSet) /\ b \in Seq(CharSet) /\ a \in Seq(CharSet)
              /\ HeaderText(key, len) \in Seq(CharSet) /\ Len(HeaderText(key, len)) = RsaHeader
              /\ SubSeq(HeaderText(key, len), 3 * Int32 + 1, 3 * Int32 + CipherLen) = RsaEncrypt(key)
              /\ SubSeq(HeaderText(key, len), 3 * Int32 + CipherLen + 1, RsaHeader) = Chars(len, Int32)
<1>1. /\ Int32 \in Nat \ {0} /\ CipherLen \in Nat \ {0} /\ Magic \in Nat /\ KeyVersion \in Nat
      /\ RsaHeader \in Nat /\ RsaHeader = 4 * Int32 + CipherLen /\ <<>> \in Seq(CharSet)
      /\ CipherLen \in Nat /\ Int32 \in Nat
  BY SizesTyped, CharSeqs
<1>2. PICK r : r = RsaEncrypt(key)
  OBVIOUS
<1>3. r \in Seq(CharSet) /\ Len(r) = CipherLen
  BY <1>2 DEF RsaInverts
<1>4. PICK d : d = NumberThen(len, Int32, <<>>)
  OBVIOUS
<1>5. d \in Seq(CharSet) /\ Len(d) = Int32 /\ d = Chars(len, Int32)
  <2>1. PICK w : w = Chars(len, Int32)
    OBVIOUS
  <2>2. w \in Seq(CharSet) /\ w \in Seq(Int) /\ Len(w) = Int32
    BY <1>1, <2>1, CharsTyped
  <2>3. w \o <<>> = w
    BY <2>2, Empty
  <2> QED
    BY <1>4, <2>1, <2>2, <2>3 DEF NumberThen
<1>6. PICK c : c = r \o d
  OBVIOUS
<1>7. /\ c \in Seq(CharSet) /\ Len(c) = CipherLen + Int32
      /\ SubSeq(c, 1, CipherLen) = r /\ SubSeq(c, CipherLen + 1, CipherLen + Int32) = d
  <2>1. /\ r \o d \in Seq(CharSet) /\ Len(r \o d) = Len(r) + Len(d)
        /\ SubSeq(r \o d, 1, Len(r)) = r /\ SubSeq(r \o d, Len(r) + 1, Len(r \o d)) = d
    BY <1>3, <1>5, Parts
  <2> QED
    BY <1>3, <1>5, <1>6, <2>1
<1>8. PICK b : b = NumberThen(CipherLen, Int32, c)
  OBVIOUS
<1>9. b \in Seq(CharSet) /\ Len(b) = CipherLen + 2 * Int32
  <2>1. NumberThen(CipherLen, Int32, c) \in Seq(CharSet) /\ Len(NumberThen(CipherLen, Int32, c)) = Int32 + Len(c)
    <3>1. CipherLen \in Nat /\ Int32 \in Nat /\ c \in Seq(CharSet)
      BY <1>1, <1>7
    <3> QED
      BY <3>1, NumberOfChars, Zenon
  <2> QED
    BY <1>1, <1>7, <1>8, <2>1
<1>10. PICK a : a = NumberThen(KeyVersion, Int32, b)
  OBVIOUS
<1>11. a \in Seq(CharSet) /\ Len(a) = CipherLen + 3 * Int32
  <2>1. NumberThen(KeyVersion, Int32, b) \in Seq(CharSet) /\ Len(NumberThen(KeyVersion, Int32, b)) = Int32 + Len(b)
    <3>1. KeyVersion \in Nat /\ Int32 \in Nat /\ b \in Seq(CharSet)
      BY <1>1, <1>9
    <3> QED
      BY <3>1, NumberOfChars, Zenon
  <2> QED
    BY <1>1, <1>9, <1>10, <2>1
<1>12. PICK t : t = NumberThen(Magic, Int32, a)
  OBVIOUS
<1>13. t \in Seq(CharSet) /\ Len(t) = RsaHeader
  <2>1. NumberThen(Magic, Int32, a) \in Seq(CharSet) /\ Len(NumberThen(Magic, Int32, a)) = Int32 + Len(a)
    <3>1. Magic \in Nat /\ Int32 \in Nat /\ a \in Seq(CharSet)
      BY <1>1, <1>11
    <3> QED
      BY <3>1, NumberOfChars, Zenon
  <2> QED
    BY <1>1, <1>11, <1>12, <2>1
<1>14. HeaderText(key, len) = t
  BY <1>2, <1>4, <1>6, <1>8, <1>10, <1>12, Zenon DEF HeaderText
<1>15. ASSUME NEW i \in 1..Len(c), NEW j \in 1..Len(c)
       PROVE  SubSeq(t, 3 * Int32 + i, 3 * Int32 + j) = SubSeq(c, i, j)
  <2>1. /\ Int32 + i \in 1..Len(b) /\ Int32 + j \in 1..Len(b)
        /\ 2 * Int32 + i \in 1..Len(a) /\ 2 * Int32 + j \in 1..Len(a)
        /\ Int32 + (Int32 + i) = 2 * Int32 + i /\ Int32 + (Int32 + j) = 2 * Int32 + j
        /\ Int32 + (2 * Int32 + i) = 3 * Int32 + i /\ Int32 + (2 * Int32 + j) = 3 * Int32 + j
    BY <1>1, <1>7, <1>9, <1>11
  <2>2. SubSeq(b, Int32 + i, Int32 + j) = SubSeq(c, i, j)
    <3>1. SubSeq(NumberThen(CipherLen, Int32, c), Int32 + i, Int32 + j) = SubSeq(c, i, j)
      <4>1. CipherLen \in Nat /\ Int32 \in Nat /\ c \in Seq(CharSet)
        BY <1>1, <1>7
      <4> QED
        BY <4>1, BehindNumber, Zenon
    <3> QED
      BY <1>8, <3>1
  <2>3. SubSeq(a, 2 * Int32 + i, 2 * Int32 + j) = SubSeq(b, Int32 + i, Int32 + j)
    <3>1. SubSeq(NumberThen(KeyVersion, Int32, b), Int32 + (Int32 + i), Int32 + (Int32 + j))
            = SubSeq(b, Int32 + i, Int32 + j)
      <4>1. KeyVersion \in Nat /\ Int32 \in Nat /\ b \in Seq(CharSet)
        BY <1>1, <1>9
      <4> QED
        BY <2>1, <4>1, BehindNumber, Zenon
    <3> QED
      BY <1>10, <2>1, <3>1
  <2>4. SubSeq(t, 3 * Int32 + i, 3 * Int32 + j) = SubSeq(a, 2 * Int32 + i, 2 * Int32 + j)
    <3>1. SubSeq(NumberThen(Magic, Int32, a), Int32 + (2 * Int32 + i), Int32 + (2 * Int32 + j))
            = SubSeq(a, 2 * Int32 + i, 2 * Int32 + j)
      <4>1. Magic \in Nat /\ Int32 \in Nat /\ a \in Seq(CharSet)
        BY <1>1, <1>11
      <4> QED
        BY <2>1, <4>1, BehindNumber, Zenon
    <3> QED
      BY <1>12, <2>1, <3>1
  <2> QED
    BY <2>2, <2>3, <2>4
<1>16. SubSeq(t, 3 * Int32 + 1, 3 * Int32 + CipherLen) = r
  <2>1. 1 \in 1..Len(c) /\ CipherLen \in 1..Len(c)
    BY <1>1, <1>7
  <2> QED
    BY <1>7, <1>15, <2>1
<1>17. SubSeq(t, 3 * Int32 + CipherLen + 1, RsaHeader) = d
  <2>1. /\ CipherLen + 1 \in 1..Len(c) /\ CipherLen + Int32 \in 1..Len(c)
        /\ 3 * Int32 + (CipherLen + 1) = 3 * Int32 + CipherLen + 1
        /\ 3 * Int32 + (CipherLen + Int32) = RsaHeader
    BY <1>1, <1>7
  <2>2. SubSeq(t, 3 * Int32 + (CipherLen + 1), 3 * Int32 + (CipherLen + Int32)) = d
    BY <1>7, <1>15, <2>1
  <2> QED
    BY <2>1, <2>2
<1> QED
  BY <1>2, <1>4, <1>5, <1>6, <1>7, <1>8, <1>9, <1>10, <1>11, <1>13, <1>14, <1>16, <1>17

(* build_rsa_encrypt_header writes the header, if the sealed key has the   *)
(* length that it tells.                                                   *)
LEMMA HeaderIs ==
    ASSUME RsaInverts, NEW key \in Keys, NEW len \in Nat, BuildRsaEncryptHeader(key, len).ret = "SUCCESS"
    PROVE  /\ Len(RsaEncrypt(key)) = CipherLen
           /\ BuildRsaEncryptHeader(key, len).text = HeaderText(key, len)
<1>1. PICK n : n = RsaHeader
  OBVIOUS
<1>2. PICK sealed : sealed = ResQueryRsaPubEncrypt(key, KeyVersion)
  OBVIOUS
<1>3. PICK c0 : c0 = Cursor(Zeros(n), n)
  OBVIOUS
<1>4. PICK c1 : c1 = SetToLt(c0, Int32, Magic).c
  OBVIOUS
<1>5. PICK c2 : c2 = SetToLt(c1, Int32, KeyVersion).c
  OBVIOUS
<1>6. PICK c3 : c3 = SetToLt(c2, Int32, CipherLen).c
  OBVIOUS
<1>7. PICK c4 : c4 = SetBytes(c3, sealed.encrypted).c
  OBVIOUS
<1>8. PICK c5 : c5 = SetToLt(c4, Int32, len).c
  OBVIOUS
<1>9. BuildRsaEncryptHeader(key, len) =
        IF sealed.ret # "SUCCESS" \/ Len(sealed.encrypted) # CipherLen THEN [ret |-> "-1"]
        ELSE [ret |-> "SUCCESS", text |-> c5.mem]
  BY <1>1, <1>2, <1>3, <1>4, <1>5, <1>6, <1>7, <1>8, Zenon DEF BuildRsaEncryptHeader
<1>10. sealed.ret = "SUCCESS" /\ Len(sealed.encrypted) = CipherLen
  BY <1>9
<1>11. sealed.encrypted = RsaEncrypt(key)
  BY <1>2, <1>10 DEF ResQueryRsaPubEncrypt
<1>12. Len(RsaEncrypt(key)) = CipherLen /\ BuildRsaEncryptHeader(key, len).text = c5.mem
  BY <1>9, <1>10, <1>11
<1>13. PICK r : r = RsaEncrypt(key)
  OBVIOUS
<1>14. PICK d : d = NumberThen(len, Int32, <<>>)
  OBVIOUS
<1>15. PICK c : c = r \o d
  OBVIOUS
<1>16. PICK b : b = NumberThen(CipherLen, Int32, c)
  OBVIOUS
<1>17. PICK a : a = NumberThen(KeyVersion, Int32, b)
  OBVIOUS
<1>18. PICK t : t = HeaderText(key, len)
  OBVIOUS
<1>19. t = NumberThen(Magic, Int32, a)
  BY <1>13, <1>14, <1>15, <1>16, <1>17, <1>18, Zenon DEF HeaderText
<1>20. /\ d \in Seq(CharSet) /\ c \in Seq(CharSet) /\ b \in Seq(CharSet) /\ a \in Seq(CharSet)
       /\ t \in Seq(CharSet) /\ Len(t) = n
  BY <1>1, <1>12, <1>13, <1>14, <1>15, <1>16, <1>17, <1>18, HeaderTyped
<1>21. /\ d \in Seq(Int) /\ c \in Seq(Int) /\ b \in Seq(Int) /\ a \in Seq(Int) /\ t \in Seq(Int)
       /\ r \in Seq(Int) /\ <<>> \in Seq(Int)
  BY <1>13, <1>20, CharSeqs, Empty DEF RsaInverts
<1>22. /\ n \in Nat /\ Len(t) <= n /\ Int32 \in Nat \ {0} /\ Magic \in Nat /\ KeyVersion \in Nat
       /\ CipherLen \in Nat
  BY <1>1, <1>20, SizesTyped
<1>23. ToWrite(c5, t, <<>>, n)
  <2>1. ToWrite(c0, t, t, n)
    BY <1>3, <1>21, <1>22, StartsToWrite
  <2>2. ToWrite(c1, t, a, n)
    BY <1>4, <1>19, <1>21, <1>22, <2>1, NumberWrites
  <2>3. ToWrite(c2, t, b, n)
    BY <1>5, <1>17, <1>21, <1>22, <2>2, NumberWrites
  <2>4. ToWrite(c3, t, c, n)
    BY <1>6, <1>16, <1>21, <1>22, <2>3, NumberWrites
  <2>5. ToWrite(c4, t, d, n)
    <3>1. c4 = SetBytes(c3, r).c
      BY <1>7, <1>11, <1>13
    <3> QED
      BY <1>15, <1>21, <1>22, <2>4, <3>1, SetBytesWrites
  <2> QED
    BY <1>8, <1>14, <1>21, <1>22, <2>5, NumberWrites
<1>24. c5.mem = t
  BY <1>20, <1>21, <1>22, <1>23, WrittenIsRead
<1> QED
  BY <1>12, <1>18, <1>24

(* What is appended is found behind the header.                            *)
LEMMA Appended ==
    ASSUME NEW h, h \in Seq(CharSet), NEW e, e \in Seq(CharSet)
    PROVE  /\ h \o e \in Seq(CharSet) /\ Len(h \o e) = Len(h) + Len(e)
           /\ SubSeq(h \o e, Len(h) + 1, Len(h) + Len(e)) = e
<1>1. /\ h \o e \in Seq(CharSet) /\ SubSeq(h \o e, Len(h) + 1, Len(h \o e)) = e
      /\ Len(h \o e) = Len(h) + Len(e)
  BY Parts
<1> QED
  BY <1>1, Zenon

(* The packet is the header with the body behind it.                       *)
LEMMA PacketIs ==
    ASSUME NEW h \in Seq(Int), NEW e \in Seq(Int), Len(h) = RsaHeader
    PROVE  PacketOf(h, e, RsaHeader + Len(e)) = h \o e
<1>1. PICK k, n : k = RsaHeader /\ n = k + Len(e)
  OBVIOUS
<1>2. k \in Nat /\ Len(e) \in Nat /\ n \in Nat /\ Len(h) = k
  BY <1>1, SizesTyped
<1>3. Overwritten(Zeros(n), 1, h) = h \o Zeros(n - k)
  <2>1. <<>> \in Seq(Int) /\ Len(<<>>) = 0 /\ Len(<<>>) + Len(h) <= n
    BY <1>1, <1>2, Empty
  <2>2. Overwritten(<<>> \o Zeros(n - Len(<<>>)), Len(<<>>) + 1, h)
          = (<<>> \o h) \o Zeros(n - Len(<<>> \o h))
    BY <1>2, <2>1, OverwrittenNext
  <2>3. <<>> \o h = h /\ <<>> \o Zeros(n) = Zeros(n)
    BY <1>2, Empty, ZerosTyped
  <2>4. n - Len(<<>>) = n /\ Len(<<>>) + 1 = 1
    BY <1>2, <2>1
  <2> QED
    BY <1>2, <2>2, <2>3, <2>4
<1>4. Overwritten(h \o Zeros(n - k), k + 1, e) = (h \o e) \o Zeros(n - Len(h \o e))
  <2>1. Len(h) + Len(e) <= n
    BY <1>1, <1>2
  <2>2. Overwritten(h \o Zeros(n - Len(h)), Len(h) + 1, e) = (h \o e) \o Zeros(n - Len(h \o e))
    BY <1>2, <2>1, OverwrittenNext
  <2> QED
    BY <1>2, <2>2
<1>5. h \o e \in Seq(Int) /\ n - Len(h \o e) = 0
  <2>1. h \o e \in Seq(Int) /\ Len(h \o e) = Len(h) + Len(e)
    BY Joins
  <2> QED
    BY <1>1, <1>2, <2>1
<1>6. (h \o e) \o Zeros(n - Len(h \o e)) = h \o e
  <2>1. Zeros(0) = <<>>
    BY ZerosTyped, Empty
  <2>2. (h \o e) \o <<>> = h \o e
    BY <1>5, Empty
  <2> QED
    BY <1>5, <2>1, <2>2
<1> QED
  BY <1>1, <1>3, <1>4, <1>6 DEF PacketOf

(* The server finds the key in the packet, and the body.                   *)
LEMMA PacketHas ==
    ASSUME RsaInverts, NEW key \in Keys, Len(RsaEncrypt(key)) = CipherLen, NEW e \in Seq(CharSet)
    PROVE  /\ HeaderText(key, Len(e)) \o e \in Seq(CharSet)
           /\ HeaderText(key, Len(e)) \in Seq(CharSet) /\ Len(HeaderText(key, Len(e))) = RsaHeader
           /\ KeyIn(HeaderText(key, Len(e)) \o e) = key
           /\ Len(e) < Power(Int32) => PacketBody(HeaderText(key, Len(e)) \o e) = e
<1>1. PICK h, k, len : h = HeaderText(key, Len(e)) /\ k = RsaHeader /\ len = Len(e)
  OBVIOUS
<1>2. /\ k \in Nat /\ k = 4 * Int32 + CipherLen /\ Int32 \in Nat \ {0} /\ CipherLen \in Nat \ {0}
      /\ len \in Nat
  BY <1>1, SizesTyped
<1>3. /\ h \in Seq(CharSet) /\ Len(h) = k
      /\ SubSeq(h, 3 * Int32 + 1, 3 * Int32 + CipherLen) = RsaEncrypt(key)
      /\ SubSeq(h, 3 * Int32 + CipherLen + 1, k) = Chars(len, Int32)
  BY <1>1, <1>2, HeaderTyped
<1>4. /\ h \o e \in Seq(CharSet) /\ SubSeq(h \o e, Len(h) + 1, Len(h) + Len(e)) = e
      /\ Len(h \o e) = Len(h) + Len(e)
  <2>1. h \in Seq(CharSet) /\ e \in Seq(CharSet)
    BY <1>3
  <2> QED
    BY <2>1, Appended, Zenon
<1>5. SubSeq(h \o e, 3 * Int32 + 1, 3 * Int32 + CipherLen)
        = SubSeq(h, 3 * Int32 + 1, 3 * Int32 + CipherLen)
  <2>1. PICK i, j : i = 3 * Int32 + 1 /\ j = 3 * Int32 + CipherLen
    OBVIOUS
  <2>2. i \in 1..Len(h) /\ j \in 1..Len(h)
    BY <1>2, <1>3, <2>1
  <2>3. SubSeq(h \o e, i, j) = SubSeq(h, i, j)
    BY <1>3, <2>2, SubSeqOfConcat1
  <2> QED
    BY <2>1, <2>3
<1>6. SubSeq(h \o e, k - Int32 + 1, k) = Chars(len, Int32)
  <2>1. PICK i : i = 3 * Int32 + CipherLen + 1
    OBVIOUS
  <2>2. i \in 1..Len(h) /\ k \in 1..Len(h) /\ i = k - Int32 + 1
    BY <1>2, <1>3, <2>1
  <2>3. SubSeq(h \o e, i, k) = SubSeq(h, i, k)
    BY <1>3, <2>2, SubSeqOfConcat1
  <2> QED
    BY <1>3, <2>1, <2>2, <2>3
<1>7. KeyIn(h \o e) = key
  BY <1>3, <1>5 DEF KeyIn, RsaInverts
<1>8. ASSUME len < Power(Int32) PROVE PacketBody(h \o e) = e
  <2>1. Int32 \in Nat /\ len \in 0..Power(Int32) - 1
    BY <1>2, <1>8, Powers
  <2>2. NumberOf(Chars(len, Int32)) = len
    BY <2>1, NumberReadBack
  <2>3. PacketBody(h \o e) = SubSeq(h \o e, k + 1, k + len)
    BY <1>1, <1>6, <2>2 DEF PacketBody
  <2> QED
    BY <1>1, <1>3, <1>4, <2>3
<1> QED
  BY <1>1, <1>3, <1>4, <1>7, <1>8

(* What encode_query_params sends when it succeeds: the key and the sealed *)
(* text, and nothing written past the buffer.                              *)
LEMMA PackedSeals ==
    ASSUME CipherInverts, RsaInverts, NEW p \in Seq(Int), NEW n \in Nat, Len(p) = Shell + n,
           SubSeq(p, 1, Words(2)) \in Seq(CharSet), NEW key \in Keys,
           EncodePacked(p, key).ret = "EC_SUCC"
    PROVE  /\ EncodePacked(p, key).key = key /\ EncodePacked(p, key).over = 0
           /\ EncodePacked(p, key).packet \in Seq(CharSet)
           /\ KeyIn(EncodePacked(p, key).packet) = key
           /\ Shell + n + 2 * BlockSize < Power(Int32)
                => PacketBody(EncodePacked(p, key).packet)
                     = AesEncryptWithKnownKey(XlAesEncrypt(p).out, key).out
<1>1. PICK x : x = XlAesEncrypt(p).out
  OBVIOUS
<1>2. PICK m : m = Shell + Rounded(n)
  OBVIOUS
<1>3. x \in Seq(CharSet) /\ x \in Seq(Int) /\ Len(x) = m /\ m \in Nat
  <2>1. x \in Seq(CharSet) /\ Len(x) = Shell + Rounded(n)
    BY <1>1, SealedTyped
  <2>2. x \in Seq(Int) /\ Len(x) \in Nat
    BY <2>1, CharSeqs
  <2> QED
    BY <1>2, <2>1, <2>2
<1>4. PICK e : e = AesEncryptWithKnownKey(x, key).out
  OBVIOUS
<1>5. e \in Seq(CharSet) /\ e \in Seq(Int) /\ Len(e) = Rounded(m) /\ Len(e) \in Nat
      /\ Len(e) = m + PadLen(m)
  <2>1. e = Encrypted(x, key)
    BY <1>4 DEF AesEncryptWithKnownKey, Result
  <2>2. e \in Seq(CharSet) /\ Len(e) = Len(x) + PadLen(Len(x)) /\ Len(e) \in Nat
    BY <1>3, <2>1, EncryptedTyped
  <2>3. m + PadLen(m) = Rounded(m)
    BY <1>3, PadIs DEF Rounded
  <2>4. e \in Seq(Int)
    BY <2>2, CharSeqs
  <2> QED
    BY <1>3, <2>2, <2>3, <2>4
<1>6. PICK header, k : header = BuildRsaEncryptHeader(key, Len(e)) /\ k = PackLen(Len(p))
  OBVIOUS
<1>7. k = Rounded(m) + RsaHeader
  <2>1. Shell \in Nat /\ Len(p) - Shell = n
    BY SizesAssumption DEF Shell
  <2>2. Rounded(n) \in Nat
    BY PadIs DEF Rounded
  <2>3. k = Rounded(Rounded(n) + Shell) + RsaHeader
    BY <1>6, <2>1 DEF PackLen
  <2>4. Rounded(n) + Shell = m
    BY <1>2, <2>1, <2>2
  <2> QED
    BY <2>3, <2>4
<1>8. EncodePacked(p, key) =
        IF p = <<>> THEN [ret |-> "EC_SET_QUERY_PARAMS"]
        ELSE IF header.ret # "SUCCESS" THEN [ret |-> "EC_BUILD_RSA_ENCRYPT"]
        ELSE [ret |-> "EC_SUCC", key |-> key, packet |-> PacketOf(header.text, e, k),
              over |-> Len(e) + RsaHeader - k]
  BY <1>1, <1>4, <1>6, Zenon DEF EncodePacked
<1>9. header.ret = "SUCCESS"
  BY <1>8
<1>10. PICK r : r = EncodePacked(p, key)
  OBVIOUS
<1>11. r.key = key /\ r.packet = PacketOf(header.text, e, k) /\ r.over = Len(e) + RsaHeader - k
  BY <1>8, <1>9, <1>10
<1>12. Len(RsaEncrypt(key)) = CipherLen /\ header.text = HeaderText(key, Len(e))
  BY <1>5, <1>6, <1>9, HeaderIs
<1>13. PICK h : h = HeaderText(key, Len(e))
  OBVIOUS
<1>14. /\ h \o e \in Seq(CharSet) /\ h \in Seq(Int) /\ Len(h) = RsaHeader
       /\ KeyIn(h \o e) = key
       /\ Len(e) < Power(Int32) => PacketBody(h \o e) = e
  <2>1. /\ h \o e \in Seq(CharSet) /\ h \in Seq(CharSet) /\ Len(h) = RsaHeader
        /\ KeyIn(h \o e) = key
        /\ Len(e) < Power(Int32) => PacketBody(h \o e) = e
    BY <1>5, <1>12, <1>13, PacketHas, Zenon
  <2> QED
    BY <2>1, CharSeqs
<1>15. k = RsaHeader + Len(e) /\ Len(e) + RsaHeader - k = 0
  <2>1. k = Len(e) + RsaHeader
    BY <1>5, <1>7, Zenon
  <2>2. RsaHeader \in Nat /\ Len(e) \in Nat
    BY <1>5, SizesTyped
  <2> QED
    BY <2>1, <2>2
<1>16. r.packet = h \o e
  <2>1. PacketOf(h, e, RsaHeader + Len(e)) = h \o e
    BY <1>5, <1>14, PacketIs, Zenon
  <2> QED
    BY <1>11, <1>12, <1>13, <1>15, <2>1
<1>17. ASSUME Shell + n + 2 * BlockSize < Power(Int32) PROVE Len(e) < Power(Int32)
  <2>1. m + PadLen(m) <= Shell + n + 2 * BlockSize
    <3>1. PadLen(n) \in 1..BlockSize /\ PadLen(m) \in 1..BlockSize /\ Rounded(n) = n + PadLen(n)
      BY <1>3, PadIs DEF Rounded
    <3>2. Shell \in Nat /\ BlockSize \in Nat
      BY SizesAssumption, BlockSizeAssumption DEF Shell
    <3> QED
      BY <1>2, <3>1, <3>2
  <2>2. BlockSize \in Nat /\ Shell \in Nat /\ Power(Int32) \in Nat /\ Len(e) \in Nat
    BY <1>5, SizesAssumption, BlockSizeAssumption, CharSeqs DEF Shell
  <2> QED
    BY <1>5, <1>17, <2>1, <2>2
<1> QED
  BY <1>1, <1>4, <1>10, <1>11, <1>14, <1>15, <1>16, <1>17, Zenon

-----------------------------------------------------------------------------
(* A packet is opened: its first words are those that were sealed, but for *)
(* the length in the third, and the server reads from it what was packed.  *)

Assoc(a, b, c) == (a \o b) \o c = a \o (b \o c)
AssocTwice(a, b, c, d) == ((a \o b) \o c) \o d = a \o (b \o (c \o d))

(* Concatenation is associative.                                           *)
LEMMA Associates ==
    ASSUME NEW a, a \in Seq(Int), NEW b, b \in Seq(Int), NEW c, c \in Seq(Int)
    PROVE  Assoc(a, b, c)
  BY DEF Assoc

(* Twice.                                                                  *)
LEMMA AssociatesTwice ==
    ASSUME NEW a, a \in Seq(Int), NEW b, b \in Seq(Int), NEW c, c \in Seq(Int), NEW d, d \in Seq(Int)
    PROVE  AssocTwice(a, b, c, d)
<1>1. PICK x, y : x = a \o b /\ y = c \o d
  OBVIOUS
<1>2. x \in Seq(Int) /\ y \in Seq(Int)
  BY <1>1, Joins
<1>3. Assoc(x, c, d) /\ Assoc(a, b, y)
  BY <1>2, Associates, Zenon
<1>4. (x \o c) \o d = x \o y /\ x \o y = a \o (b \o y)
  BY <1>1, <1>3, Zenon DEF Assoc
<1> QED
  BY <1>1, <1>4, Zenon DEF AssocTwice

(* The first two words of a text stay in the clear.                        *)
LEMMA TwoOpen ==
    ASSUME NEW v \in Nat, NEW w \in Nat, NEW r \in Seq(Int)
    PROVE  LET t == NumberThen(v, Int32, NumberThen(w, Int32, r))
           IN /\ SubSeq(t, 1, Words(2)) = Chars(v, Int32) \o Chars(w, Int32)
              /\ SubSeq(t, 1, Words(2)) \in Seq(CharSet)
<1>1. PICK a, b : a = Chars(v, Int32) /\ b = Chars(w, Int32)
  OBVIOUS
<1>2. /\ a \in Seq(CharSet) /\ a \in Seq(Int) /\ Len(a) = Int32
      /\ b \in Seq(CharSet) /\ b \in Seq(Int) /\ Len(b) = Int32 /\ Int32 \in Nat
  <2>1. Int32 \in Nat
    BY SizesAssumption
  <2> QED
    BY <1>1, <2>1, CharsTyped
<1>3. PICK h : h = a \o b
  OBVIOUS
<1>4. h \in Seq(Int) /\ h \in Seq(CharSet) /\ Len(h) = Words(2)
  <2>1. a \o b \in Seq(CharSet) /\ Len(a \o b) = Len(a) + Len(b)
    BY <1>2, Appended
  <2>2. a \o b \in Seq(Int)
    BY <2>1, CharSeqs
  <2>3. Len(a) + Len(b) = Words(2)
    BY <1>2 DEF Words
  <2> QED
    BY <1>3, <2>1, <2>2, <2>3
<1>5. SubSeq(h \o r, 1, Len(h)) = h
  BY <1>4, Parts
<1>6. h \o r = a \o (b \o r)
  <2>1. a \in Seq(Int) /\ b \in Seq(Int) /\ r \in Seq(Int)
    BY <1>2
  <2>2. (a \o b) \o r = a \o (b \o r)
    BY <2>1, Associates
  <2> QED
    BY <1>3, <2>2
<1> QED
  BY <1>1, <1>3, <1>4, <1>5, <1>6 DEF NumberThen

(* A text of three words and r is read with another third word. *)
Relabelled(v, w, x, r, len) ==
    LET t == NumberThen(v, Int32, NumberThen(w, Int32, NumberThen(x, Int32, r)))
    IN (SubSeq(t, 1, Words(2)) \o Chars(len, Int32)) \o Rest(t)
         = NumberThen(v, Int32, NumberThen(w, Int32, NumberThen(len, Int32, r)))

(* Sealing and opening changes the third word only.                        *)
LEMMA ThreeOpen ==
    ASSUME NEW v \in Nat, NEW w \in Nat, NEW x \in Nat, NEW r \in Seq(Int), NEW len \in Nat
    PROVE  LET t == NumberThen(v, Int32, NumberThen(w, Int32, NumberThen(x, Int32, r)))
           IN /\ SubSeq(t, 1, Words(2)) \in Seq(CharSet) /\ Rest(t) = r
              /\ Relabelled(v, w, x, r, len)
<1>1. PICK a, b, d, y, z : /\ a = Chars(v, Int32) /\ b = Chars(w, Int32) /\ d = Chars(x, Int32)
                           /\ y = Chars(len, Int32) /\ z = NumberThen(x, Int32, r)
  OBVIOUS
<1>2. /\ a \in Seq(Int) /\ Len(a) = Int32 /\ b \in Seq(Int) /\ Len(b) = Int32
      /\ d \in Seq(Int) /\ Len(d) = Int32 /\ y \in Seq(Int) /\ Len(y) = Int32 /\ Int32 \in Nat
      /\ r \in Seq(Int)
  <2>1. Int32 \in Nat
    BY SizesAssumption
  <2> QED
    BY <1>1, <2>1, CharsTyped
<1>3. z = d \o r /\ z \in Seq(Int)
  <2>1. d \o r \in Seq(Int)
    BY <1>2, Joins, Zenon
  <2> QED
    BY <1>1, <2>1, Zenon DEF NumberThen, AssocTwice
<1>4. PICK t : t = NumberThen(v, Int32, NumberThen(w, Int32, z))
  OBVIOUS
<1>5. SubSeq(t, 1, Words(2)) = a \o b /\ SubSeq(t, 1, Words(2)) \in Seq(CharSet)
  BY <1>1, <1>3, <1>4, TwoOpen
<1>6. t = a \o (b \o (d \o r))
  BY <1>1, <1>3, <1>4 DEF NumberThen
<1>7. /\ a \o b \in Seq(Int) /\ Len(a \o b) = Int32 + Int32
      /\ a \in Seq(Int) /\ b \in Seq(Int) /\ d \in Seq(Int) /\ y \in Seq(Int) /\ r \in Seq(Int)
  <2>1. a \in Seq(Int) /\ b \in Seq(Int)
    BY <1>2
  <2>2. a \o b \in Seq(Int) /\ Len(a \o b) = Len(a) + Len(b)
    BY <2>1, Joins, Zenon
  <2> QED
    BY <1>2, <2>2
<1>7a. a \o b \in Seq(Int) /\ a \in Seq(Int) /\ b \in Seq(Int) /\ d \in Seq(Int) /\ y \in Seq(Int) /\ r \in Seq(Int)
  BY <1>7, Zenon
<1>8. PICK h : h = (a \o b) \o d
  OBVIOUS
<1>9. h \in Seq(Int) /\ Len(h) = Words(3)
  <2>1. (a \o b) \o d \in Seq(Int) /\ Len((a \o b) \o d) = Len(a \o b) + Len(d)
    BY <1>2, <1>7, Joins
  <2>2. Len(a \o b) + Len(d) = Words(3)
    BY <1>2, <1>7 DEF Words
  <2> QED
    BY <1>8, <2>1, <2>2
<1>10. t = h \o r
  <2>1. AssocTwice(a, b, d, r)
    BY <1>7a, AssociatesTwice, Zenon
  <2> QED
    BY <1>6, <1>8, <2>1, Zenon DEF AssocTwice
<1>11. Rest(t) = r
  <2>1. SubSeq(h \o r, Len(h) + 1, Len(h \o r)) = r
    BY <1>2, <1>9, Parts
  <2> QED
    BY <1>9, <1>10, <2>1 DEF Rest
<1>12. ((a \o b) \o y) \o r = NumberThen(v, Int32, NumberThen(w, Int32, NumberThen(len, Int32, r)))
  <2>1. AssocTwice(a, b, y, r)
    BY <1>7a, AssociatesTwice, Zenon
  <2> QED
    BY <1>1, <2>1, Zenon DEF NumberThen, AssocTwice
<1>13. Relabelled(v, w, x, r, len)
  BY <1>1, <1>4, <1>5, <1>11, <1>12, Zenon DEF Relabelled
<1> QED
  BY <1>1, <1>4, <1>5, <1>11, <1>13, Zenon

(* A number of the text is read.                                           *)
LEMMA ReadNumber ==
    ASSUME NEW c, NEW n \in Nat, NEW v \in Unsigned(n), NEW r \in Seq(Int), ToRead(c, NumberThen(v, n, r))
    PROVE  PopValue(c, n).value = v /\ ToRead(PopValue(c, n).c, r)
<1>1. ToRead(c, Chars(v, n) \o r)
  BY Zenon DEF NumberThen
<1> QED
  BY <1>1, PopValueReads

(* A string of the text is read.                                           *)
LEMMA ReadString ==
    ASSUME NEW c, NEW s \in Seq(Int), NEW r \in Seq(Int), Len(s) < Power(Int32) \div 2,
           ToRead(c, StringThen(s, r))
    PROVE  PopString(c).value = s /\ ToRead(PopString(c).c, r)
<1>1. ToRead(c, Chars(Len(s), Int32) \o (s \o r))
  BY Zenon DEF StringThen
<1> QED
  BY <1>1, PopStringReads

(* No length of a query that fits overflows its word.                      *)
LEMMA Limits ==
    /\ Power(Int32) \div 2 \in Nat /\ 2 * (Power(Int32) \div 2) <= Power(Int32)
    /\ \A k \in 0..ReserveRoom : k < Power(Int32) \div 2
    /\ PeerIdLen < Power(Int32) \div 2 /\ InfoIdLen \div 2 < Power(Int32) \div 2
    /\ \A k \in 0..ReserveRoom :
          3 * Int32 + (4 * Int32 + 2 * Short + k + InfoIdLen \div 2 + PeerIdLen) + 2 * BlockSize
            < Power(Int32)
<1>1. /\ Short \in Nat \ {0} /\ PeerIdLen \in Nat \ {0} /\ InfoIdLen \in Nat \ {0} /\ ReserveRoom \in Nat
  BY ClientAssumption, Zenon
<1>2. Int32 \in Nat /\ BlockSize \in Nat
  BY SizesAssumption, BlockSizeAssumption
<1>3. PICK p : p = Power(Int32)
  OBVIOUS
<1>4. p \in Nat
  BY <1>3, CharSeqs
<1>5. p \div 2 \in Nat /\ 2 * (p \div 2) <= p
  BY <1>4
<1>6. PICK h : h = p \div 2
  OBVIOUS
<1>7. ReserveRoom + InfoIdLen + PeerIdLen + 7 * Int32 + 2 * Short + 2 * BlockSize < h
  BY <1>3, <1>6, LengthsAssumption, Zenon
<1>8. h \in Nat /\ 2 * h <= p
  BY <1>5, <1>6
<1>9. InfoIdLen \div 2 \in Nat /\ InfoIdLen \div 2 <= InfoIdLen
  BY <1>1
<1>10. PICK i : i = InfoIdLen \div 2
  OBVIOUS
<1>11. i \in Nat /\ i <= InfoIdLen
  BY <1>9, <1>10
<1>12. /\ \A k \in 0..ReserveRoom : k < h
       /\ PeerIdLen < h /\ i < h
       /\ \A k \in 0..ReserveRoom :
             3 * Int32 + (4 * Int32 + 2 * Short + k + i + PeerIdLen) + 2 * BlockSize < p
  BY <1>1, <1>2, <1>4, <1>7, <1>8, <1>11
<1> QED
  BY <1>3, <1>6, <1>8, <1>10, <1>12

(* Nor do those of its reserve.                                            *)
LEMMA ReserveShort ==
    ASSUME NEW q \in Queries, Fits(q)
    PROVE  /\ Len(Version) < Power(Int32) \div 2 /\ Len(ToStr(q.appid)) < Power(Int32) \div 2
           /\ Len(q.channel) < Power(Int32) \div 2 /\ ReserveLen(q) < Power(Int32) \div 2
           /\ ReserveLen(q) + Int32 \in 0..ReserveRoom
           /\ ReserveLen(q) \in Unsigned(Int32) /\ ReserveLen(q) \in Nat
<1>1. ReserveLen(q) + Int32 <= ReserveRoom
  BY ReserveTyped DEF Fits
<1>2. PICK a, b, d, l : /\ a = Len(Version) /\ b = Len(ToStr(q.appid)) /\ d = Len(q.channel)
                        /\ l = ReserveLen(q)
  OBVIOUS
<1>3. a \in Nat /\ b \in Nat /\ d \in Nat
  BY <1>2, ParamsTyped
<1>4. l = 5 * Int32 + 2 * a + b + d
  BY <1>2, Zenon DEF ReserveLen
<1>5. Int32 \in Nat /\ ReserveRoom \in Nat
  <2>1. ReserveRoom \in Nat
    BY ClientAssumption, Zenon
  <2> QED
    BY <2>1, SizesAssumption
<1>6. l + Int32 <= ReserveRoom
  BY <1>1, <1>2
<1>7. /\ a \in 0..ReserveRoom /\ b \in 0..ReserveRoom /\ d \in 0..ReserveRoom /\ l \in 0..ReserveRoom
      /\ l + Int32 \in 0..ReserveRoom /\ l \in Nat
  BY <1>3, <1>4, <1>5, <1>6
<1>8. PICK h : h = Power(Int32) \div 2
  OBVIOUS
<1>9. h \in Nat /\ 2 * h <= Power(Int32) /\ \A k \in 0..ReserveRoom : k < h
  BY <1>8, Limits
<1>10. a < h /\ b < h /\ d < h /\ l < h
  BY <1>7, <1>9
<1>11. l \in Unsigned(Int32)
  BY <1>7, <1>9, <1>10, CharSeqs DEF Unsigned
<1> QED
  BY <1>2, <1>7, <1>8, <1>10, <1>11

(* The server reads from the reserve what was put into it.                 *)
LEMMA ReserveCarried ==
    ASSUME NEW q \in Queries, Fits(q)
    PROVE  CarriesReserve(ReserveBody(q), q)
<1>1. PICK v, s, d : v = Version /\ s = ToStr(q.appid) /\ d = q.channel
  OBVIOUS
<1>2. /\ v \in Seq(Int) /\ s \in Seq(Int) /\ d \in Seq(Int) /\ <<>> \in Seq(Int)
      /\ ProductId \in Nat /\ Int32 \in Nat
  BY <1>1, ParamsTyped, Empty
<1>3. ProductId \in Unsigned(Int32)
  BY ClientAssumption, Zenon
<1>4. Len(v) < Power(Int32) \div 2 /\ Len(s) < Power(Int32) \div 2 /\ Len(d) < Power(Int32) \div 2
  BY <1>1, ReserveShort
<1>5. PICK r5 : r5 = StringThen(d, <<>>)
  OBVIOUS
<1>6. PICK r4 : r4 = StringThen(v, r5)
  OBVIOUS
<1>7. PICK r3 : r3 = StringThen(s, r4)
  OBVIOUS
<1>8. PICK r2 : r2 = NumberThen(ProductId, Int32, r3)
  OBVIOUS
<1>9. PICK r1 : r1 = StringThen(v, r2)
  OBVIOUS
<1>10. r5 \in Seq(Int) /\ r4 \in Seq(Int) /\ r3 \in Seq(Int)
  BY <1>2, <1>5, <1>6, <1>7, StringThenTyped, Zenon
<1>11. r2 \in Seq(Int) /\ r1 \in Seq(Int)
  <2>1. r2 \in Seq(Int)
    BY <1>2, <1>8, <1>10, NumberThenTyped
  <2> QED
    BY <1>2, <1>9, <2>1, StringThenTyped, Zenon
<1>12. r1 = ReserveBody(q)
  BY <1>1, <1>5, <1>6, <1>7, <1>8, <1>9, Zenon DEF ReserveBody
<1>13. PICK c0 : c0 = Cursor(r1, Len(r1))
  OBVIOUS
<1>14. PICK product : product = PopString(c0)
  OBVIOUS
<1>15. PICK id : id = PopValue(product.c, Int32)
  OBVIOUS
<1>16. PICK partner : partner = PopString(id.c)
  OBVIOUS
<1>17. PICK thunder : thunder = PopString(partner.c)
  OBVIOUS
<1>18. PICK channel : channel = PopString(thunder.c)
  OBVIOUS
<1>19. ToRead(c0, r1)
  BY <1>11, <1>13, StartsToRead
<1>20. product.value = v /\ ToRead(product.c, r2)
  BY <1>2, <1>4, <1>9, <1>11, <1>14, <1>19, ReadString, Zenon
<1>21. id.value = ProductId /\ ToRead(id.c, r3)
  BY <1>2, <1>3, <1>8, <1>10, <1>15, <1>20, ReadNumber, Zenon
<1>22. partner.value = s /\ ToRead(partner.c, r4)
  BY <1>2, <1>4, <1>7, <1>10, <1>16, <1>21, ReadString, Zenon
<1>23. thunder.value = v /\ ToRead(thunder.c, r5)
  BY <1>2, <1>4, <1>6, <1>10, <1>17, <1>22, ReadString, Zenon
<1>24. channel.value = d /\ ToRead(channel.c, <<>>)
  BY <1>2, <1>4, <1>5, <1>10, <1>18, <1>23, ReadString, Zenon
<1>25. channel.c.left = 0
  BY <1>24, NothingLeft
<1> QED
  BY <1>1, <1>12, <1>13, <1>14, <1>15, <1>16, <1>17, <1>18, <1>20, <1>21, <1>22, <1>23, <1>24, <1>25, Zenon
     DEF CarriesReserve

(* The reserve is a string of the text.                                    *)
LEMMA ReserveAsString ==
    ASSUME NEW q \in Queries, NEW r \in Seq(Int)
    PROVE  ReserveText(q) \o r = StringThen(ReserveBody(q), r)
<1>1. PICK w, b, l : w = Chars(l, Int32) /\ b = ReserveBody(q) /\ l = ReserveLen(q)
  OBVIOUS
<1>2. w \in Seq(Int) /\ b \in Seq(Int) /\ r \in Seq(Int) /\ Len(b) = l
  <2>1. Int32 \in Nat /\ l \in Nat
    BY <1>1, ParamsTyped
  <2>2. w \in Seq(Int)
    BY <1>1, <2>1, CharsTyped
  <2> QED
    BY <1>1, <2>2, ReserveBodyTyped
<1>3. Assoc(w, b, r)
  BY <1>2, Associates, Zenon
<1> QED
  BY <1>1, <1>2, <1>3, Zenon DEF Assoc, ReserveText, NumberThen, StringThen

(* The server reads the parameters of the query from its text.             *)
LEMMA TextCarried ==
    ASSUME NEW q \in Queries, Fits(q), NEW len \in Unsigned(Int32),
           NEW id \in Seq(CharSet), id = GenSHA1InfoId(q.infohash).id,
           Len(id) = InfoIdLen \div 2, Len(q.peerid) = PeerIdLen
    PROVE  Carries(NumberThen(q.version, Int32, NumberThen(q.seq, Int32,
                     NumberThen(len, Int32, PackedRest(q, ReserveText(q), id)))), q)
<1>1. PICK peer, body : peer = q.peerid /\ body = ReserveBody(q)
  OBVIOUS
<1>2. /\ peer \in Seq(Int) /\ body \in Seq(Int) /\ id \in Seq(Int) /\ <<>> \in Seq(Int)
      /\ Int32 \in Nat /\ Short \in Nat /\ len \in Nat
      /\ q.version \in Nat /\ q.seq \in Nat /\ q.cmdId \in Nat /\ q.compress \in Nat /\ 0 \in Nat
  <2>1. Int32 \in Nat /\ Short \in Nat
    BY ParamsTyped
  <2>2. peer \in Seq(Int) /\ body \in Seq(Int)
    BY <1>1, ParamsTyped, ReserveBodyTyped
  <2>3. q.version \in Nat /\ q.seq \in Nat /\ q.cmdId \in Nat /\ q.compress \in Nat
    BY ParamsTyped
  <2>4. id \in Seq(Int) /\ <<>> \in Seq(Int) /\ len \in Nat
    BY <2>1, CharSeqs, Empty
  <2> QED
    BY <2>1, <2>2, <2>3, <2>4
<1>3. /\ q.version \in Unsigned(Int32) /\ q.seq \in Unsigned(Int32) /\ q.compress \in Unsigned(Int32)
      /\ q.cmdId \in Unsigned(Short) /\ 0 \in Unsigned(Int32) /\ 0 \in Unsigned(Short)
  <2>1. {q.version, q.seq, q.appid, q.compress} \subseteq Unsigned(Int32) /\ q.cmdId \in Unsigned(Short)
    BY ParametersAssumption, Zenon
  <2>2. Power(Int32) \in Nat \ {0} /\ Power(Short) \in Nat \ {0}
    BY <1>2, Powers
  <2>3. 0 \in Unsigned(Int32) /\ 0 \in Unsigned(Short)
    BY <2>2 DEF Unsigned
  <2>4. q.version \in Unsigned(Int32) /\ q.seq \in Unsigned(Int32) /\ q.compress \in Unsigned(Int32)
    BY <2>1, Zenon
  <2> QED
    BY <2>1, <2>3, <2>4, Zenon
<1>4. /\ Len(peer) < Power(Int32) \div 2 /\ Len(id) < Power(Int32) \div 2
      /\ Len(body) < Power(Int32) \div 2
  <2>1. Len(body) = ReserveLen(q)
    BY <1>1, ReserveBodyTyped
  <2> QED
    BY <1>1, <2>1, ReserveShort, Limits
<1>5. PICK r10 : r10 = StringThen(peer, <<>>)
  OBVIOUS
<1>6. PICK r9 : r9 = NumberThen(q.compress, Int32, r10)
  OBVIOUS
<1>7. PICK r8 : r8 = StringThen(id, r9)
  OBVIOUS
<1>8. PICK r7 : r7 = NumberThen(q.cmdId, Short, r8)
  OBVIOUS
<1>9. PICK r6 : r6 = StringThen(body, r7)
  OBVIOUS
<1>10. PICK r5 : r5 = NumberThen(0, Short, r6)
  OBVIOUS
<1>11. PICK r4 : r4 = NumberThen(0, Int32, r5)
  OBVIOUS
<1>12. PICK r3 : r3 = NumberThen(len, Int32, r4)
  OBVIOUS
<1>13. PICK r2 : r2 = NumberThen(q.seq, Int32, r3)
  OBVIOUS
<1>14. PICK t : t = NumberThen(q.version, Int32, r2)
  OBVIOUS
<1>15. r10 \in Seq(Int) /\ r9 \in Seq(Int) /\ r8 \in Seq(Int)
  <2>1. r10 \in Seq(Int)
    BY <1>2, <1>5, StringThenTyped, Zenon
  <2>2. r9 \in Seq(Int)
    BY <1>2, <1>6, <2>1, NumberThenTyped
  <2> QED
    BY <1>2, <1>7, <2>1, <2>2, StringThenTyped, Zenon
<1>16. r7 \in Seq(Int) /\ r6 \in Seq(Int) /\ r5 \in Seq(Int)
  <2>1. r7 \in Seq(Int)
    BY <1>2, <1>8, <1>15, NumberThenTyped
  <2>2. r6 \in Seq(Int)
    BY <1>2, <1>9, <2>1, StringThenTyped, Zenon
  <2> QED
    BY <1>2, <1>10, <2>1, <2>2, NumberThenTyped
<1>17. r4 \in Seq(Int) /\ r3 \in Seq(Int)
  BY <1>2, <1>11, <1>12, <1>16, NumberThenTyped
<1>18. r2 \in Seq(Int) /\ t \in Seq(Int)
  BY <1>2, <1>13, <1>14, <1>17, NumberThenTyped
<1>19. NumberThen(q.version, Int32, NumberThen(q.seq, Int32,
                     NumberThen(len, Int32, PackedRest(q, ReserveText(q), id)))) = t
  <2>1. r7 = PackedTail(q, id)
    BY <1>1, <1>5, <1>6, <1>7, <1>8, Zenon DEF PackedTail, PackedPeer
  <2>2. ReserveText(q) \o r7 = r6
    BY <1>1, <1>9, <1>16, ReserveAsString
  <2>3. r4 = PackedRest(q, ReserveText(q), id)
    BY <1>10, <1>11, <2>1, <2>2, Zenon DEF PackedRest
  <2> QED
    BY <1>12, <1>13, <1>14, <2>3, Zenon
<1>20. PICK c0 : c0 = Cursor(t, Len(t))
  OBVIOUS
<1>21. PICK version : version = PopValue(c0, Int32)
  OBVIOUS
<1>22. PICK seq : seq = PopValue(version.c, Int32)
  OBVIOUS
<1>23. PICK length : length = PopValue(seq.c, Int32)
  OBVIOUS
<1>24. PICK clientVer : clientVer = PopValue(length.c, Int32)
  OBVIOUS
<1>25. PICK flag : flag = PopValue(clientVer.c, Short)
  OBVIOUS
<1>26. PICK reserve : reserve = PopString(flag.c)
  OBVIOUS
<1>27. PICK cmdId : cmdId = PopValue(reserve.c, Short)
  OBVIOUS
<1>28. PICK name : name = PopString(cmdId.c)
  OBVIOUS
<1>29. PICK compress : compress = PopValue(name.c, Int32)
  OBVIOUS
<1>30. PICK peerid : peerid = PopString(compress.c)
  OBVIOUS
<1>31. ToRead(c0, t)
  BY <1>18, <1>20, StartsToRead
<1>32. version.value = q.version /\ ToRead(version.c, r2)
  BY <1>2, <1>3, <1>14, <1>18, <1>21, <1>31, ReadNumber, Zenon
<1>33. seq.value = q.seq /\ ToRead(seq.c, r3)
  BY <1>2, <1>3, <1>13, <1>17, <1>22, <1>32, ReadNumber, Zenon
<1>34. ToRead(length.c, r4)
  BY <1>2, <1>12, <1>17, <1>23, <1>33, ReadNumber, Zenon
<1>35. ToRead(clientVer.c, r5)
  BY <1>2, <1>3, <1>11, <1>16, <1>24, <1>34, ReadNumber, Zenon
<1>36. ToRead(flag.c, r6)
  BY <1>2, <1>3, <1>10, <1>16, <1>25, <1>35, ReadNumber, Zenon
<1>37. reserve.value = body /\ ToRead(reserve.c, r7)
  BY <1>2, <1>4, <1>9, <1>16, <1>26, <1>36, ReadString, Zenon
<1>38. cmdId.value = q.cmdId /\ ToRead(cmdId.c, r8)
  BY <1>2, <1>3, <1>8, <1>15, <1>27, <1>37, ReadNumber, Zenon
<1>39. name.value = id /\ ToRead(name.c, r9)
  <2>1. /\ id \in Seq(Int) /\ r9 \in Seq(Int) /\ Len(id) < Power(Int32) \div 2
        /\ ToRead(cmdId.c, StringThen(id, r9))
    BY <1>2, <1>4, <1>7, <1>15, <1>38
  <2>2. PopString(cmdId.c).value = id /\ ToRead(PopString(cmdId.c).c, r9)
    BY <2>1, ReadString
  <2> QED
    BY <1>28, <2>2
<1>40. compress.value = q.compress /\ ToRead(compress.c, r10)
  BY <1>2, <1>3, <1>6, <1>15, <1>29, <1>39, ReadNumber, Zenon
<1>41. peerid.value = peer /\ ToRead(peerid.c, <<>>)
  BY <1>2, <1>4, <1>5, <1>15, <1>30, <1>40, ReadString, Zenon
<1>42. peerid.c.left = 0
  BY <1>41, NothingLeft
<1>43. CarriesReserve(reserve.value, q)
  BY <1>1, <1>37, ReserveCarried
<1>44. Carries(t, q)
  BY <1>1, <1>20, <1>21, <1>22, <1>23, <1>24, <1>25, <1>26, <1>27, <1>28, <1>29, <1>30,
     <1>32, <1>33, <1>38, <1>39, <1>40, <1>41, <1>42, <1>43, Zenon DEF Carries
<1> QED
  BY <1>19, <1>44

(* The length of the command of a query that fits.                         *)
LEMMA CmdShort ==
    ASSUME NEW q \in Queries, Fits(q), NEW id \in Seq(CharSet),
           Len(id) = InfoIdLen \div 2, Len(q.peerid) = PeerIdLen
    PROVE  /\ CmdLen(q, ReserveText(q), id) \in Nat
           /\ Shell + CmdLen(q, ReserveText(q), id) + 2 * BlockSize < Power(Int32)
           /\ Len(PackedText(q, ReserveText(q), id)) = Shell + CmdLen(q, ReserveText(q), id)
<1>1. PICK b, k, n : b = ReserveText(q) /\ k = ReserveLen(q) + Int32 /\ n = CmdLen(q, b, id)
  OBVIOUS
<1>2. b \in Seq(Int) /\ Len(b) = k /\ k \in 0..ReserveRoom
  BY <1>1, ReserveTextTyped, ReserveShort
<1>3. id \in Seq(Int)
  BY CharSeqs
<1>4. n \in Nat /\ Len(PackedText(q, b, id)) = n + Shell
  BY <1>1, <1>2, <1>3, RestTyped
<1>5. n = Int32 + Short + k + Short + (InfoIdLen \div 2 + Int32) + Int32 + (PeerIdLen + Int32)
  BY <1>1, <1>2, Zenon DEF CmdLen
<1>6. PICK i, w : i = InfoIdLen \div 2 /\ w = Power(Int32)
  OBVIOUS
<1>7. 3 * Int32 + (4 * Int32 + 2 * Short + k + i + PeerIdLen) + 2 * BlockSize < w
  BY <1>2, <1>6, Limits
<1>8. /\ Int32 \in Nat /\ Short \in Nat /\ PeerIdLen \in Nat /\ InfoIdLen \in Nat /\ BlockSize \in Nat
      /\ w \in Nat /\ k \in Nat
  <2>1. Short \in Nat \ {0} /\ PeerIdLen \in Nat \ {0} /\ InfoIdLen \in Nat \ {0}
    BY ClientAssumption, Zenon
  <2> QED
    BY <1>2, <1>6, <2>1, SizesAssumption, BlockSizeAssumption, CharSeqs
<1>9. i \in Nat
  BY <1>6, <1>8
<1>10. n = 4 * Int32 + 2 * Short + k + i + PeerIdLen
  BY <1>5, <1>6, <1>8, <1>9
<1>11. Shell = 3 * Int32
  BY <1>8 DEF Shell
<1>12. Shell + n + 2 * BlockSize < w /\ n + Shell = Shell + n
  BY <1>4, <1>7, <1>8, <1>9, <1>10, <1>11
<1> QED
  BY <1>1, <1>4, <1>6, <1>12

(* Sealed by both shells and opened again, the text still carries the      *)
(* query.                                                                  *)
LEMMA FittingOpens ==
    ASSUME CipherInverts, NEW q \in Queries, Fits(q), NEW key \in Keys,
           NEW id \in Seq(CharSet), id = GenSHA1InfoId(q.infohash).id,
           Len(id) = InfoIdLen \div 2, Len(q.peerid) = PeerIdLen
    PROVE  LET x == XlAesEncrypt(PackedText(q, ReserveText(q), id)).out
               e == AesEncryptWithKnownKey(x, key).out
               read == XlAesDecrypt(AesDecryptWithKnownKey(e, key, 0).out, 0)
           IN read.ret = "SUCCESS" /\ Carries(read.out, q)
<1>1. PICK t, n, rest : /\ t = PackedText(q, ReserveText(q), id) /\ n = CmdLen(q, ReserveText(q), id)
                        /\ rest = PackedRest(q, ReserveText(q), id)
  OBVIOUS
<1>2. /\ t \in Seq(CharSet) /\ Len(t) = Shell + n /\ n \in Nat
      /\ Shell + n + 2 * BlockSize < Power(Int32)
  BY <1>1, PackedTyped, CmdShort
<1>3. /\ Shell \in Nat /\ Words(3) = Shell /\ Len(t) >= Words(3) /\ Int32 \in Nat /\ BlockSize \in Nat
      /\ Power(Int32) \in Nat
  BY <1>2, SizesAssumption, BlockSizeAssumption, CharSeqs DEF Shell, Words
<1>4. PICK sealed, len : sealed = Encrypted(Rest(t), PacketKey(t)) /\ len = Len(sealed)
  OBVIOUS
<1>5. PICK head : head = SubSeq(t, 1, Words(2)) \o Chars(len, Int32)
  OBVIOUS
<1>6. /\ XlAesEncrypt(t).out \in Seq(CharSet)
      /\ Len(Rest(t)) = Len(t) - Words(3)
      /\ len = Len(Rest(t)) + PadLen(Len(Rest(t)))
      /\ XlAesDecrypt(XlAesEncrypt(t).out, 0) = Result("SUCCESS", head \o Rest(t))
  BY <1>2, <1>3, <1>4, <1>5, PacketOpens, Zenon
<1>7. len \in Nat /\ len \in Unsigned(Int32)
  <2>1. len = n + PadLen(n)
    <3>1. Len(Rest(t)) = n
      BY <1>2, <1>3, <1>6
    <3> QED
      BY <1>6, <3>1
  <2>2. PadLen(n) \in 1..BlockSize
    BY <1>2, PadIs
  <2>3. len \in Nat /\ len < Power(Int32)
    BY <1>2, <1>3, <2>1, <2>2
  <2> QED
    BY <1>3, <2>3 DEF Unsigned
<1>8. PICK x, e : x = XlAesEncrypt(t).out /\ e = AesEncryptWithKnownKey(x, key).out
  OBVIOUS
<1>9. AesDecryptWithKnownKey(e, key, 0) = Result("SUCCESS", x)
  <2>1. x \in Seq(CharSet)
    BY <1>6, <1>8
  <2> QED
    BY <1>8, <2>1, KnownKeyOpens, Zenon
<1>10. AesDecryptWithKnownKey(e, key, 0).out = x
  BY <1>9 DEF Result
<1>11. PICK y : y = head \o Rest(t)
  OBVIOUS
<1>12. XlAesDecrypt(x, 0).ret = "SUCCESS" /\ XlAesDecrypt(x, 0).out = y
  BY <1>6, <1>8, <1>11 DEF Result
<1>13. y = NumberThen(q.version, Int32, NumberThen(q.seq, Int32, NumberThen(len, Int32, rest)))
  <2>1. /\ q.version \in Nat /\ q.seq \in Nat
    BY ParamsTyped
  <2>2. rest \in Seq(Int)
    <3>1. ReserveText(q) \in Seq(Int) /\ id \in Seq(Int)
      BY ReserveTextTyped, CharSeqs
    <3> QED
      BY <1>1, <3>1, RestTyped
  <2>3. t = NumberThen(q.version, Int32, NumberThen(q.seq, Int32, NumberThen(n, Int32, rest)))
    BY <1>1, Zenon DEF PackedText
  <2>4. PICK v, w : v = q.version /\ w = q.seq
    OBVIOUS
  <2>5. v \in Nat /\ w \in Nat /\ n \in Nat /\ len \in Nat
    BY <1>2, <1>7, <2>1, <2>4
  <2>6. t = NumberThen(v, Int32, NumberThen(w, Int32, NumberThen(n, Int32, rest)))
    BY <2>3, <2>4
  <2>7. Relabelled(v, w, n, rest, len)
    BY <2>2, <2>5, ThreeOpen, Zenon
  <2> QED
    BY <1>5, <1>11, <2>4, <2>6, <2>7, Zenon DEF Relabelled
<1>14. Carries(y, q)
  BY <1>1, <1>7, <1>13, TextCarried
<1> QED
  BY <1>1, <1>8, <1>10, <1>12, <1>14

(* encode_query_params, when it succeeds: nothing is written past the      *)
(* buffer, the packet holds the key, and of a query that fits the server   *)
(* reads all parameters.                                                   *)
THEOREM QueryEncoded ==
    ASSUME CipherInverts, RsaInverts, NEW q \in Queries, NEW ptr \in Pointers,
           EncodeQueryParams(q, ptr).ret = "EC_SUCC"
    PROVE  /\ EncodeQueryParams(q, ptr).key \in Keys
           /\ EncodeQueryParams(q, ptr).over = 0
           /\ EncodeQueryParams(q, ptr).packet \in Seq(CharSet)
           /\ KeyIn(EncodeQueryParams(q, ptr).packet) = EncodeQueryParams(q, ptr).key
           /\ Fits(q) =>
                /\ ServerReads(EncodeQueryParams(q, ptr).packet).ret = "SUCCESS"
                /\ Carries(ServerReads(EncodeQueryParams(q, ptr).packet).out, q)
<1>1. PICK r, name : r = EncodeQueryParams(q, ptr) /\ name = GenSHA1InfoId(q.infohash)
  OBVIOUS
<1>2. PICK id, key : id = name.id /\ key = GenAesKeyByUserData(ptr)
  OBVIOUS
<1>3. PICK t : t = SetQueryParams(q, id)
  OBVIOUS
<1>4. r = IF Len(q.infohash) # InfoIdLen \/ Len(q.peerid) # PeerIdLen THEN [ret |-> "EC_PARAMS"]
          ELSE IF name.ret # "EC_SUCC" THEN name
          ELSE EncodePacked(t, key)
  BY <1>1, <1>2, <1>3, Zenon DEF EncodeQueryParams
<1>5. /\ Len(q.infohash) = InfoIdLen /\ Len(q.peerid) = PeerIdLen /\ name.ret = "EC_SUCC"
      /\ r = EncodePacked(t, key)
  <2>1. r.ret = "EC_SUCC"
    BY <1>1
  <2>2. [ret |-> "EC_PARAMS"].ret # "EC_SUCC"
    OBVIOUS
  <2> QED
    BY <1>4, <2>1, <2>2, Zenon
<1>6. id \in Seq(CharSet) /\ id \in Seq(Int) /\ Len(id) = InfoIdLen \div 2
  <2>1. id \in Seq(CharSet) /\ Len(id) = InfoIdLen \div 2
    BY <1>1, <1>2, <1>5, IdTyped
  <2> QED
    BY <2>1, CharSeqs
<1>7. PICK b : b = BuildReserve6x(q)
  OBVIOUS
<1>8. b \in Seq(Int) /\ t = PackedText(q, b, id)
  BY <1>3, <1>6, <1>7, ReserveTyped, PackedIs
<1>9. PICK n, d : n = CmdLen(q, b, id) /\ d = NumberThen(n, Int32, PackedRest(q, b, id))
  OBVIOUS
<1>10. t \in Seq(Int) /\ n \in Nat /\ Len(t) = n + Shell /\ d \in Seq(Int)
  BY <1>6, <1>8, <1>9, RestTyped
<1>11. Len(t) = Shell + n
  <2>1. Shell \in Nat
    BY SizesAssumption DEF Shell
  <2> QED
    BY <1>10, <2>1
<1>12. SubSeq(t, 1, Words(2)) \in Seq(CharSet)
  <2>1. PICK v, w : v = q.version /\ w = q.seq
    OBVIOUS
  <2>2. v \in Nat /\ w \in Nat /\ d \in Seq(Int)
    BY <1>10, <2>1, ParamsTyped
  <2>3. t = NumberThen(v, Int32, NumberThen(w, Int32, d))
    BY <1>8, <1>9, <2>1, Zenon DEF PackedText
  <2> QED
    BY <2>2, <2>3, TwoOpen
<1>13. key \in Keys
  <2>1. ptr \in Nat /\ Int32 \in Nat
    <3>1. Pointers \subseteq Unsigned(Int32)
      BY ClientAssumption, Zenon
    <3> QED
      BY <3>1, CharSeqs
  <2>2. Chars(ptr, Int32) \in Seq(CharSet)
    BY <2>1, CharsTyped
  <2> QED
    BY <1>2, <2>2 DEF GenAesKeyByUserData, Keys
<1>14. EncodePacked(t, key).ret = "EC_SUCC"
  BY <1>1, <1>5
<1>15. /\ EncodePacked(t, key).key = key /\ EncodePacked(t, key).over = 0
       /\ EncodePacked(t, key).packet \in Seq(CharSet)
       /\ KeyIn(EncodePacked(t, key).packet) = key
       /\ Shell + n + 2 * BlockSize < Power(Int32)
            => PacketBody(EncodePacked(t, key).packet)
                 = AesEncryptWithKnownKey(XlAesEncrypt(t).out, key).out
  BY <1>10, <1>11, <1>12, <1>13, <1>14, PackedSeals
<1>16. /\ r.key = key /\ r.over = 0 /\ r.packet \in Seq(CharSet) /\ KeyIn(r.packet) = key
       /\ Shell + n + 2 * BlockSize < Power(Int32)
            => PacketBody(r.packet) = AesEncryptWithKnownKey(XlAesEncrypt(t).out, key).out
  BY <1>5, <1>15
<1>17. ASSUME Fits(q)
       PROVE  ServerReads(r.packet).ret = "SUCCESS" /\ Carries(ServerReads(r.packet).out, q)
  <2>1. b = ReserveText(q)
    BY <1>7, <1>17, ReserveFits
  <2>2. Shell + n + 2 * BlockSize < Power(Int32)
    BY <1>5, <1>6, <1>9, <1>17, <2>1, CmdShort
  <2>3. PacketBody(r.packet) = AesEncryptWithKnownKey(XlAesEncrypt(t).out, key).out
    BY <1>16, <2>2
  <2>4. PICK x : x = XlAesEncrypt(t).out
    OBVIOUS
  <2>5. PICK e : e = AesEncryptWithKnownKey(x, key).out
    OBVIOUS
  <2>6. PICK read : read = XlAesDecrypt(AesDecryptWithKnownKey(e, key, 0).out, 0)
    OBVIOUS
  <2>7. read.ret = "SUCCESS" /\ Carries(read.out, q)
    <3>1. id = GenSHA1InfoId(q.infohash).id
      BY <1>1, <1>2
    <3>2. x = XlAesEncrypt(PackedText(q, ReserveText(q), id)).out
      BY <1>8, <2>1, <2>4
    <3> QED
      BY <1>5, <1>6, <1>13, <1>17, <2>5, <2>6, <3>1, <3>2, FittingOpens
  <2>8. ServerReads(r.packet) = read
    BY <1>16, <2>3, <2>4, <2>5, <2>6, Zenon DEF ServerReads
  <2> QED
    BY <2>7, <2>8
<1> QED
  BY <1>1, <1>13, <1>16, <1>17

-----------------------------------------------------------------------------
(* The answer of the server, sealed with the key of the query.             *)

(* Parts of sequences that agree there.                                    *)
LEMMA SameParts ==
    ASSUME NEW s \in Seq(Int), NEW t \in Seq(Int), NEW i \in Nat \ {0}, NEW j \in Nat,
           j <= Len(s), j <= Len(t), \A k \in i..j : s[k] = t[k]
    PROVE  SubSeq(s, i, j) = SubSeq(t, i, j)
OBVIOUS

(* The part that is all of a sequence.                                     *)
LEMMA WholePart ==
    ASSUME NEW s \in Seq(Int)
    PROVE  SubSeq(s, 1, Len(s)) = s
OBVIOUS

(* A text with another third word is the same beside it.                   *)
LEMMA BesideThirdWord ==
    ASSUME NEW t \in Seq(CharSet), Len(t) >= Words(3), NEW len \in Nat
    PROVE  LET y == (SubSeq(t, 1, Words(2)) \o Chars(len, Int32)) \o Rest(t)
           IN /\ y \in Seq(CharSet) /\ Len(y) = Len(t)
              /\ \A k \in 1..Len(t) : k \notin Words(2) + 1..Words(3) => y[k] = t[k]
<1>1. PICK a, b, w, r : a = Words(2) /\ b = Words(3) /\ w = Chars(len, Int32) /\ r = Rest(t)
OBVIOUS
<1>2. a \in 0..Len(t) /\ b \in 0..Len(t) /\ a + Int32 = b /\ Int32 \in Nat /\ a \in Nat /\ b \in Nat
  BY <1>1, SizesAssumption DEF Words
<1>3. PICK h : h = SubSeq(t, 1, a)
OBVIOUS
<1>4. h \in Seq(CharSet) /\ h \in Seq(Int) /\ Len(h) = a /\ \A k \in 1..a : h[k] = t[k]
  <2>1. h \in Seq(CharSet) /\ Len(h) = a /\ \A k \in 1..a : h[k] = t[k]
    BY <1>2, <1>3, Cut
  <2> QED
    BY <2>1, CharSeqs
<1>5. /\ r \in Seq(CharSet) /\ r \in Seq(Int) /\ Len(r) = Len(t) - b
      /\ \A k \in 1..Len(t) - b : r[k] = t[b + k]
  <2>1. /\ r \in Seq(CharSet) /\ Len(r) = Len(t) - b
        /\ \A k \in 1..Len(t) - b : r[k] = t[b + k]
    <3>1. /\ SubSeq(t, b + 1, Len(t)) \in Seq(CharSet) /\ Len(SubSeq(t, b + 1, Len(t))) = Len(t) - b
          /\ \A k \in 1..Len(t) - b : SubSeq(t, b + 1, Len(t))[k] = t[b + k]
      BY <1>2, Cut
    <3>2. r = SubSeq(t, b + 1, Len(t))
      BY <1>1, Zenon DEF Rest
    <3> QED
      BY <3>1, <3>2, Zenon
  <2> QED
    BY <2>1, CharSeqs
<1>6. w \in Seq(CharSet) /\ w \in Seq(Int) /\ Len(w) = Int32
  BY <1>1, <1>2, CharsTyped
<1>7. PICK g : g = h \o w
OBVIOUS
<1>8. /\ g \in Seq(CharSet) /\ g \in Seq(Int) /\ Len(g) = b
      /\ \A k \in 1..a : g[k] = h[k]
  <2>1. h \o w \in Seq(CharSet)
    BY <1>4, <1>6, Appended
  <2>2. /\ h \o w \in Seq(Int) /\ Len(h \o w) = Len(h) + Len(w)
        /\ \A k \in 1..Len(h) : (h \o w)[k] = h[k]
    BY <1>4, <1>6, Joins
  <2> QED
    BY <1>2, <1>4, <1>6, <1>7, <2>1, <2>2
<1>9. PICK y : y = g \o r
OBVIOUS
<1>10. /\ y \in Seq(CharSet) /\ Len(y) = Len(t)
       /\ \A k \in 1..b : y[k] = g[k]
       /\ \A k \in b + 1..Len(t) : y[k] = r[k - b]
  <2>1. g \o r \in Seq(CharSet)
    BY <1>5, <1>8, Appended
  <2>2. /\ Len(g \o r) = Len(g) + Len(r)
        /\ \A k \in 1..Len(g) : (g \o r)[k] = g[k]
        /\ \A k \in Len(g) + 1..Len(g) + Len(r) : (g \o r)[k] = r[k - Len(g)]
    BY <1>5, <1>8, Joins
  <2>3. Len(g) = b /\ Len(g) + Len(r) = Len(t)
    BY <1>2, <1>5, <1>8
  <2> QED
    BY <1>9, <2>1, <2>2, <2>3, Zenon
<1>11. ASSUME NEW k \in 1..Len(t), k \notin a + 1..b PROVE y[k] = t[k]
  <2>1. CASE k \in 1..a
    <3>1. k \in 1..b
      BY <1>2, <2>1
    <3> QED
      BY <1>4, <1>8, <1>10, <2>1, <3>1, Zenon
  <2>2. CASE k \in b + 1..Len(t)
    <3>1. k - b \in 1..Len(t) - b /\ b + (k - b) = k
      BY <1>2, <2>2
    <3>2. r[k - b] = t[b + (k - b)]
      BY <1>5, <3>1, Zenon
    <3> QED
      BY <1>10, <2>2, <3>1, <3>2, Zenon
  <2> QED
    BY <1>2, <1>11, <2>1, <2>2
<1> QED
  BY <1>1, <1>3, <1>7, <1>9, <1>10, <1>11

(* Where a response holds its base, and the length of its file, and the    *)
(* file.                                                                   *)
LEMMA ResponseTyped ==
    ASSUME NEW resp \in Responses
    PROVE  /\ resp.base \in Seq(CharSet) /\ resp.file \in Seq(CharSet)
           /\ Len(resp.base) = RespBaseLen - Int32 /\ RespBaseLen \in Nat /\ RespBaseLen > 4 * Int32
           /\ Len(resp.file) \in 0..Power(Int32) - 1
           /\ ResponseText(resp) \in Seq(CharSet)
           /\ Len(ResponseText(resp)) = RespBaseLen + Len(resp.file)
           /\ Len(ResponseText(resp)) + 2 * BlockSize < Power(Int32)
           /\ SubSeq(ResponseText(resp), 1, RespBaseLen - Int32) = resp.base
           /\ SubSeq(ResponseText(resp), RespBaseLen - Int32 + 1, RespBaseLen) = Chars(Len(resp.file), Int32)
           /\ SubSeq(ResponseText(resp), RespBaseLen + 1, RespBaseLen + Len(resp.file)) = resp.file
<1>1. PICK b, f, n, m : b = resp.base /\ f = resp.file /\ n = Len(f) /\ m = RespBaseLen
OBVIOUS
<1>2. /\ b \in Seq(CharSet) /\ Len(b) = 7 * Int32 + 2 * Short /\ f \in Seq(CharSet)
      /\ Len(b) + Int32 + n + 2 * BlockSize < Power(Int32)
  BY <1>1, ParametersAssumption, Zenon
<1>3. Int32 \in Nat \ {0} /\ Short \in Nat /\ BlockSize \in Nat /\ Power(Int32) \in Nat /\ n \in Nat
  <2>1. Short \in Nat \ {0}
    BY ClientAssumption, Zenon
  <2>2. n \in Nat
    BY <1>1, <1>2
  <2> QED
    BY <2>1, <2>2, SizesAssumption, BlockSizeAssumption, CharSeqs
<1>4. m = 8 * Int32 + 2 * Short /\ m \in Nat /\ m > 4 * Int32 /\ Len(b) = m - Int32 /\ Len(b) + Int32 = m
  BY <1>1, <1>2, <1>3 DEF RespBaseLen
<1>5. n \in 0..Power(Int32) - 1 /\ m + n + 2 * BlockSize < Power(Int32)
  BY <1>2, <1>3, <1>4
<1>6. PICK w, g : w = Chars(n, Int32) /\ g = b \o w
OBVIOUS
<1>7. w \in Seq(CharSet) /\ Len(w) = Int32
  BY <1>3, <1>6, CharsTyped
<1>8. /\ g \in Seq(CharSet) /\ Len(g) = m
      /\ SubSeq(g, 1, m - Int32) = b /\ SubSeq(g, m - Int32 + 1, m) = w
  <2>1. b \in Seq(CharSet) /\ w \in Seq(CharSet)
    BY <1>2, <1>7
  <2>2. /\ b \o w \in Seq(CharSet) /\ Len(b \o w) = Len(b) + Len(w)
        /\ SubSeq(b \o w, Len(b) + 1, Len(b) + Len(w)) = w
    BY <2>1, Appended, Zenon
  <2>3. SubSeq(b \o w, 1, Len(b)) = b
    BY <2>1, Parts
  <2>4. Len(b) + Len(w) = m /\ Len(b) = m - Int32
    BY <1>4, <1>7
  <2> QED
    BY <1>6, <2>2, <2>3, <2>4
<1>9. PICK t : t = g \o f
OBVIOUS
<1>10. /\ t \in Seq(CharSet) /\ Len(t) = m + n
       /\ SubSeq(t, m + 1, m + n) = f /\ SubSeq(t, 1, m) = g
  <2>1. g \in Seq(CharSet) /\ f \in Seq(CharSet)
    BY <1>2, <1>8
  <2>2. /\ g \o f \in Seq(CharSet) /\ Len(g \o f) = Len(g) + Len(f)
        /\ SubSeq(g \o f, Len(g) + 1, Len(g) + Len(f)) = f
    BY <2>1, Appended, Zenon
  <2>3. SubSeq(g \o f, 1, Len(g)) = g
    BY <2>1, Parts
  <2> QED
    BY <1>1, <1>8, <1>9, <2>2, <2>3
<1>11. t = ResponseText(resp)
  BY <1>1, <1>6, <1>9, Zenon DEF ResponseText
<1>12. ASSUME NEW i \in 1..m, NEW j \in 1..m PROVE SubSeq(t, i, j) = SubSeq(g, i, j)
  <2>1. g \in Seq(CharSet) /\ f \in Seq(CharSet) /\ i \in 1..Len(g) /\ j \in 1..Len(g)
    BY <1>2, <1>8
  <2>2. SubSeq(g \o f, i, j) = SubSeq(g, i, j)
    BY <2>1, SubSeqOfConcat1
  <2> QED
    BY <1>9, <2>2
<1>13. SubSeq(t, 1, m - Int32) = b /\ SubSeq(t, m - Int32 + 1, m) = w
  <2>1. 1 \in 1..m /\ m - Int32 \in 1..m /\ m - Int32 + 1 \in 1..m /\ m \in 1..m
    BY <1>3, <1>4
  <2> QED
    BY <1>8, <1>12, <2>1
<1> QED
  BY <1>1, <1>2, <1>4, <1>5, <1>6, <1>10, <1>11, <1>13, Zenon

(* What a response reads back as. *)
ReadAs(read, resp) ==
    /\ read.ret = "EC_SUCC" /\ read.file = resp.file
    /\ \A i \in (1..Len(resp.base)) \ (2 * Int32 + 1..3 * Int32) : read.base[i] = resp.base[i]

(* parser_buffer_to_struct does not read the third word.                   *)
LEMMA ResponseReads ==
    ASSUME NEW resp \in Responses, NEW len \in Nat
    PROVE  LET t == ResponseText(resp)
           IN ReadAs(ParserBufferToStruct((SubSeq(t, 1, Words(2)) \o Chars(len, Int32)) \o Rest(t)), resp)
<1>1. PICK t, m, n : t = ResponseText(resp) /\ m = RespBaseLen /\ n = Len(resp.file)
  OBVIOUS
<1>2. /\ t \in Seq(CharSet) /\ Len(t) = m + n /\ m \in Nat /\ m > 4 * Int32
      /\ n \in 0..Power(Int32) - 1 /\ Len(resp.base) = m - Int32
      /\ SubSeq(t, 1, m - Int32) = resp.base
      /\ SubSeq(t, m - Int32 + 1, m) = Chars(n, Int32)
      /\ SubSeq(t, m + 1, m + n) = resp.file
  BY <1>1, ResponseTyped, Zenon
<1>3. Int32 \in Nat \ {0} /\ n \in Nat /\ Words(2) = 2 * Int32 /\ Words(3) = 3 * Int32
  BY <1>2, CharSeqs DEF Words
<1>4. PICK y : y = (SubSeq(t, 1, Words(2)) \o Chars(len, Int32)) \o Rest(t)
  OBVIOUS
<1>5. /\ y \in Seq(CharSet) /\ Len(y) = Len(t)
      /\ \A k \in 1..Len(t) : k \notin Words(2) + 1..Words(3) => y[k] = t[k]
  <2>1. Len(t) >= Words(3)
    BY <1>2, <1>3
  <2> QED
    BY <1>2, <1>4, <2>1, BesideThirdWord
<1>6. t \in Seq(Int) /\ y \in Seq(Int)
  BY <1>2, <1>5, CharSeqs
<1>7. Len(t) \in Nat /\ Len(y) = m + n /\ Len(t) = m + n
  BY <1>2, <1>5
<1>8. \A k \in 3 * Int32 + 1..m + n : y[k] = t[k]
  <2>1. ASSUME NEW k \in 3 * Int32 + 1..m + n PROVE k \in 1..Len(t) /\ k \notin Words(2) + 1..Words(3)
    BY <1>2, <1>3, <1>7
  <2> QED
    BY <1>5, <2>1
<1>9. SubSeq(y, m - Int32 + 1, m) = Chars(n, Int32)
  <2>1. PICK i : i = m - Int32 + 1
    OBVIOUS
  <2>2. i \in Nat \ {0} /\ m \in Nat /\ m <= Len(y) /\ m <= Len(t) /\ i >= 3 * Int32 + 1 /\ m <= m + n
    BY <1>2, <1>3, <1>7, <2>1
  <2>3. \A k \in i..m : y[k] = t[k]
    BY <1>2, <1>3, <1>8, <2>2
  <2>4. SubSeq(y, i, m) = SubSeq(t, i, m)
    BY <1>6, <2>2, <2>3, SameParts
  <2> QED
    BY <1>2, <2>1, <2>4
<1>10. SubSeq(y, m + 1, m + n) = resp.file
  <2>1. PICK i, j : i = m + 1 /\ j = m + n
    OBVIOUS
  <2>2. i \in Nat \ {0} /\ j \in Nat /\ j <= Len(y) /\ j <= Len(t) /\ i >= 3 * Int32 + 1
    BY <1>2, <1>3, <1>7, <2>1
  <2>3. \A k \in i..j : y[k] = t[k]
    BY <1>2, <1>3, <1>8, <2>1, <2>2
  <2>4. SubSeq(y, i, j) = SubSeq(t, i, j)
    BY <1>6, <2>2, <2>3, SameParts
  <2> QED
    BY <1>2, <2>1, <2>4
<1>11. NumberOf(SubSeq(y, m - Int32 + 1, m)) = n
  <2>1. Int32 \in Nat
    BY <1>3
  <2>2. NumberOf(Chars(n, Int32)) = n
    BY <1>2, <2>1, NumberReadBack
  <2> QED
    BY <1>9, <2>2
<1>12. PICK read : read = ParserBufferToStruct(y)
  OBVIOUS
<1>13. read = IF m > Len(y) \/ Len(y) - m < n THEN [ret |-> "EC_ERROR"]
              ELSE [ret |-> "EC_SUCC", base |-> SubSeq(y, 1, m - Int32), file |-> SubSeq(y, m + 1, m + n)]
  BY <1>1, <1>11, <1>12, Zenon DEF ParserBufferToStruct
<1>14. ~(m > Len(y) \/ Len(y) - m < n)
  BY <1>2, <1>3, <1>7
<1>15. read = [ret |-> "EC_SUCC", base |-> SubSeq(y, 1, m - Int32), file |-> SubSeq(y, m + 1, m + n)]
  BY <1>13, <1>14, Zenon
<1>16. read.ret = "EC_SUCC" /\ read.file = resp.file /\ read.base = SubSeq(y, 1, m - Int32)
  BY <1>10, <1>15
<1>17. ASSUME NEW i \in 1..Len(resp.base), i \notin 2 * Int32 + 1..3 * Int32
       PROVE  read.base[i] = resp.base[i]
  <2>1. PICK k : k = m - Int32
    OBVIOUS
  <2>2. k \in 0..Len(t) /\ k \in 0..Len(y) /\ i \in 1..k /\ i \in 1..Len(t)
    BY <1>2, <1>3, <1>7, <2>1
  <2>3. SubSeq(y, 1, k)[i] = y[i] /\ SubSeq(t, 1, k)[i] = t[i]
    BY <1>6, <2>2, Cut
  <2>4. y[i] = t[i]
    BY <1>3, <1>5, <1>17, <2>2
  <2> QED
    BY <1>2, <1>16, <2>1, <2>3, <2>4
<1>18. ReadAs(read, resp)
  BY <1>16, <1>17 DEF ReadAs
<1> QED
  BY <1>1, <1>4, <1>12, <1>18

AnswerBody(resp, key) == AesEncryptWithKnownKey(XlAesEncrypt(ResponseText(resp)).out, key).out

(* The answer is opened with the key of the query.                         *)
LEMMA AnswerOpens ==
    ASSUME CipherInverts, NEW resp \in Responses, NEW key \in Keys
    PROVE  LET body   == AnswerBody(resp, key)
               opened == AesDecryptWithKnownKey(body, key, 0)
               inner  == XlAesDecrypt(opened.out, 0)
           IN /\ body \in Seq(CharSet) /\ Len(body) \in Unsigned(Int32) /\ Len(body) >= Int32
              /\ opened.ret = "SUCCESS" /\ inner.ret = "SUCCESS"
              /\ ReadAs(ParserBufferToStruct(inner.out), resp)
<1>1. PICK t, n : t = ResponseText(resp) /\ n = Len(t) - Shell
  OBVIOUS
<1>2. PICK x, body : x = XlAesEncrypt(t).out /\ body = AesEncryptWithKnownKey(x, key).out
  OBVIOUS
<1>3. /\ t \in Seq(CharSet) /\ Len(t) \in Nat /\ Len(t) >= 3 * Int32
      /\ Len(t) + 2 * BlockSize < Power(Int32)
  <2>1. PICK f, m, w : f = Len(resp.file) /\ m = RespBaseLen /\ w = Len(t)
    OBVIOUS
  <2>2. /\ t \in Seq(CharSet) /\ w = m + f /\ m \in Nat /\ m > 4 * Int32
        /\ f \in 0..Power(Int32) - 1 /\ w + 2 * BlockSize < Power(Int32)
    BY <1>1, <2>1, ResponseTyped, Zenon
  <2>3. w \in Nat /\ w >= 3 * Int32
    BY <2>2, CharSeqs
  <2> QED
    BY <2>1, <2>2, <2>3
<1>4. /\ Int32 \in Nat \ {0} /\ Words(2) = 2 * Int32 /\ Words(3) = 3 * Int32 /\ Shell = 3 * Int32
      /\ Len(t) >= Words(3) /\ n \in Nat /\ Len(t) = Shell + n /\ BlockSize \in Nat
      /\ Power(Int32) \in Nat /\ Words(2) \in 0..Len(t) /\ t \in Seq(Int)
  BY <1>1, <1>3, CharSeqs, BlockSizeAssumption DEF Words, Shell
<1>5. PICK sealed, len : sealed = Encrypted(Rest(t), PacketKey(t)) /\ len = Len(sealed)
  OBVIOUS
<1>6. PICK y : y = (SubSeq(t, 1, Words(2)) \o Chars(len, Int32)) \o Rest(t)
  OBVIOUS
<1>7. /\ x \in Seq(CharSet) /\ XlAesDecrypt(x, 0) = Result("SUCCESS", y)
      /\ Rest(t) \in Seq(CharSet) /\ len = Len(Rest(t)) + PadLen(Len(Rest(t)))
  BY <1>2, <1>3, <1>4, <1>5, <1>6, PacketOpens, Zenon
<1>8. len \in Nat
  <2>1. Len(Rest(t)) \in Nat
    BY <1>7
  <2> QED
    BY <1>7, <2>1, PadIs
<1>9. Len(x) = Shell + Rounded(n) /\ Rounded(n) = n + PadLen(n) /\ PadLen(n) \in 1..BlockSize
  <2>1. SubSeq(t, 1, Words(2)) \in Seq(CharSet)
    BY <1>3, <1>4, Cut
  <2>2. Len(x) = Shell + Rounded(n)
    BY <1>2, <1>4, <2>1, SealedTyped
  <2> QED
    BY <1>4, <2>2, PadIs DEF Rounded
<1>10. PICK m : m = Len(x)
  OBVIOUS
<1>11. m \in Nat /\ m <= Len(t) + BlockSize /\ m >= Int32
  <2>1. PICK l, p, r : l = Len(t) /\ p = PadLen(n) /\ r = Rounded(n)
    OBVIOUS
  <2>2. /\ Int32 \in Nat \ {0} /\ Shell = 3 * Int32 /\ n \in Nat /\ BlockSize \in Nat /\ l = Shell + n
        /\ m = Shell + r /\ r = n + p /\ p \in 1..BlockSize
    BY <1>4, <1>9, <1>10, <2>1, Zenon
  <2>3. m \in Nat /\ m <= l + BlockSize /\ m >= Int32
    BY <2>2
  <2> QED
    BY <2>1, <2>3, Zenon
<1>12. body \in Seq(CharSet) /\ Len(body) = m + PadLen(m)
  <2>1. body = Encrypted(x, key) /\ x \in Seq(Int)
    BY <1>2, <1>7, CharSeqs DEF AesEncryptWithKnownKey, Result
  <2> QED
    BY <1>10, <2>1, EncryptedTyped
<1>13. PadLen(m) \in 1..BlockSize
  BY <1>11, PadIs
<1>14. Len(body) \in Nat /\ Len(body) >= Int32 /\ Len(body) < Power(Int32)
  <2>1. PICK l, p, k, w : l = Len(t) /\ p = PadLen(m) /\ k = Len(body) /\ w = Power(Int32)
    OBVIOUS
  <2>2. /\ Int32 \in Nat \ {0} /\ BlockSize \in Nat /\ l \in Nat /\ w \in Nat
        /\ l + 2 * BlockSize < w /\ m \in Nat /\ m <= l + BlockSize /\ m >= Int32
        /\ p \in 1..BlockSize /\ k = m + p
    BY <1>3, <1>4, <1>11, <1>12, <1>13, <2>1, Zenon
  <2>3. k \in Nat /\ k >= Int32 /\ k < w
    BY <2>2
  <2> QED
    BY <2>1, <2>3, Zenon
<1>15. Len(body) \in Unsigned(Int32)
  BY <1>4, <1>14 DEF Unsigned
<1>16. AesDecryptWithKnownKey(body, key, 0) = Result("SUCCESS", x)
  BY <1>2, <1>7, KnownKeyOpens, Zenon
<1>17. AesDecryptWithKnownKey(body, key, 0).ret = "SUCCESS" /\ AesDecryptWithKnownKey(body, key, 0).out = x
  BY <1>16 DEF Result
<1>18. XlAesDecrypt(x, 0).ret = "SUCCESS" /\ XlAesDecrypt(x, 0).out = y
  BY <1>7 DEF Result
<1>19. ReadAs(ParserBufferToStruct(y), resp)
  BY <1>1, <1>6, <1>8, ResponseReads
<1>20. body = AnswerBody(resp, key)
  BY <1>1, <1>2, Zenon DEF AnswerBody
<1> QED
  BY <1>12, <1>14, <1>15, <1>17, <1>18, <1>19, <1>20

(* The length before the answer is read.                                   *)
LEMMA LengthReads ==
    ASSUME NEW v \in Unsigned(Int32), NEW r \in Seq(Int)
    PROVE  LET text == NumberThen(v, Int32, r)
               len  == GetFromLt(Cursor(text, Len(text)), Int32)
           IN len.ret = "OK" /\ len.value = v /\ len.c.left = Len(r)
<1>1. PICK text, c : text = NumberThen(v, Int32, r) /\ c = Cursor(text, Len(text))
  OBVIOUS
<1>2. text \in Seq(Int)
  <2>1. v \in Nat /\ Int32 \in Nat
    BY CharSeqs
  <2>2. NumberThen(v, Int32, r) \in Seq(Int)
    BY <2>1, NumberThenTyped
  <2> QED
    BY <1>1, <2>2
<1>3. ToRead(c, text)
  BY <1>1, <1>2, StartsToRead
<1>4. ToRead(c, Chars(v, Int32) \o r)
  BY <1>1, <1>3, Zenon DEF NumberThen
<1>5. Int32 \in Nat
  BY CharSeqs
<1> QED
  BY <1>1, <1>4, <1>5, PopValueReads

(* What is left of an answer of which n chars were lost.                   *)
LEMMA CutAnswer ==
    ASSUME NEW v \in Nat, NEW b \in Seq(CharSet), NEW n \in 0..Len(b)
    PROVE  LET whole == NumberThen(v, Int32, b)
           IN SubSeq(whole, 1, Len(whole) - n) = NumberThen(v, Int32, SubSeq(b, 1, Len(b) - n))
<1>1. PICK w, k, r : w = Chars(v, Int32) /\ k = Len(b) - n /\ r = SubSeq(b, 1, k)
  OBVIOUS
<1>2. w \in Seq(Int) /\ Len(w) = Int32 /\ Int32 \in Nat /\ b \in Seq(Int) /\ Len(b) \in Nat
  <2>1. Int32 \in Nat
    BY CharSeqs
  <2> QED
    BY <1>1, <2>1, CharsTyped, CharSeqs
<1>3. k \in 0..Len(b)
  BY <1>1, <1>2
<1>4. r \in Seq(Int) /\ Len(r) = k /\ \A i \in 1..k : r[i] = b[i]
  BY <1>1, <1>2, <1>3, Cut
<1>5. PICK whole, short : whole = w \o b /\ short = w \o r
  OBVIOUS
<1>6. /\ whole \in Seq(Int) /\ Len(whole) = Int32 + Len(b)
      /\ \A i \in 1..Int32 : whole[i] = w[i]
      /\ \A i \in Int32 + 1..Int32 + Len(b) : whole[i] = b[i - Int32]
  <2>1. /\ w \o b \in Seq(Int) /\ Len(w \o b) = Len(w) + Len(b)
        /\ \A i \in 1..Len(w) : (w \o b)[i] = w[i]
        /\ \A i \in Len(w) + 1..Len(w) + Len(b) : (w \o b)[i] = b[i - Len(w)]
    BY <1>2, Joins
  <2> QED
    BY <1>2, <1>5, <2>1
<1>7. /\ short \in Seq(Int) /\ Len(short) = Int32 + k
      /\ \A i \in 1..Int32 : short[i] = w[i]
      /\ \A i \in Int32 + 1..Int32 + k : short[i] = r[i - Int32]
  <2>1. /\ w \o r \in Seq(Int) /\ Len(w \o r) = Len(w) + Len(r)
        /\ \A i \in 1..Len(w) : (w \o r)[i] = w[i]
        /\ \A i \in Len(w) + 1..Len(w) + Len(r) : (w \o r)[i] = r[i - Len(w)]
    BY <1>2, <1>4, Joins
  <2> QED
    BY <1>2, <1>4, <1>5, <2>1
<1>8. PICK m : m = Int32 + k
  OBVIOUS
<1>9. m \in Nat /\ m <= Len(whole) /\ m <= Len(short) /\ m = Len(whole) - n /\ m = Len(short)
  BY <1>1, <1>2, <1>3, <1>6, <1>7, <1>8
<1>10. ASSUME NEW i \in 1..m PROVE whole[i] = short[i]
  <2>1. CASE i \in 1..Int32
    BY <1>6, <1>7, <2>1
  <2>2. CASE i \in Int32 + 1..Int32 + k
    <3>1. i \in Int32 + 1..Int32 + Len(b) /\ i - Int32 \in 1..k
      BY <1>2, <1>3, <2>2
    <3> QED
      BY <1>4, <1>6, <1>7, <2>2, <3>1, Zenon
  <2> QED
    BY <1>2, <1>3, <1>8, <2>1, <2>2
<1>11. SubSeq(whole, 1, m) = SubSeq(short, 1, m)
  BY <1>6, <1>7, <1>9, <1>10, SameParts
<1>12. SubSeq(short, 1, m) = short
  BY <1>7, <1>9, WholePart
<1> QED
  BY <1>1, <1>5, <1>9, <1>11, <1>12 DEF NumberThen

(* decode_query_result reads the response of a whole answer with the key   *)
(* of its query, and refuses one that lost up to four chars.               *)
THEOREM AnswerDecodes ==
    ASSUME CipherInverts, NEW packet, NEW resp \in Responses, NEW key \in Keys, KeyIn(packet) = key,
           NEW n \in 0..Int32
    PROVE  LET whole == ServerAnswers(packet, resp)
               read  == DecodeQueryResult(SubSeq(whole, 1, Len(whole) - n), key, 0)
           IN IF n > 0 THEN read.ret # "EC_SUCC" ELSE ReadAs(read, resp)
<1>1. PICK body, whole, k : /\ body = AnswerBody(resp, key) /\ whole = ServerAnswers(packet, resp)
                            /\ k = Len(body)
  OBVIOUS
<1>2. PICK text : text = SubSeq(whole, 1, Len(whole) - n)
  OBVIOUS
<1>3. PICK opened : opened = AesDecryptWithKnownKey(body, key, 0)
  OBVIOUS
<1>4. PICK inner : inner = XlAesDecrypt(opened.out, 0)
  OBVIOUS
<1>5. /\ body \in Seq(CharSet) /\ k \in Unsigned(Int32) /\ k >= Int32
      /\ opened.ret = "SUCCESS" /\ inner.ret = "SUCCESS"
      /\ ReadAs(ParserBufferToStruct(inner.out), resp)
  BY <1>1, <1>3, <1>4, AnswerOpens, Zenon
<1>6. Int32 \in Nat \ {0} /\ k \in Nat /\ n \in Nat /\ n <= k /\ n \in 0..Len(body)
  BY <1>1, <1>5, CharSeqs
<1>7. whole = NumberThen(k, Int32, body)
  BY <1>1, Zenon DEF ServerAnswers, AnswerBody, NumberThen
<1>8. PICK r : r = SubSeq(body, 1, k - n)
  OBVIOUS
<1>9. r \in Seq(Int) /\ Len(r) = k - n
  <2>1. body \in Seq(Int) /\ k - n \in 0..Len(body)
    BY <1>1, <1>5, <1>6, CharSeqs
  <2> QED
    BY <1>8, <2>1, Cut
<1>10. text = NumberThen(k, Int32, r)
  <2>1. k \in Nat /\ body \in Seq(CharSet) /\ n \in 0..Len(body)
    BY <1>5, <1>6
  <2>2. LET z == NumberThen(k, Int32, body)
        IN SubSeq(z, 1, Len(z) - n) = NumberThen(k, Int32, SubSeq(body, 1, Len(body) - n))
    BY <2>1, CutAnswer
  <2> QED
    BY <1>1, <1>2, <1>7, <1>8, <2>2, Zenon
<1>11. PICK len : len = GetFromLt(Cursor(text, Len(text)), Int32)
  OBVIOUS
<1>12. len.ret = "OK" /\ len.value = k /\ len.c.left = k - n
  BY <1>5, <1>9, <1>10, <1>11, LengthReads
<1>13. PICK got : got = AesDecryptWithKnownKey(SubSeq(text, Int32 + 1, Int32 + k), key, 0)
  OBVIOUS
<1>14. PICK plain : plain = XlAesDecrypt(got.out, 0)
  OBVIOUS
<1>15. PICK read : read = DecodeQueryResult(text, key, 0)
  OBVIOUS
<1>16. read = IF k > k - n THEN [ret |-> "EC_DECODE_BODY_LEN_ERROR"]
              ELSE IF got.ret # "SUCCESS" THEN [ret |-> "EC_AES_DECRYPT_WITH_KEY"]
              ELSE IF plain.ret # "SUCCESS" THEN [ret |-> "EC_AES_DECRYPT"]
              ELSE IF ParserBufferToStruct(plain.out).ret # "EC_SUCC" THEN [ret |-> "EC_PARSER_BUF_TO_STRUCT"]
              ELSE ParserBufferToStruct(plain.out)
  <2>1. (IF len.ret = "OK" THEN len.value ELSE 0) = k
    BY <1>12
  <2> QED
    BY <1>11, <1>12, <1>13, <1>14, <1>15, <2>1, Zenon DEF DecodeQueryResult
<1>17. CASE n > 0
  <2>1. k > k - n
    BY <1>6, <1>17
  <2>2. read = [ret |-> "EC_DECODE_BODY_LEN_ERROR"]
    BY <1>16, <2>1, Zenon
  <2>3. read.ret # "EC_SUCC"
    BY <2>2
  <2> QED
    BY <1>1, <1>2, <1>15, <1>17, <2>3
<1>18. CASE n = 0
  <2>1. ~(k > k - n) /\ ~(n > 0) /\ k - n = k
    BY <1>6, <1>18
  <2>2. r = body
    <3>1. body \in Seq(Int)
      BY <1>5, CharSeqs
    <3> QED
      BY <1>1, <1>8, <2>1, <3>1, WholePart
  <2>3. SubSeq(text, Int32 + 1, Int32 + k) = body
    <3>1. PICK w : w = Chars(k, Int32)
      OBVIOUS
    <3>2. w \in Seq(CharSet) /\ Len(w) = Int32 /\ body \in Seq(CharSet)
      BY <1>5, <1>6, <3>1, CharsTyped
    <3>3. SubSeq(w \o body, Len(w) + 1, Len(w) + Len(body)) = body
      BY <3>2, Appended
    <3> QED
      BY <1>1, <1>10, <2>2, <3>1, <3>2, <3>3 DEF NumberThen
  <2>4. got = opened
    BY <1>3, <1>13, <2>3
  <2>5. plain = inner
    BY <1>4, <1>14, <2>4
  <2>6. ParserBufferToStruct(inner.out).ret = "EC_SUCC"
    BY <1>5, Zenon DEF ReadAs
  <2>7. read = ParserBufferToStruct(inner.out)
    BY <1>5, <1>16, <2>1, <2>4, <2>5, <2>6, Zenon
  <2> QED
    BY <1>1, <1>2, <1>5, <1>15, <2>1, <2>7, Zenon
<1> QED
  BY <1>6, <1>17, <1>18

-----------------------------------------------------------------------------
(* The client with its server.  Sent says of each query that the server    *)
(* would read it; Answered says of each answer what it is the answer to.   *)

Sent == [params : Queries, packet : Seq(CharSet), over : {0}]
Answered(a) ==
    LET whole == ServerAnswers(sent[a.to].packet, a.resp)
    IN /\ a.to \in 1..Len(sent) /\ a.resp \in Responses /\ a.cut \in 0..Int32
       /\ a.text = SubSeq(whole, 1, Len(whole) - a.cut)

ClientInv ==
    /\ sent \in Seq(Sent)
    /\ \A i \in 1..Len(sent) : KeyIn(sent[i].packet) \in Keys
    /\ sent # <<>> => userDataAesKey = KeyIn(sent[Len(sent)].packet)
    /\ \A a \in answers : Answered(a)
    /\ QueriesAnswered

(* encode_query_params keeps the invariant.                                *)
LEMMA EncodeKeeps ==
    ASSUME CipherInverts, RsaInverts, ClientInv, NEW q \in Queries, NEW ptr \in Pointers, Encode(q, ptr)
    PROVE  ClientInv'
<1>1. PICK r : r = EncodeQueryParams(q, ptr)
  OBVIOUS
<1>2. Encoded(q, r) /\ answers' = answers
  BY <1>1, Zenon DEF Encode
<1>3. /\ sent \in Seq(Sent) /\ \A i \in 1..Len(sent) : KeyIn(sent[i].packet) \in Keys
      /\ sent # <<>> => userDataAesKey = KeyIn(sent[Len(sent)].packet)
      /\ \A a \in answers : Answered(a)
  BY Zenon DEF ClientInv
<1>4. returned' = [call |-> "encode", ret |-> r.ret]
  BY <1>2 DEF Encoded
<1>5. returned'.call = "encode" /\ returned'.ret = r.ret /\ LastAnswerIsRead'
  BY <1>4 DEF LastAnswerIsRead
<1>6. CASE r.ret # "EC_SUCC"
  <2>1. UNCHANGED <<userDataAesKey, sent>>
    BY <1>2, <1>6 DEF Encoded
  <2>2. QueriesOpen'
    BY <1>5, <1>6 DEF QueriesOpen
  <2> QED
    BY <1>2, <1>3, <1>5, <2>1, <2>2 DEF ClientInv, Answered, QueriesAnswered
<1>7. CASE r.ret = "EC_SUCC"
  <2>1. /\ r.key \in Keys /\ r.over = 0 /\ r.packet \in Seq(CharSet) /\ KeyIn(r.packet) = r.key
        /\ Fits(q) => ServerReads(r.packet).ret = "SUCCESS" /\ Carries(ServerReads(r.packet).out, q)
    BY <1>1, <1>7, QueryEncoded, Zenon
  <2>2. PICK new : new = [params |-> q, packet |-> r.packet, over |-> r.over]
    OBVIOUS
  <2>3. new \in Sent /\ new.params = q /\ new.packet = r.packet /\ new.over = 0
    BY <2>1, <2>2 DEF Sent
  <2>4. userDataAesKey' = r.key /\ sent' = Append(sent, new)
    BY <1>2, <1>7, <2>2 DEF Encoded
  <2>5. PICK n : n = Len(sent)
    OBVIOUS
  <2>6. /\ n \in Nat /\ sent' \in Seq(Sent) /\ Len(sent') = n + 1 /\ sent'[n + 1] = new
        /\ \A i \in 1..n : sent'[i] = sent[i]
    BY <1>3, <2>3, <2>4, <2>5
  <2>7. ASSUME NEW i \in 1..n + 1 PROVE KeyIn(sent'[i].packet) \in Keys
    <3>1. CASE i = n + 1
      BY <2>1, <2>3, <2>6, <3>1, Zenon
    <3>2. CASE i \in 1..n
      BY <1>3, <2>5, <2>6, <3>2, Zenon
    <3> QED
      BY <2>6, <3>1, <3>2
  <2>8. userDataAesKey' = KeyIn(sent'[Len(sent')].packet)
    BY <2>1, <2>3, <2>4, <2>6, Zenon
  <2>9. ASSUME NEW a \in answers PROVE Answered(a)'
    <3>1. /\ a.to \in 1..n /\ a.resp \in Responses /\ a.cut \in 0..Int32
          /\ LET whole == ServerAnswers(sent[a.to].packet, a.resp)
             IN a.text = SubSeq(whole, 1, Len(whole) - a.cut)
      BY <1>3, <2>5, Zenon DEF Answered
    <3>2. sent'[a.to] = sent[a.to] /\ a.to \in 1..n + 1
      BY <2>6, <3>1
    <3> QED
      BY <2>6, <3>1, <3>2, Zenon DEF Answered
  <2>10. QueriesOpen'
    <3>1. PICK query : query = sent'[Len(sent')]
      OBVIOUS
    <3>2. query.over = 0 /\ query.params = q /\ query.packet = r.packet
      BY <2>3, <2>6, <3>1, Zenon
    <3>3. Fits(query.params) =>
            ServerReads(query.packet).ret = "SUCCESS" /\ Carries(ServerReads(query.packet).out, query.params)
      BY <2>1, <3>2, Zenon
    <3> QED
      BY <3>1, <3>2, <3>3, Zenon DEF QueriesOpen
  <2> QED
    BY <1>2, <1>5, <2>6, <2>7, <2>8, <2>9, <2>10, Zenon DEF ClientInv, QueriesAnswered
<1> QED
  BY <1>6, <1>7

(* So does the server.                                                     *)
LEMMA AnswerKeeps ==
    ASSUME ClientInv, NEW i \in 1..Len(sent), NEW resp \in Responses, NEW n \in 0..Int32,
           Answer(i, resp, n)
    PROVE  ClientInv'
<1>1. PICK whole : whole = ServerAnswers(sent[i].packet, resp)
  OBVIOUS
<1>2. PICK new : new = [to |-> i, resp |-> resp, cut |-> n, text |-> SubSeq(whole, 1, Len(whole) - n)]
  OBVIOUS
<1>3. /\ answers' = {new} /\ returned' = NoCall
      /\ userDataAesKey' = userDataAesKey /\ sent' = sent
  BY <1>1, <1>2, Zenon DEF Answer
<1>4. new.to = i /\ new.resp = resp /\ new.cut = n /\ new.text = SubSeq(whole, 1, Len(whole) - n)
  BY <1>2
<1>5. Answered(new)'
  BY <1>1, <1>3, <1>4, Zenon DEF Answered
<1>6. QueriesAnswered'
  <2>1. returned'.call = "none"
    BY <1>3 DEF NoCall
  <2> QED
    BY <2>1 DEF QueriesAnswered, QueriesOpen, LastAnswerIsRead
<1>7. /\ sent \in Seq(Sent) /\ \A j \in 1..Len(sent) : KeyIn(sent[j].packet) \in Keys
      /\ sent # <<>> => userDataAesKey = KeyIn(sent[Len(sent)].packet)
  BY Zenon DEF ClientInv
<1>8. \A a \in answers' : Answered(a)'
  BY <1>3, <1>5, Zenon
<1> QED
  BY <1>3, <1>6, <1>7, <1>8, Zenon DEF ClientInv

(* And decode_query_result.                                                *)
LEMMA DecodeKeeps ==
    ASSUME CipherInverts, ClientInv, NEW a \in answers, Decode(a)
    PROVE  ClientInv'
<1>1. /\ sent \in Seq(Sent) /\ \A i \in 1..Len(sent) : KeyIn(sent[i].packet) \in Keys
      /\ sent # <<>> => userDataAesKey = KeyIn(sent[Len(sent)].packet)
      /\ \A b \in answers : Answered(b)
  BY Zenon DEF ClientInv
<1>2. PICK read : read = DecodeQueryResult(a.text, userDataAesKey, 0)
  OBVIOUS
<1>3. /\ answers' = answers \ {a} /\ userDataAesKey' = userDataAesKey /\ sent' = sent
      /\ returned' = [call |-> "decode", to |-> a.to, of |-> Len(sent), resp |-> a.resp,
                      cut |-> a.cut, read |-> read]
  BY <1>2, Zenon DEF Decode
<1>4. /\ returned'.call = "decode" /\ returned'.to = a.to /\ returned'.of = Len(sent)
      /\ returned'.resp = a.resp /\ returned'.cut = a.cut /\ returned'.read = read
  BY <1>3
<1>5. ASSUME a.to = Len(sent)
      PROVE  IF a.cut > 0 THEN read.ret # "EC_SUCC" ELSE ReadAs(read, a.resp)
  <2>1. PICK packet, key : packet = sent[a.to].packet /\ key = KeyIn(packet)
    OBVIOUS
  <2>2. PICK whole : whole = ServerAnswers(packet, a.resp)
    OBVIOUS
  <2>3. /\ a.to \in 1..Len(sent) /\ a.resp \in Responses /\ a.cut \in 0..Int32
        /\ a.text = SubSeq(whole, 1, Len(whole) - a.cut)
    BY <1>1, <2>1, <2>2, Zenon DEF Answered
  <2>4. key \in Keys
    BY <1>1, <2>1, <2>3, Zenon
  <2>5. userDataAesKey = key
    <3>1. sent # <<>>
      BY <1>1, <2>3
    <3> QED
      BY <1>1, <1>5, <2>1, <3>1, Zenon
  <2>6. PICK resp, n : resp = a.resp /\ n = a.cut
    OBVIOUS
  <2>7. resp \in Responses /\ n \in 0..Int32
    BY <2>3, <2>6
  <2>8. IF n > 0 THEN DecodeQueryResult(SubSeq(whole, 1, Len(whole) - n), key, 0).ret # "EC_SUCC"
        ELSE ReadAs(DecodeQueryResult(SubSeq(whole, 1, Len(whole) - n), key, 0), resp)
    <3>1. /\ whole = ServerAnswers(packet, resp) /\ KeyIn(packet) = key /\ key \in Keys
      BY <2>1, <2>2, <2>4, <2>6
    <3> QED
      BY <2>7, <3>1, AnswerDecodes
  <2>9. read = DecodeQueryResult(SubSeq(whole, 1, Len(whole) - n), key, 0)
    BY <1>2, <2>3, <2>5, <2>6
  <2> QED
    BY <2>6, <2>8, <2>9
<1>6. LastAnswerIsRead'
  <2>1. ASSUME a.to = Len(sent), a.cut > 0 PROVE read.ret # "EC_SUCC"
    BY <1>5, <2>1
  <2>2. ASSUME a.to = Len(sent), ~(a.cut > 0)
        PROVE  /\ read.ret = "EC_SUCC" /\ read.file = a.resp.file
               /\ \A i \in (1..Len(a.resp.base)) \ (2 * Int32 + 1..3 * Int32) :
                     read.base[i] = a.resp.base[i]
    BY <1>5, <2>2 DEF ReadAs
  <2> QED
    BY <1>4, <2>1, <2>2, Zenon DEF LastAnswerIsRead
<1>7. QueriesOpen'
  BY <1>4 DEF QueriesOpen
<1>8. \A b \in answers' : Answered(b)'
  BY <1>1, <1>3, Zenon DEF Answered
<1> QED
  BY <1>1, <1>3, <1>6, <1>7, <1>8, Zenon DEF ClientInv, QueriesAnswered

THEOREM AnswersAreRead ==
    ASSUME CipherInverts, RsaInverts
    PROVE  QuerySpec => []QueriesAnswered
<1>1. QueryInit => ClientInv
  <2> SUFFICES ASSUME QueryInit PROVE ClientInv
    OBVIOUS
  <2>1. sent = <<>> /\ answers = {} /\ returned.call = "none"
    BY DEF QueryInit, NoCall
  <2>2. sent \in Seq(Sent) /\ Len(sent) = 0
    BY <2>1
  <2>3. QueriesAnswered
    BY <2>1 DEF QueriesAnswered, QueriesOpen, LastAnswerIsRead
  <2> QED
    BY <2>1, <2>2, <2>3 DEF ClientInv
<1>2. ClientInv /\ [QueryNext]_clientVars => ClientInv'
  <2> SUFFICES ASSUME ClientInv, [QueryNext]_clientVars PROVE ClientInv'
    OBVIOUS
  <2>1. ASSUME NEW q \in Queries, NEW ptr \in Pointers, Encode(q, ptr) PROVE ClientInv'
    BY <2>1, EncodeKeeps
  <2>2. ASSUME NEW i \in 1..Len(sent), NEW resp \in Responses, NEW n \in 0..Int32, Answer(i, resp, n)
        PROVE  ClientInv'
    BY <2>2, AnswerKeeps
  <2>3. ASSUME NEW a \in answers, Decode(a) PROVE ClientInv'
    BY <2>3, DecodeKeeps
  <2>4. CASE UNCHANGED clientVars
    BY <2>4 DEF ClientInv, clientVars, Answered, QueriesAnswered, QueriesOpen, LastAnswerIsRead
  <2> QED
    BY <2>1, <2>2, <2>3, <2>4, Zenon DEF QueryNext
<1>3. ClientInv => QueriesAnswered
  BY DEF ClientInv
<1> QED
  BY <1>1, <1>2, <1>3, PTL DEF QuerySpec
=============================================================================
