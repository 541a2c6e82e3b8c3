--------------------------------- MODULE Rsa ---------------------------------
(***************************************************************************)
(* src/libbtpool/utility/rsa.c over the numbers of BigNum: keys, the two   *)
(* operations and the padding of PKCS#1 v1.5.  A key is the record of the  *)
(* numbers of rsa_context; the cached squares RN, RP, RQ are the argument  *)
(* RR of ExpMod and change no result.  Bytes have CharBits bits, and the   *)
(* lengths the code writes as numbers are constants.  Exponents are odd.   *)
(***************************************************************************)
EXTENDS BigNumMod

CONSTANTS
    MinKeyBits, MaxKeyBits,  \* 128 and 4096
    MinLen, MaxLen,          \* 16 and 512: bytes of a message that is decrypted
    MinPad,                  \* 8: bytes of padding
    MdxHead, MdxAt,          \* ASN1_HASH_MDX and where it names the hash
    ShaHead,                 \* ASN1_HASH_SHA1
    MdxLen, ShaLen           \* 16 and 20: bytes of a digest

Key == {"N", "E", "D", "P", "Q", "DP", "DQ", "QP"}
RsaInit == [f \in Key |-> MpiInit]

KeyLen(ctx) == SizeInChars(ctx.N)

(* rsa_gen_key: raw[1], raw[2], ... are the numbers mpi_gen_prime starts   *)
(* from.  A pair that is equal, or whose product is too short, or that     *)
(* does not suit the exponent is thrown away.                              *)
GenKey(nbits, exponent, raw, rand) ==
    LET half == (nbits + 1) \div 2
        E == IntMpi(exponent)
        less1(X) == SubInt(MpiInit, X, 1)
        RECURSIVE From(_)
        From(i) ==
          LET a == GenPrime(half, FALSE, raw[i], rand).X
              b == GenPrime(half, FALSE, raw[i + 1], rand).X
              pair == IF CmpMpi(a, b) < 0 THEN Swap(a, b) ELSE <<a, b>>
              P == pair[1]
              Q == pair[2]
              N == MulMpi(MpiInit, P, Q)
              H == MulMpi(MpiInit, less1(P), less1(Q))
          IN IF CmpMpi(P, Q) # 0 /\ Msb(N) = nbits /\ CmpInt(Gcd(E, H), 1) = 0
             THEN [P |-> P, Q |-> Q, N |-> N, H |-> H]
             ELSE From(i + 2)
        k == From(1)
        D == InvMod(MpiInit, E, k.H).X
    IN IF nbits < MinKeyBits \/ exponent < 3 THEN [ret |-> "BAD_INPUT_DATA", key |-> RsaInit]
       ELSE [ret |-> Ok,
             key |-> [N |-> k.N, E |-> E, D |-> D, P |-> k.P, Q |-> k.Q,
                      DP |-> ModMpi(MpiInit, D, less1(k.P), "").X, DQ |-> ModMpi(MpiInit, D, less1(k.Q), "").X,
                      QP |-> InvMod(MpiInit, k.Q, k.P).X]]

CheckPubKey(ctx) ==
    IF /\ Limb(ctx.N, 0) % 2 = 1 /\ Limb(ctx.E, 0) % 2 = 1
       /\ Msb(ctx.N) \in MinKeyBits..MaxKeyBits
       /\ Msb(ctx.E) \in 2..64
    THEN Ok ELSE "KEY_CHECK_FAILED"

CheckPrivKey(ctx) ==
    LET H == MulMpi(MpiInit, SubInt(MpiInit, ctx.P, 1), SubInt(MpiInit, ctx.Q, 1))
        DE == MulMpi(MpiInit, ctx.D, ctx.E)
    IN IF /\ CheckPubKey(ctx) = Ok
          /\ CmpMpi(MulMpi(MpiInit, ctx.P, ctx.Q), ctx.N) = 0
          /\ CmpInt(ModMpi(MpiInit, DE, H, "").X, 1) = 0
          /\ CmpInt(Gcd(ctx.E, H), 1) = 0
       THEN Ok ELSE "KEY_CHECK_FAILED"

-----------------------------------------------------------------------------
(* The two operations, on as many bytes as the key has.                    *)

Output(ctx, T) == [ret |-> Ok, out |-> WriteBinary(T, KeyLen(ctx)).buf]
Failed(code) == [ret |-> code, out |-> <<>>]

Public(ctx, input) ==
    LET T == ReadBinary(MpiInit, input)
    IN IF CmpMpi(T, ctx.N) >= 0 THEN Failed("BAD_INPUT_DATA")
       ELSE Output(ctx, ExpMod(T, T, ctx.E, ctx.N, MpiInit).X)

(* Mutant of Private: Q^-1 modulo P is left out of the recombination. *)
PrivateNoInverse(ctx, input) ==
    LET T == ReadBinary(MpiInit, input)
        T1 == ExpMod(MpiInit, T, ctx.DP, ctx.P, MpiInit).X
        T2 == ExpMod(MpiInit, T, ctx.DQ, ctx.Q, MpiInit).X
        diff == SubMpi(T, T1, T2)
        h == ModMpi(T1, diff, ctx.P, "").X
    IN IF CmpMpi(T, ctx.N) >= 0 THEN Failed("BAD_INPUT_DATA")
       ELSE Output(ctx, AddMpi(h, T2, MulMpi(diff, h, ctx.Q)))

(* Modulo P and modulo Q, then put together. *)
Private(ctx, input) ==
    LET T == ReadBinary(MpiInit, input)
        T1 == ExpMod(MpiInit, T, ctx.DP, ctx.P, MpiInit).X
        T2 == ExpMod(MpiInit, T, ctx.DQ, ctx.Q, MpiInit).X
        diff == SubMpi(T, T1, T2)
        prod == MulMpi(T1, diff, ctx.QP)
        h == ModMpi(diff, prod, ctx.P, "").X
    IN IF CmpMpi(T, ctx.N) >= 0 THEN Failed("BAD_INPUT_DATA")
       ELSE Output(ctx, AddMpi(h, T2, MulMpi(prod, h, ctx.Q)))

Operation(ctx, mode, input) == IF mode = "PUBLIC" THEN Public(ctx, input) ELSE Private(ctx, input)

-----------------------------------------------------------------------------
(* PKCS#1 v1.5.                                                            *)

SIGN == 1
CRYPT == 2
Full == 2 ^ CharBits - 1

(* pad is what rand gives: as many bytes as are needed, none of them 0.    *)
Pkcs1Encrypt(ctx, mode, msg, pad) ==
    LET nb == KeyLen(ctx) - 3 - Len(msg)
    IN IF KeyLen(ctx) < Len(msg) + 3 + MinPad THEN Failed("BAD_INPUT_DATA")
       ELSE Operation(ctx, mode, <<0, CRYPT>> \o SubSeq(pad, 1, nb) \o <<0>> \o msg)

(* The place of the first 0 after the two leading bytes, or 0 if there is  *)
(* none.                                                                   *)
PadEnd(buf) ==
    LET zeros == {i \in 3..Len(buf) : buf[i] = 0}
    IN IF zeros = {} THEN 0 ELSE Min(zeros)

Pkcs1Decrypt(ctx, mode, input) ==
    LET r == Operation(ctx, mode, input)
        at == PadEnd(r.out)
    IN IF KeyLen(ctx) \notin MinLen..MaxLen THEN Failed("BAD_INPUT_DATA")
       ELSE IF r.ret # Ok THEN r
       ELSE IF r.out[1] # 0 \/ r.out[2] # CRYPT \/ at = 0 THEN Failed("INVALID_PADDING")
       ELSE [ret |-> Ok, out |-> SubSeq(r.out, at + 1, Len(r.out))]

MdOf(hash_id) == CASE hash_id = "MD2" -> 2 [] hash_id = "MD4" -> 4 [] hash_id = "MD5" -> 5

(* What is signed of a digest. *)
DigestInfo(hash_id, hash) ==
    CASE hash_id = "RAW"  -> hash
      [] hash_id = "SHA1" -> ShaHead \o SubSeq(hash, 1, ShaLen)
      [] hash_id \in {"MD2", "MD4", "MD5"} ->
           [MdxHead EXCEPT ![MdxAt] = MdOf(hash_id)] \o SubSeq(hash, 1, MdxLen)

Sign(ctx, mode, hash_id, hash) ==
    LET info == DigestInfo(hash_id, hash)
        nb == KeyLen(ctx) - 3 - Len(info)
    IN IF hash_id \notin {"RAW", "MD2", "MD4", "MD5", "SHA1"} THEN Failed("BAD_INPUT_DATA")
       ELSE IF nb < MinPad THEN Failed("BAD_INPUT_DATA")
       ELSE Operation(ctx, mode, <<0, SIGN>> \o Limbs(nb, LAMBDA i : Full) \o <<0>> \o info)

Names(info, hash_id) == hash_id \in {"MD2", "MD4", "MD5"} /\ info[MdxAt] = MdOf(hash_id)

(* The kind is told by the length.  One of the length of an MD digest has  *)
(* the place of the name put to 0 for good, so that a raw one of that      *)
(* length is compared in this form, if it gets that far.                   *)
Verify(ctx, mode, hash_id, hash, sig) ==
    LET r == Operation(ctx, mode, sig)
        at == PadEnd(r.out)
        info == SubSeq(r.out, at + 1, Len(r.out))
        mdx == Len(info) = Len(MdxHead) + MdxLen
        left == IF mdx THEN [info EXCEPT ![MdxAt] = 0] ELSE info
        compared(x) == IF x THEN Ok ELSE "VERIFY_FAILED"
    IN IF KeyLen(ctx) \notin MinLen..MaxLen THEN "BAD_INPUT_DATA"
       ELSE IF r.ret # Ok THEN r.ret
       ELSE IF \/ r.out[1] # 0 \/ r.out[2] # SIGN \/ at = 0
               \/ \E i \in 3..at - 1 : r.out[i] # Full
       THEN "INVALID_PADDING"
       ELSE IF mdx /\ SubSeq(left, 1, Len(MdxHead)) # MdxHead THEN "VERIFY_FAILED"
       ELSE IF mdx /\ Names(info, hash_id)
       THEN compared(left = MdxHead \o SubSeq(hash, 1, MdxLen))
       ELSE IF Len(info) = Len(ShaHead) + ShaLen /\ hash_id = "SHA1"
       THEN compared(left = ShaHead \o SubSeq(hash, 1, ShaLen))
       ELSE IF Len(info) = Len(hash) /\ hash_id = "RAW" THEN compared(left = hash)
       ELSE "INVALID_PADDING"
=============================================================================
