--------------------------------- MODULE Aes ---------------------------------
(***************************************************************************)
(* The block cipher of src/libbtpool/utility/aes.c.  A char is a number,   *)
(* the matrix State[r][c] of the context the sequence with State[r][c] at  *)
(* place 4c + r + 1, the order in which the blocks come and go, and the    *)
(* key schedule w a sequence of columns of four chars.                     *)
(***************************************************************************)
EXTENDS Integers, Sequences, SequencesExt
LOCAL INSTANCE Bitwise

Each(n, f(_)) == SubSeq([i \in 1..n |-> f(i)], 1, n)
XorAll(chars) == FoldLeft(LAMBDA a, b : a ^^ b, 0, chars)

(* The products in GF(2^8) with the constants of MixColumns and its inverse. *)
Gf02(b) == ((2 * b) % 256) ^^ (IF b < 128 THEN 0 ELSE 27)
Gf03(b) == Gf02(b) ^^ b
Gf08(b) == Gf02(Gf02(Gf02(b)))
Gf09(b) == Gf08(b) ^^ b
Gf0b(b) == Gf08(b) ^^ Gf03(b)
Gf0d(b) == XorAll(<<Gf08(b), Gf02(Gf02(b)), b>>)
Gf0e(b) == XorAll(<<Gf08(b), Gf02(Gf02(b)), Gf02(b)>>)

Sbox == <<
    99, 124, 119, 123, 242, 107, 111, 197, 48, 1, 103, 43, 254, 215, 171, 118,
    202, 130, 201, 125, 250, 89, 71, 240, 173, 212, 162, 175, 156, 164, 114, 192,
    183, 253, 147, 38, 54, 63, 247, 204, 52, 165, 229, 241, 113, 216, 49, 21,
    4, 199, 35, 195, 24, 150, 5, 154, 7, 18, 128, 226, 235, 39, 178, 117,
    9, 131, 44, 26, 27, 110, 90, 160, 82, 59, 214, 179, 41, 227, 47, 132,
    83, 209, 0, 237, 32, 252, 177, 91, 106, 203, 190, 57, 74, 76, 88, 207,
    208, 239, 170, 251, 67, 77, 51, 133, 69, 249, 2, 127, 80, 60, 159, 168,
    81, 163, 64, 143, 146, 157, 56, 245, 188, 182, 218, 33, 16, 255, 243, 210,
    205, 12, 19, 236, 95, 151, 68, 23, 196, 167, 126, 61, 100, 93, 25, 115,
    96, 129, 79, 220, 34, 42, 144, 136, 70, 238, 184, 20, 222, 94, 11, 219,
    224, 50, 58, 10, 73, 6, 36, 92, 194, 211, 172, 98, 145, 149, 228, 121,
    231, 200, 55, 109, 141, 213, 78, 169, 108, 86, 244, 234, 101, 122, 174, 8,
    186, 120, 37, 46, 28, 166, 180, 198, 232, 221, 116, 31, 75, 189, 139, 138,
    112, 62, 181, 102, 72, 3, 246, 14, 97, 53, 87, 185, 134, 193, 29, 158,
    225, 248, 152, 17, 105, 217, 142, 148, 155, 30, 135, 233, 206, 85, 40, 223,
    140, 161, 137, 13, 191, 230, 66, 104, 65, 153, 45, 15, 176, 84, 187, 22>>

InvSbox == <<
    82, 9, 106, 213, 48, 54, 165, 56, 191, 64, 163, 158, 129, 243, 215, 251,
    124, 227, 57, 130, 155, 47, 255, 135, 52, 142, 67, 68, 196, 222, 233, 203,
    84, 123, 148, 50, 166, 194, 35, 61, 238, 76, 149, 11, 66, 250, 195, 78,
    8, 46, 161, 102, 40, 217, 36, 178, 118, 91, 162, 73, 109, 139, 209, 37,
    114, 248, 246, 100, 134, 104, 152, 22, 212, 164, 92, 204, 93, 101, 182, 146,
    108, 112, 72, 80, 253, 237, 185, 218, 94, 21, 70, 87, 167, 141, 157, 132,
    144, 216, 171, 0, 140, 188, 211, 10, 247, 228, 88, 5, 184, 179, 69, 6,
    208, 44, 30, 143, 202, 63, 15, 2, 193, 175, 189, 3, 1, 19, 138, 107,
    58, 145, 17, 65, 79, 103, 220, 234, 151, 242, 207, 206, 240, 180, 230, 115,
    150, 172, 116, 34, 231, 173, 53, 133, 226, 249, 55, 232, 28, 117, 223, 110,
    71, 241, 26, 113, 29, 41, 197, 137, 111, 183, 98, 14, 170, 24, 190, 27,
    252, 86, 62, 75, 198, 210, 121, 32, 154, 219, 192, 254, 120, 205, 90, 244,
    31, 221, 168, 51, 136, 7, 199, 49, 177, 18, 16, 89, 39, 128, 236, 95,
    96, 81, 127, 169, 25, 181, 74, 13, 45, 229, 122, 159, 147, 201, 156, 239,
    160, 224, 59, 77, 174, 42, 245, 176, 200, 235, 187, 60, 131, 83, 153, 97,
    23, 43, 4, 126, 186, 119, 214, 38, 225, 105, 20, 99, 85, 33, 12, 125>>

Rcon == <<1, 2, 4, 8, 16, 32, 64, 128, 27, 54>>

SubWith(box, chars) == Each(Len(chars), LAMBDA i : box[chars[i] + 1])
XorChars(a, b) == Each(Len(a), LAMBDA i : a[i] ^^ b[i])

-----------------------------------------------------------------------------
(* SetNbNkNr and the key schedule.                                         *)

Nk(keySize) == CASE keySize = 24 -> 6 [] keySize = 32 -> 8 [] OTHER -> 4
Nr(keySize) == Nk(keySize) + 6

RotWord(word) == Tail(word) \o <<Head(word)>>

(* The word made from the one before it, for row Len(w) of the schedule.   *)
Temp(w, nk) ==
    LET row == Len(w)
        sub == SubWith(Sbox, RotWord(w[row]))
    IN IF row % nk = 0 THEN <<sub[1] ^^ Rcon[row \div nk]>> \o Tail(sub)
       ELSE IF nk > 6 /\ row % nk = 4 THEN SubWith(Sbox, w[row])
       ELSE w[row]

RECURSIVE Expand(_, _, _)
Expand(w, nk, rows) ==
    IF Len(w) = rows THEN w
    ELSE Expand(Append(w, XorChars(w[Len(w) + 1 - nk], Temp(w, nk))), nk, rows)

KeyExpansion(key) ==
    Expand(Each(Nk(Len(key)), LAMBDA i : SubSeq(key, 4 * i - 3, 4 * i)),
           Nk(Len(key)), 4 * (Nr(Len(key)) + 1))

(* The context: the number of rounds and the schedule.                     *)
AesInit(key) == [Nr |-> Nr(Len(key)), w |-> KeyExpansion(key)]

-----------------------------------------------------------------------------
(* The steps of a round.                                                   *)

At(s, r, c) == s[4 * c + r + 1]
Matrix(f(_, _)) == Each(16, LAMBDA i : f((i - 1) % 4, (i - 1) \div 4))

AddRoundKey(aes, s, round) ==
    XorChars(s, FlattenSeq(SubSeq(aes.w, 4 * round + 1, 4 * round + 4)))

ShiftRows(s) == Matrix(LAMBDA r, c : At(s, r, (c + r) % 4))
InvShiftRows(s) == Matrix(LAMBDA r, c : At(s, r, (c - r) % 4))

(* A column multiplied by the matrix whose first row is by, turned by r.   *)
Mixed(s, by(_, _)) ==
    Matrix(LAMBDA r, c : XorAll([k \in 1..4 |-> by(k, At(s, (r + k - 1) % 4, c))]))

MixColumns(s) ==
    Mixed(s, LAMBDA k, b : CASE k = 1 -> Gf02(b) [] k = 2 -> Gf03(b) [] OTHER -> b)
InvMixColumns(s) ==
    Mixed(s, LAMBDA k, b : CASE k = 1 -> Gf0e(b) [] k = 2 -> Gf0b(b)
                             [] k = 3 -> Gf0d(b) [] k = 4 -> Gf09(b))

SubBytes(s) == SubWith(Sbox, s)
InvSubBytes(s) == SubWith(InvSbox, s)

-----------------------------------------------------------------------------
(* aes_cipher and aes_invcipher; r is the state and the round to come.      *)

RECURSIVE CipherFrom(_, _)
CipherFrom(aes, r) ==
    LET t == ShiftRows(SubBytes(r.s))
    IN IF r.round = aes.Nr THEN AddRoundKey(aes, t, r.round)
       ELSE CipherFrom(aes, [s |-> AddRoundKey(aes, MixColumns(t), r.round), round |-> r.round + 1])

AesCipher(aes, input) == CipherFrom(aes, [s |-> AddRoundKey(aes, input, 0), round |-> 1])

RECURSIVE InvCipherFrom(_, _)
InvCipherFrom(aes, r) ==
    LET t == AddRoundKey(aes, InvSubBytes(InvShiftRows(r.s)), r.round)
    IN IF r.round = 0 THEN t
       ELSE InvCipherFrom(aes, [s |-> InvMixColumns(t), round |-> r.round - 1])

AesInvCipher(aes, input) ==
    InvCipherFrom(aes, [s |-> AddRoundKey(aes, input, aes.Nr), round |-> aes.Nr - 1])
=============================================================================
