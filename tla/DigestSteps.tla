---------------------------- MODULE DigestSteps ----------------------------
(***************************************************************************)
(* The compression of one block of 64 chars in md5.c and sha1.c.  A 32-bit *)
(* word is the pair of its upper and its lower half.                       *)
(***************************************************************************)
EXTENDS Integers, Sequences, SequencesExt
LOCAL INSTANCE Bitwise

Half == 2 ^ 16

XorW(u, v) == <<u[1] ^^ v[1], u[2] ^^ v[2]>>
AndW(u, v) == <<u[1] & v[1], u[2] & v[2]>>
OrW(u, v) == <<u[1] | v[1], u[2] | v[2]>>
Complement(u) == <<Half - 1 - u[1], Half - 1 - u[2]>>
AddW(u, v) == <<(u[1] + v[1] + (u[2] + v[2]) \div Half) % Half, (u[2] + v[2]) % Half>>

RotateLeft(u, n) ==
    LET w == IF n < 16 THEN u ELSE <<u[2], u[1]>>
        k == 2 ^ (n % 16)
        c == 2 ^ (16 - (n % 16))
    IN <<((w[1] * k) % Half) + w[2] \div c, ((w[2] * k) % Half) + w[1] \div c>>

-----------------------------------------------------------------------------
(* md5_handle.  The four variables a, b, c, d of the code change roles     *)
(* from step to step; here v is the four in the order of the step.         *)

Md5Init == <<<<\h6745, \h2301>>, <<\hefcd, \hab89>>, <<\h98ba, \hdcfe>>, <<\h1032, \h5476>>>>

Md5T == <<
    <<\hd76a, \ha478>>, <<\he8c7, \hb756>>, <<\h2420, \h70db>>, <<\hc1bd, \hceee>>,
    <<\hf57c, \h0faf>>, <<\h4787, \hc62a>>, <<\ha830, \h4613>>, <<\hfd46, \h9501>>,
    <<\h6980, \h98d8>>, <<\h8b44, \hf7af>>, <<\hffff, \h5bb1>>, <<\h895c, \hd7be>>,
    <<\h6b90, \h1122>>, <<\hfd98, \h7193>>, <<\ha679, \h438e>>, <<\h49b4, \h0821>>,
    <<\hf61e, \h2562>>, <<\hc040, \hb340>>, <<\h265e, \h5a51>>, <<\he9b6, \hc7aa>>,
    <<\hd62f, \h105d>>, <<\h0244, \h1453>>, <<\hd8a1, \he681>>, <<\he7d3, \hfbc8>>,
    <<\h21e1, \hcde6>>, <<\hc337, \h07d6>>, <<\hf4d5, \h0d87>>, <<\h455a, \h14ed>>,
    <<\ha9e3, \he905>>, <<\hfcef, \ha3f8>>, <<\h676f, \h02d9>>, <<\h8d2a, \h4c8a>>,
    <<\hfffa, \h3942>>, <<\h8771, \hf681>>, <<\h6d9d, \h6122>>, <<\hfde5, \h380c>>,
    <<\ha4be, \hea44>>, <<\h4bde, \hcfa9>>, <<\hf6bb, \h4b60>>, <<\hbebf, \hbc70>>,
    <<\h289b, \h7ec6>>, <<\heaa1, \h27fa>>, <<\hd4ef, \h3085>>, <<\h0488, \h1d05>>,
    <<\hd9d4, \hd039>>, <<\he6db, \h99e5>>, <<\h1fa2, \h7cf8>>, <<\hc4ac, \h5665>>,
    <<\hf429, \h2244>>, <<\h432a, \hff97>>, <<\hab94, \h23a7>>, <<\hfc93, \ha039>>,
    <<\h655b, \h59c3>>, <<\h8f0c, \hcc92>>, <<\hffef, \hf47d>>, <<\h8584, \h5dd1>>,
    <<\h6fa8, \h7e4f>>, <<\hfe2c, \he6e0>>, <<\ha301, \h4314>>, <<\h4e08, \h11a1>>,
    <<\hf753, \h7e82>>, <<\hbd3a, \hf235>>, <<\h2ad7, \hd2bb>>, <<\heb86, \hd391>>>>

Md5S == <<<<7, 12, 17, 22>>, <<5, 9, 14, 20>>, <<4, 11, 16, 23>>, <<6, 10, 15, 21>>>>

(* F, G, H and I of the four rounds.                                       *)
Md5F(round, x, y, z) ==
    CASE round = 0 -> OrW(AndW(x, y), AndW(Complement(x), z))
      [] round = 1 -> OrW(AndW(x, z), AndW(y, Complement(z)))
      [] round = 2 -> XorW(x, XorW(y, z))
      [] round = 3 -> XorW(y, OrW(x, Complement(z)))

Md5X(round, i) == <<i, 5 * i + 1, 3 * i + 5, 7 * i>>[round + 1] % 16

Md5Step(r, x) ==
    LET v     == r.v
        round == r.t \div 16
        sum   == AddW(AddW(v[1], Md5F(round, v[2], v[3], v[4])),
                      AddW(x[Md5X(round, r.t) + 1], Md5T[r.t + 1]))
    IN [v |-> <<v[4], AddW(v[2], RotateLeft(sum, Md5S[round + 1][(r.t % 4) + 1])), v[2], v[3]>>,
        t |-> r.t + 1]

(* md5_decode: the lowest char of a word comes first.                      *)
Md5Decode(block) ==
    SubSeq([i \in 1..16 |-> <<block[4 * i] * 256 + block[4 * i - 1],
                              block[4 * i - 2] * 256 + block[4 * i - 3]>>], 1, 16)
Md5Encode(state) ==
    FlattenSeq([i \in 1..Len(state) |-> <<state[i][2] % 256, state[i][2] \div 256,
                                          state[i][1] % 256, state[i][1] \div 256>>])

RECURSIVE Md5Steps(_, _)
Md5Steps(r, x) == IF r.t = 64 THEN r.v ELSE Md5Steps(Md5Step(r, x), x)

Md5Handle(state, block) ==
    LET v == Md5Steps([v |-> state, t |-> 0], Md5Decode(block))
    IN [i \in 1..4 |-> AddW(state[i], v[i])]

-----------------------------------------------------------------------------
(* sha1_handle.  W has sixteen words, W[t & 0x0F] the newest.              *)

Sha1Init == Md5Init \o <<<<\hc3d2, \he1f0>>>>

Sha1K == <<<<\h5a82, \h7999>>, <<\h6ed9, \heba1>>, <<\h8f1b, \hbcdc>>, <<\hca62, \hc1d6>>>>

Sha1F(round, x, y, z) ==
    CASE round = 0 -> XorW(z, AndW(x, XorW(y, z)))
      [] round \in {1, 3} -> XorW(x, XorW(y, z))
      [] round = 2 -> OrW(AndW(x, y), AndW(z, OrW(x, y)))

GetWords(block) ==
    SubSeq([i \in 1..16 |-> <<block[4 * i - 3] * 256 + block[4 * i - 2],
                              block[4 * i - 1] * 256 + block[4 * i]>>], 1, 16)
PutState(state) ==
    FlattenSeq([i \in 1..Len(state) |-> <<state[i][1] \div 256, state[i][1] % 256,
                                          state[i][2] \div 256, state[i][2] % 256>>])

(* R(t), and the word itself in the first sixteen steps.                   *)
Sha1W(w, t) ==
    LET at(k) == w[((t - k) % 16) + 1]
    IN IF t < 16 THEN w
       ELSE [w EXCEPT ![(t % 16) + 1] =
                RotateLeft(XorW(XorW(at(3), at(8)), XorW(at(14), at(16))), 1)]

(* One step; r.t counts the steps taken.                                   *)
Sha1Step(r) ==
    LET w == Sha1W(r.w, r.t)
        v == r.v
        e == AddW(AddW(v[5], RotateLeft(v[1], 5)),
                  AddW(AddW(Sha1F(r.t \div 20, v[2], v[3], v[4]), Sha1K[(r.t \div 20) + 1]),
                       w[(r.t % 16) + 1]))
    IN [w |-> w, v |-> <<e, v[1], RotateLeft(v[2], 30), v[3], v[4]>>, t |-> r.t + 1]

RECURSIVE Sha1Steps(_)
Sha1Steps(r) == IF r.t = 80 THEN r.v ELSE Sha1Steps(Sha1Step(r))

Sha1Handle(state, block) ==
    LET v == Sha1Steps([w |-> GetWords(block), v |-> state, t |-> 0])
    IN [i \in 1..5 |-> AddW(state[i], v[i])]
=============================================================================
