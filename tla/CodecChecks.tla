----------------------------- MODULE CodecChecks ------------------------------
(***************************************************************************)
(* What the digests, the cipher, the sealing functions, the byte buffers   *)
(* and bencode are compared with.                                          *)
(***************************************************************************)
EXTENDS Integers, Sequences, SequencesExt, FiniteSets

-----------------------------------------------------------------------------
(* Streaming: blocks of 4 chars with words of one char, so that the count  *)
(* carries at 256 bits.  The digest is the sequence of the blocks handled. *)

D == INSTANCE Digest WITH CharBits <- 8, WordChars <- 1, Block <- 4,
                          InitState <- <<>>, Handle <- Append

Message(n) == [i \in 1..n |-> i % 7]
Pieces == {0, 1, 2, 3, 4, 5, 9, 30}

(* The message, a char with the top bit, zeros and the length in bits, cut *)
(* into blocks.                                                            *)
BlocksOf(msg, length) ==
    LET zeros  == CHOOSE k \in 0..3 : (Len(msg) + 1 + k + Len(length)) % 4 = 0
        padded == msg \o <<128>> \o [i \in 1..zeros |-> 0] \o length
    IN [b \in 1..Len(padded) \div 4 |-> SubSeq(padded, 4 * b - 3, 4 * b)]

Streaming == [msg |-> <<>>, md5 |-> D!Initialize, sha1 |-> D!Initialize, pieces |-> 0]
Fed(s, n) ==
    LET piece == SubSeq(Message(Len(s.msg) + n), Len(s.msg) + 1, Len(s.msg) + n)
    IN [msg |-> s.msg \o piece, pieces |-> s.pieces + 1,
        md5 |-> D!Md5Update(s.md5, piece), sha1 |-> D!Sha1Update(s.sha1, piece)]

StreamsAsWhole(s) ==
    LET bits == 8 * Len(s.msg)
        low  == bits % 256
        high == bits \div 256
    IN /\ D!Md5Finish(s.md5).cid = BlocksOf(s.msg, <<low, high>>)
       /\ D!Sha1Finish(s.sha1).cid = BlocksOf(s.msg, <<high, low>>)

-----------------------------------------------------------------------------
(* The digests and the cipher of the code's own sizes.                     *)

H == INSTANCE DigestSteps
A == INSTANCE Aes

(* A message of less than 56 chars is one block.                           *)
OneBlock(msg, length) == msg \o <<128>> \o [i \in 1..55 - Len(msg) |-> 0] \o length
Md5Of(msg) == H!Md5Encode(H!Md5Handle(H!Md5Init,
              OneBlock(msg, <<(8 * Len(msg)) % 256, (8 * Len(msg)) \div 256, 0, 0, 0, 0, 0, 0>>)))
Sha1Of(msg) == H!PutState(H!Sha1Handle(H!Sha1Init,
              OneBlock(msg, <<0, 0, 0, 0, 0, 0, (8 * Len(msg)) \div 256, (8 * Len(msg)) % 256>>)))

CipherOf(block, key) == A!AesCipher(A!AesInit(key), block)
InvCipherOf(block, key) == A!AesInvCipher(A!AesInit(key), block)

From(from, n) == [i \in 1..n |-> from + i - 1]
Abc == <<97, 98, 99>>
Nibbles == [i \in 1..16 |-> (i - 1) * 17]

(* Results of RFC 1321, FIPS 180 and appendix C of FIPS 197.               *)
Known == {
    [got |-> Md5Of(Abc),
     is  |-> <<\h90, \h01, \h50, \h98, \h3c, \hd2, \h4f, \hb0,
               \hd6, \h96, \h3f, \h7d, \h28, \he1, \h7f, \h72>>],
    [got |-> Sha1Of(Abc),
     is  |-> <<\ha9, \h99, \h3e, \h36, \h47, \h06, \h81, \h6a, \hba, \h3e,
               \h25, \h71, \h78, \h50, \hc2, \h6c, \h9c, \hd0, \hd8, \h9d>>],
    [got |-> CipherOf(Nibbles, From(0, 16)),
     is  |-> <<\h69, \hc4, \he0, \hd8, \h6a, \h7b, \h04, \h30,
               \hd8, \hcd, \hb7, \h80, \h70, \hb4, \hc5, \h5a>>],
    [got |-> CipherOf(Nibbles, From(0, 24)),
     is  |-> <<\hdd, \ha9, \h7c, \ha4, \h86, \h4c, \hdf, \he0,
               \h6e, \haf, \h70, \ha0, \hec, \h0d, \h71, \h91>>],
    [got |-> CipherOf(Nibbles, From(0, 32)),
     is  |-> <<\h8e, \ha2, \hb7, \hca, \h51, \h67, \h45, \hbf,
               \hea, \hfc, \h49, \h90, \h4b, \h49, \h60, \h89>>] }

-----------------------------------------------------------------------------
(* Sealing, with the cipher and the digest themselves.                     *)

S == INSTANCE Sealing WITH CharBase <- 256, Int32 <- 4, BlockSize <- 16,
        Cipher <- CipherOf, InvCipher <- InvCipherOf, MD5 <- Md5Of

(* Lengths of texts with keys: on both sides of one and of two blocks, and *)
(* of the blocks that follow the three words of a packet.                  *)
Texts == ({0, 12, 15, 16, 17, 28, 32} \X {From(5, 16)})
         \cup {<<15, From(100, 24)>>, <<16, From(7, 32)>>}
SealedLength(n) == 16 * ((n \div 16) + 1)

OpensInMemory(s, key) ==
    LET n      == Len(s)
        sealed == S!AesEncryptWithKnownKey(s, key).out
        em     == S!EmAesEncrypt(s, SealedLength(n), key).out
        opened == S!EmAesDecrypt(em, Len(em), key, 0)
    IN /\ Len(sealed) = SealedLength(n)
       /\ S!AesDecryptWithKnownKey(sealed, key, 0) = S!Result("SUCCESS", s)
       /\ em = sealed
       /\ SubSeq(opened.out, 1, opened.outLen) = s
       /\ S!EmAesEncrypt(s, SealedLength(n) - 1, key).ret = "BUFFER_OVERFLOW"
       /\ S!AesDecryptWithKnownKey(Front(sealed), key, 0).ret # "SUCCESS"
       /\ S!AesDecrypt(S!AesEncrypt(sealed, key).out, key).out = sealed

OpensAsText(s, key) ==
    LET sealed == S!SdAesEncrypt(key, s, Len(s) + 16)
    IN Len(s) > 0 => S!SdAesDecrypt(key, sealed.out, Len(sealed.out)) = S!Result("SUCCESS", s)

(* The third word carries the length instead of what it held.              *)
OpensAsPacket(s) ==
    LET sealed == S!XlAesEncrypt(s).out
        opened == S!XlAesDecrypt(sealed, 0)
    IN Len(s) >= 12 =>
         /\ opened.ret = "SUCCESS" /\ Len(opened.out) = Len(s)
         /\ \A i \in (1..Len(s)) \ (9..12) : opened.out[i] = s[i]

SealedOpens(n, key) ==
    LET s == [i \in 1..n |-> (i * 89 + n) % 256]
    IN OpensInMemory(s, key) /\ OpensAsText(s, key) /\ OpensAsPacket(s)

-----------------------------------------------------------------------------
(* Buffers: chars of 2 bits, an int32_t of 4 chars.                        *)

B == INSTANCE ByteBuffer WITH CharBase <- 4, Int32 <- 4

Item(op, n, v, s) == [op |-> op, n |-> n, v |-> v, s |-> s]
Items == {Item("host", n, v, <<>>) : n \in {1, 2, 4}, v \in {1, 2}}
         \cup {Item("network", 2, 6, <<>>), Item("network", 4, 27, <<>>), Item("int8", 1, 3, <<>>)}
         \cup {Item(op, 0, 0, s) : op \in {"string", "bytes"}, s \in {<<2>>, <<3, 0, 1>>}}
Writes == BoundedSeq(Items, 3)
Rooms == {0, 3, 4, 7, 10}

Put(c, w) ==
    CASE w.op = "host"    -> B!SetToLt(c, w.n, w.v)
      [] w.op = "network" -> B!SetToBg(c, w.n, w.v)
      [] w.op = "int8"    -> B!SetInt8(c, w.v)
      [] w.op = "string"  -> B!SetString(c, w.s)
      [] w.op = "bytes"   -> B!SetBytes(c, w.s)
Got(c, w) ==
    CASE w.op = "host"    -> B!GetFromLt(c, w.n)
      [] w.op = "network" -> B!GetFromBg(c, w.n)
      [] w.op = "int8"    -> B!GetInt8(c)
      [] w.op = "string"  -> B!GetString(c, Len(w.s))
      [] w.op = "bytes"   -> B!GetBytes(c, Len(w.s))
Given(w) == IF w.n > 0 THEN w.v ELSE w.s

Blank(room) == B!Cursor([i \in 1..room + 2 |-> 0], room)
Rewound(c, room) == [c EXCEPT !.at = 1, !.left = room]

(* The writes before the first that does not fit are read back, none goes  *)
(* past the room, and a string is not taken by a buffer it does not fit.   *)
BufferReads(writes, room) ==
    LET put  == FoldLeft(LAMBDA acc, w :
                    LET r == Put(acc.c, w)
                    IN IF r.ret = "OK" /\ acc.ok
                       THEN [c |-> r.c, done |-> Append(acc.done, w), ok |-> TRUE]
                       ELSE [acc EXCEPT !.ok = FALSE],
                    [c |-> Blank(room), done |-> <<>>, ok |-> TRUE], writes)
        read == FoldLeft(LAMBDA acc, w :
                    LET r == Got(acc.c, w)
                    IN [c |-> r.c, same |-> acc.same /\ r.ret = "OK" /\ r.value = Given(w)
                                            /\ (w.op = "string" =>
                                                  /\ B!GetString(acc.c, Len(w.s) - 1).ret # "OK"
                                                  /\ B!GetString(acc.c, B!NoBuffer).value = Len(w.s))],
                    [c |-> Rewound(put.c, room), same |-> TRUE], put.done)
    IN /\ read.same
       /\ read.c.at = put.c.at /\ read.c.left = put.c.left
       /\ put.c.at + put.c.left = room + 1
       /\ SubSeq(put.c.mem, room + 1, room + 2) = <<0, 0>>

(* The package helper: after a failure all that follows fails, so that the *)
(* end alone tells whether everything was written.                         *)
PushItem(c, w) ==
    IF w.op = "host" THEN B!PushValue(c, w.n, w.v)
    ELSE IF w.op = "string" THEN B!PushCStr(c, w.s)
    ELSE B!PushBytes(c, w.s)
PopItem(c, w) ==
    IF w.op = "host" THEN B!PopValue(c, w.n)
    ELSE IF w.op = "string" THEN B!PopString(c)
    ELSE B!GetBytes(c, Len(w.s))
Skip(c, w) ==
    IF w.op = "host" THEN B!IgnoreByte(c, w.n)
    ELSE IF w.op = "string" THEN B!IgnoreString(c)
    ELSE B!IgnoreByte(c, Len(w.s))

PopsFor(c, s) == B!PopCStr(c, Len(s)) = B!PopString(c) /\ B!PopCStr(c, Len(s) - 1).ret # "OK"

PackageReads(writes, room) ==
    LET some   == SelectSeq(writes, LAMBDA w : w.op \in {"host", "string", "bytes"})
        needed == FoldLeft(LAMBDA n, w : n + w.n + Len(w.s) + IF w.op = "string" THEN 4 ELSE 0, 0, some)
        pushed == FoldLeft(LAMBDA acc, w :
                      LET r == PushItem(acc.c, w)
                      IN [c |-> r.c, rets |-> Append(acc.rets, r.ret)],
                      [c |-> Blank(room), rets |-> <<>>], some)
        popped == FoldLeft(LAMBDA acc, w :
                      LET r == PopItem(acc.c, w)
                      IN [c |-> r.c, same |-> acc.same /\ r.ret = "OK" /\ r.value = Given(w)
                                              /\ (w.op = "string" => PopsFor(acc.c, w.s))],
                      [c |-> Rewound(pushed.c, room), same |-> TRUE], some)
        skipped == FoldLeft(LAMBDA c, w : Skip(c, w).c, Rewound(pushed.c, room), some)
        back    == B!Retreat(popped.c, room)
    IN /\ needed <= room => /\ ~B!ErrorOccur(pushed.c) /\ popped.same
                            /\ pushed.c.left = room - needed
                            /\ skipped = popped.c
                            /\ back.c = Rewound(pushed.c, room)
       /\ needed > room => "FAILED" \in ToSet(pushed.rets)
       /\ \A i \in 1..Len(some) :
             (pushed.rets[i] # "OK" /\ some[i].op # "string") =>
                 /\ B!ErrorOccur(pushed.c)
                 /\ \A j \in i..Len(some) : pushed.rets[j] # "OK"

-----------------------------------------------------------------------------
(* Bencode.                                                                *)

E == INSTANCE BencodeTree WITH MaxLevel <- 4, MaxDigits <- 2, Wide <- 64

BencodeChars == {"d", "l", "i", "e", ":", "1", "-"}
(* The texts that begin with a char.                                       *)
TextsOf(ch) == UNION {{<<ch>> \o rest : rest \in [1..n -> BencodeChars]} : n \in 0..4}

RECURSIVE WithinText(_, _)
WithinText(node, n) ==
    CASE node.type = "b" -> node.num < 0 \/ (node.num <= Len(node.content) /\ Len(node.raw) <= n)
      [] node.type = "i" -> Len(node.raw) <= n
      [] OTHER -> /\ node.type = "d" => Len(node.sub) = 2 * node.num
                  /\ \A i \in 1..Len(node.sub) : WithinText(node.sub[i], n - 2)

(* Whatever the text, the decoder ends unless a length is below 0, and all *)
(* that the nodes point to is inside the text.                             *)
DecodesWithin(text) ==
    LET r == E!BencodeDecode(text)
    IN /\ r.ret = "LOOPS" => "-" \in ToSet(text)
       /\ r.ret = "OK" =>
            /\ r.len <= Len(text)
            /\ \A i \in 1..Len(r.nodes) : WithinText(r.nodes[i], Len(text))

Strings == {<<>>, <<"e">>, <<"1", ":">>}
Leaves == {E!CreateI(n) : n \in {0, 12, -3}} \cup {E!CreateB(s) : s \in Strings}
Tree(type, chain) == E!MakeChild(E!CreateM(type), chain)
Lists1 == {Tree("l", chain) : chain \in BoundedSeq(Leaves, 2)}
Pairs(values) == {<<E!CreateB(key), value>> : key \in Strings, value \in values}
Dicts == {Tree("d", pair) : pair \in Pairs(Leaves \cup Lists1)}
         \cup {Tree("d", E!MakeBrother(p, q)) : p \in Pairs(Leaves), q \in Pairs(Leaves)}
Trees == Leaves \cup Lists1 \cup Dicts \cup {Tree("l", <<d, x>>) : d \in Dicts, x \in {E!CreateI(12)}}

RECURSIVE SameTree(_, _)
SameTree(x, y) ==
    /\ x.type = y.type
    /\ x.type = "i" => x.num = y.num
    /\ x.type = "b" => x.num = y.num /\ SubSeq(x.content, 1, x.num) = SubSeq(y.content, 1, y.num)
    /\ x.type \in {"d", "l"} => /\ Len(x.sub) = Len(y.sub)
                                /\ \A i \in 1..Len(x.sub) : SameTree(x.sub[i], y.sub[i])

(* What is made and joined node by node and encoded is decoded again, and  *)
(* the value of the first key that begins as the key asked for is found.   *)
TreeReadsBack(node) ==
    LET size == E!NodeLength(<<node>>)
        text == E!BencodeEncode(<<node>>, size)
        r    == E!BencodeDecode(text.out)
        root == r.nodes[1]
        keys == {i \in 1..Len(node.sub) : i % 2 = 1}
        more == E!MakeChild(node, <<E!CreateI(0)>>)
    IN /\ text.ret = "OK" /\ Len(text.out) = size
       /\ E!BencodeEncode(<<node>>, size - 1).ret = "BUFFER_OVERFLOW"
       /\ r.ret = "OK" /\ r.len = size /\ Len(r.nodes) = 1 /\ SameTree(node, root)
       /\ E!FreeNode(more, Len(more.sub)) = node
       /\ node.type = "d" => \A i \in keys :
             LET f == E!FindValue(root, node.sub[i].content)
             IN f.ret = "OK" /\ \E j \in keys : j <= i /\ SameTree(node.sub[j + 1], f.found)
=============================================================================
