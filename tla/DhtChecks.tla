------------------------------ MODULE DhtChecks -------------------------------
(***************************************************************************)
(* What the pure functions of src/dht are compared with.                   *)
(***************************************************************************)
EXTENDS Integers, Sequences, SequencesExt, FiniteSets

-----------------------------------------------------------------------------
(* Ids: bytes of two bits, ids of two bytes, and arrays of any size up to  *)
(* five bits, made bit by bit.                                             *)

M == INSTANCE Bitmap WITH ByteBits <- 2, MaxPrefixLength <- 4

Bits(size) == [1..size -> {0, 1}]
Made(bits) == FoldLeft(LAMBDA b, i : M!SetBit(b, i - 1, bits[i]), M!NewBitmap(Len(bits)),
                       [i \in 1..Len(bits) |-> i])
BitsOf(bitmap) == [i \in 1..bitmap.size |-> M!Bit(bitmap, i - 1)]
ValueOfBits(bits) == FoldLeft(LAMBDA n, b : 2 * n + b, 0, bits)
Arrays == UNION {Bits(size) \X Bits(size) : size \in 1..5}

(* Comparing prefixes compares the numbers they are, Xor is the sum bit by *)
(* bit, a longer copy begins as the array and goes on with zeros, and a    *)
(* child's id has the bucket's prefix and is else the one drawn.           *)
BitmapsExact(x, y) ==
    LET n == Len(x)
        a == Made(x)
        b == Made(y)
        prefix(s, k) == ValueOfBits(SubSeq(s, 1, k))
    IN /\ BitsOf(a) = x
       /\ \A k \in 0..n : M!Compare(a, b, k) = M!Order(prefix(x, k), prefix(y, k))
       /\ BitsOf(M!Xor(a, b)) = [i \in 1..n |-> (x[i] + y[i]) % 2]
       /\ \A more \in n..n + 3 :
             BitsOf(M!NewBitmapFrom(a, more)) = x \o [i \in 1..more - n |-> 0]
       /\ \A k \in 0..n : BitsOf(M!RandomChildID(Made(SubSeq(x, 1, k)), b))
                            = SubSeq(x, 1, k) \o SubSeq(y, k + 1, n)

Ids == {M!NewBitmapFromBytes(s) : s \in {<<0, 0>>, <<0, 1>>, <<1, 3>>, <<2, 0>>, <<3, 2>>}}
Queues == BoundedSeq(Ids, 3)

(* The nodes chosen are k, or all there are; they come in the order of     *)
(* their distances, and none that is left out is nearer than one of them.  *)
Distance(id, other) == ValueOfBits(BitsOf(M!Xor(id, other)))
NearestChosen(queue, id, k) ==
    LET tops == M!GetTopK(queue, id, k)
        d(i) == Distance(id, queue[i])
        left == (1..Len(queue)) \ ToSet(tops)
    IN /\ Len(tops) = IF Len(queue) < k THEN Len(queue) ELSE k
       /\ IsInjective(tops)
       /\ \A i \in 1..Len(tops) :
             /\ \A j \in i..Len(tops) : d(tops[i]) <= d(tops[j])
             /\ \A j \in left : d(tops[i]) <= d(j)

-----------------------------------------------------------------------------
(* Messages: an int of eight bits with its sign, more than any length.     *)

G == INSTANCE Bencode WITH MaxInt <- 127

GoChars == {"d", "l", "i", "e", ":", "0", "1", "-"}
(* The texts that begin with a char, and some with a length that is too    *)
(* much for what follows, or for an int when the index is added to it.     *)
GoTextsOf(ch) ==
    UNION {{<<ch>> \o rest : rest \in [1..n -> GoChars]} : n \in 0..4}
    \cup {<<ch>> \o num \o <<":">> \o s : s \in {<<>>, <<"e">>},
             num \in {<<"4">>, <<"9">>, <<"1", "2", "6">>, <<"1", "2", "7">>, <<"1", "2", "8">>}}

(* A value decoded from any text comes from within it, and what it is      *)
(* encoded to, in whatever order its maps are gone through, is decoded to  *)
(* it again.                                                               *)
RECURSIVE SizeOf(_)
SizeOf(v) ==
    CASE v.type = "string" -> Len(v.val)
      [] v.type = "int"    -> 0
      [] v.type = "list"   -> FoldLeft(LAMBDA n, x : n + SizeOf(x), 0, v.val)
      [] v.type = "dict"   -> FoldLeft(LAMBDA n, p : n + Len(p[1]) + SizeOf(p[2]), 0, SetToSeq(v.val))

ValueReadsBack(v) ==
    \A text \in G!Encodings(v) : G!Decode(text) = G!Result(v, Len(text))

TextDecodes(text) ==
    LET r == G!Decode(text)
    IN ~r.err => /\ r.index <= Len(text)
                 /\ SizeOf(r.value) < r.index
                 /\ ValueReadsBack(r.value)

GoLeaves == {G!Value("int", n) : n \in {0, 7, -128, 127}}
            \cup {G!Value("string", s) : s \in {<<>>, <<"e">>, <<"1", ":">>}}
GoLists == {G!Value("list", s) : s \in BoundedSeq(GoLeaves, 2)}
GoDicts == {G!Value("dict", {<<<<"a">>, v>>, <<<<>>, w>>, <<<<"1">>, G!Value("list", <<v>>)>>}) :
               v \in GoLeaves, w \in GoLeaves \cup {G!Value("list", <<>>), G!Value("dict", {})}}
GoValues == GoLeaves \cup GoLists \cup GoDicts \cup {G!Value("list", <<d, d>>) : d \in GoDicts}

-----------------------------------------------------------------------------
(* Addresses: bytes of two bits, an id of two of them.                     *)

I == INSTANCE CompactInfo WITH Byte <- 4, NodeIdLength <- 2

SomeIps == {<<1, 2, 3, 0>>, <<0, 0, 0, 1>>, <<3, 3, 3, 3, 1, 2, 0, 0>>}

AddressReadsBack(ip, port) ==
    LET there == I!EncodeCompactIPPortInfo(ip, port)
        back  == I!DecodeCompactIPPortInfo(there.info)
        node  == [id |-> <<2, 0>>, ip |-> ip, port |-> port]
    IN /\ there.err = (port \notin 0..15)
       /\ IF port \in 0..15 /\ Len(ip) = 4
          THEN /\ back = [err |-> FALSE, ip |-> ip, port |-> port]
               /\ I!NewNodeFromCompactInfo(I!CompactNodeInfo(node)) = node
          ELSE back.err /\ I!NewNodeFromCompactInfo(I!CompactNodeInfo(node)) = I!Error
       /\ port >= 0 => I!Bytes2int(I!Int2bytes(port)) = port
=============================================================================
