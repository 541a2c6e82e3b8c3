-------------------------------- MODULE Bitmap --------------------------------
(***************************************************************************)
(* src/dht/bitmap.go: arrays of bits, which are the ids of nodes and the   *)
(* prefixes of buckets; and the choice of the nodes nearest to an id, the  *)
(* getTopK of src/dht/routingtable.go.  Bits count from 0, a byte is a     *)
(* number whose first bit is the highest.  An index out of range panics.   *)
(***************************************************************************)
EXTENDS Integers, Sequences, SequencesExt, FiniteSetsExt

CONSTANTS
    ByteBits,         \* 8 in the code
    MaxPrefixLength   \* bits of an id, 160 in the code

NewBitmap(size) ==
    [size |-> size, data |-> [i \in 1..(size + ByteBits - 1) \div ByteBits |-> 0]]

(* The last byte of other is taken whole.                                  *)
NewBitmapFrom(other, size) ==
    [NewBitmap(size) EXCEPT !.data =
        [i \in DOMAIN @ |-> IF i <= Len(other.data) THEN other.data[i] ELSE 0]]

NewBitmapFromBytes(bytes) == [size |-> Len(bytes) * ByteBits, data |-> bytes]

Shift(index) == 2 ^ (ByteBits - 1 - (index % ByteBits))
Bit(bitmap, index) == (bitmap.data[(index \div ByteBits) + 1] \div Shift(index)) % 2
SetBit(bitmap, index, bit) ==
    [bitmap EXCEPT !.data[(index \div ByteBits) + 1] =
        @ + ((IF bit > 0 THEN 1 ELSE 0) - Bit(bitmap, index)) * Shift(index)]

Order(x, y) == IF x > y THEN 1 ELSE IF x < y THEN -1 ELSE 0

(* The first bytes that differ decide, then the first of the bits left.    *)
Compare(bitmap, other, prefixLen) ==
    LET div   == prefixLen \div ByteBits
        bytes == {i \in 1..div : bitmap.data[i] # other.data[i]}
        bits  == {i \in div * ByteBits..prefixLen - 1 : Bit(bitmap, i) # Bit(other, i)}
    IN IF bytes # {} THEN Order(bitmap.data[Min(bytes)], other.data[Min(bytes)])
       ELSE IF bits # {} THEN Order(Bit(bitmap, Min(bits)), Bit(other, Min(bits)))
       ELSE 0

ByteXor(x, y) ==
    MapThenSumSet(LAMBDA i : (((x \div 2 ^ i) + (y \div 2 ^ i)) % 2) * 2 ^ i, 0..ByteBits - 1)

Xor(bitmap, other) ==
    LET div   == bitmap.size \div ByteBits
        bytes == [NewBitmap(bitmap.size) EXCEPT !.data =
                    [i \in DOMAIN @ |-> IF i <= div THEN ByteXor(bitmap.data[i], other.data[i]) ELSE 0]]
        rest  == [i \in 1..bitmap.size % ByteBits |-> div * ByteBits + i - 1]
    IN FoldLeft(LAMBDA b, i : SetBit(b, i, ByteXor(Bit(bitmap, i), Bit(other, i))), bytes, rest)

(* A bucket's child draws its ids from those with its prefix.              *)
RandomChildID(prefix, random) ==
    FoldLeft(LAMBDA id, i : SetBit(id, i - 1, Bit(prefix, i - 1)), random,
             [i \in 1..prefix.size |-> i])

-----------------------------------------------------------------------------
(* getTopK: container/heap hands out one that no other is less than, and   *)
(* less is farther, so that the heap keeps the nearest k.  The queue is a  *)
(* sequence of ids.                                                        *)

Less(x, y) == Compare(x.distance, y.distance, MaxPrefixLength) = 1
Pop(heap) == CHOOSE x \in heap : \A y \in heap : ~Less(y, x)

(* Mutant of Pushed: the heap keeps one more. *)
PushedOver(heap, item, k) ==
    LET all == heap \cup {item} IN IF Cardinality(heap) > k THEN all \ {Pop(all)} ELSE all
Pushed(heap, item, k) ==
    LET all == heap \cup {item} IN IF Cardinality(all) > k THEN all \ {Pop(all)} ELSE all

RECURSIVE Emptied(_)
Emptied(heap) ==
    IF heap = {} THEN <<>> ELSE Append(Emptied(heap \ {Pop(heap)}), Pop(heap).value)

(* value is the place of the node in the queue.                            *)
GetTopK(queue, id, k) ==
    Emptied(FoldLeft(LAMBDA heap, i :
                        Pushed(heap, [distance |-> Xor(id, queue[i]), value |-> i], k),
                     {}, [i \in 1..Len(queue) |-> i]))
=============================================================================
