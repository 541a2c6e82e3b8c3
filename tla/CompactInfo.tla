----------------------------- MODULE CompactInfo ------------------------------
(***************************************************************************)
(* Compact forms of addresses and nodes: src/dht/util.go and the node and  *)
(* Peer of src/dht/routingtable.go.  A byte is a number below Bytes, an ip *)
(* the sequence of its bytes, four when it is an IPv4.                     *)
(***************************************************************************)
EXTENDS Integers, Sequences, SequencesExt

CONSTANTS
    Byte,           \* bytes are numbers below this, 256 in the code
    NodeIdLength

Error == [err |-> TRUE, info |-> <<>>]

Bytes2int(data) == FoldLeft(LAMBDA val, b : val * Byte + b, 0, data)

(* Eight bytes without the zeros in front, but one at least.               *)
Int2bytes(val) ==
    LET data == [i \in 1..8 |-> (val \div Byte ^ (8 - i)) % Byte]
        some == {i \in 1..8 : data[i] # 0}
    IN IF some = {} THEN <<0>>
       ELSE SubSeq(data, CHOOSE i \in some : \A j \in some : i <= j, 8)

TwoBytes(p) == IF Len(p) < 2 THEN <<0>> \o p ELSE p

(* To4 is nil for an ip that is no IPv4.                                   *)
EncodeCompactIPPortInfo(ip, port) ==
    IF port > Byte * Byte - 1 \/ port < 0 THEN Error
    ELSE [err |-> FALSE, info |-> (IF Len(ip) = 4 THEN ip ELSE <<>>) \o TwoBytes(Int2bytes(port))]

DecodeCompactIPPortInfo(info) ==
    IF Len(info) # 6 THEN Error
    ELSE [err |-> FALSE, ip |-> SubSeq(info, 1, 4), port |-> info[5] * Byte + info[6]]

(* newNodeFromCompactInfo and CompactNodeInfo.                             *)
NewNodeFromCompactInfo(info) ==
    IF Len(info) # NodeIdLength + 6 THEN Error
    ELSE LET addr == DecodeCompactIPPortInfo(SubSeq(info, NodeIdLength + 1, Len(info)))
         IN [id |-> SubSeq(info, 1, NodeIdLength), ip |-> addr.ip, port |-> addr.port]
CompactNodeInfo(node) == node.id \o EncodeCompactIPPortInfo(node.ip, node.port).info
=============================================================================
