----------------------------- MODULE BencodeTree -----------------------------
(***************************************************************************)
(* src/libbtpool/utility/bencode.c: texts decoded into nodes, nodes made   *)
(* and joined by hand, and their text.  A char is a string of length one.  *)
(* A chain of nodes linked by next is a sequence; sub is such a chain, and *)
(* raw the rawLen chars from rawText on, the text of a 'b' or 'i' node;    *)
(* content is all the text from the pointer on, num chars of it the node's.*)
(***************************************************************************)
EXTENDS Numerals

CONSTANTS
    MaxLevel,     \* nested calls of the decoder, 10 in the code
    MaxDigits,    \* MAX_NUMBER_STRING_LENGTH, 24 in the code
    Wide          \* an int64 is a number modulo this, 2^64 in the code

(* The digits at the beginning of the text, after a minus sign.            *)
Leading(s) == IF \A i \in 1..Len(s) : IsDigit(s[i]) THEN s
              ELSE SubSeq(s, 1, (CHOOSE i \in 1..Len(s) :
                                   ~IsDigit(s[i]) /\ \A j \in 1..i - 1 : IsDigit(s[j])) - 1)
Int64(n) == ((n + Wide \div 2) % Wide) - Wide \div 2
Atoi64(s) ==
    Int64(IF Len(s) > 0 /\ Head(s) = "-" THEN -ValueOf(Leading(Tail(s))) ELSE ValueOf(Leading(s)))

-----------------------------------------------------------------------------
(* Decoding.                                                               *)

Error(ret) == [ret |-> ret]
Node(type, raw, num, content, sub) ==
    [type |-> type, raw |-> raw, num |-> num, content |-> content, sub |-> sub]

(* The chars in[from..to-1], counted from 0 as in the code.                *)
Text(in, from, to) == SubSeq(in, from + 1, Min({to, Len(in)}))
FirstAt(in, ch, from, to) ==
    {j \in from..to - 1 : in[j + 1] = ch /\ \A k \in from..j - 1 : in[k + 1] # ch}

(* A 'd' needs pairs; num is their number, or that of the nodes of an 'l'. *)
Complete(up, x, nodes) ==
    IF up = "d" /\ Len(nodes) % 2 # 0 THEN Error("INVALID_PACKET")
    ELSE [ret |-> "OK", len |-> x, nodes |-> nodes,
          unit |-> IF up = "d" THEN Len(nodes) \div 2 ELSE Len(nodes)]

(* A node read at x, and where the next one begins; or an error.           *)
IntAt(in, x, len) ==
    LET end == FirstAt(in, "e", x + 1, len)
    IN IF end = {} THEN Error("INVALID_PACKET")
       ELSE LET j == CHOOSE e \in end : TRUE
            IN [ret |-> "OK", x |-> j + 1,
                node |-> Node("i", Text(in, x, j + 1), Atoi64(Text(in, x + 1, j)), <<>>, <<>>)]

(* Mutant of BufAt: a string may end one char after the text.   *)
BufAtOver(in, x, len) ==
    LET end == {j \in FirstAt(in, ":", x, len) : j - x <= MaxDigits}
    IN IF end = {} THEN Error("INVALID_PACKET")
       ELSE LET j    == CHOOSE e \in end : TRUE
                num  == Atoi64(Text(in, x, j))
                next == (j + 1 + num) % Wide
            IN IF next > len + 1 THEN Error("INVALID_PACKET")
               ELSE [ret |-> "OK", x |-> next,
                     node |-> Node("b", Text(in, x, j + num), num, Text(in, j + 1, len), <<>>)]

(* rawLen leaves out the colon.  The length wraps: one below 0 moves back. *)
BufAt(in, x, len) ==
    LET end == {j \in FirstAt(in, ":", x, len) : j - x <= MaxDigits}
    IN IF end = {} THEN Error("INVALID_PACKET")
       ELSE LET j    == CHOOSE e \in end : TRUE
                num  == Atoi64(Text(in, x, j))
                next == (j + 1 + num) % Wide
            IN IF next > len THEN Error("INVALID_PACKET")
               ELSE [ret |-> "OK", x |-> next,
                     node |-> Node("b", Text(in, x, j + num), num, Text(in, j + 1, len), <<>>)]

(* _bencode_decode on the len chars from base on, inside a node of type up *)
(* ("" at the top).  st is x and the nodes read so far, and seen the x     *)
(* where a round began: the loop is the same from the same x, so one that  *)
(* comes back to it goes on until malloc fails.                            *)
RECURSIVE Decode(_, _, _, _, _)
RECURSIVE DecodeLoop(_, _, _, _)

Decode(in, base, len, up, level) ==
    IF level > MaxLevel THEN Error("INVALID_ROUNDS")
    ELSE DecodeLoop(Text(in, base, base + len), up, level,
                    [x |-> 0, nodes |-> <<>>, seen |-> {}])

DecodeLoop(in, up, level, st) ==
    LET x    == st.x
        len  == Len(in)
        sub  == Decode(in, x + 1, len - x - 2, in[x + 1], level + 1)
        tree == Node(in[x + 1], <<>>, sub.unit, <<>>, sub.nodes)
        leaf == IF in[x + 1] = "i" THEN IntAt(in, x, len) ELSE BufAt(in, x, len)
        go(next, node) ==
            DecodeLoop(in, up, level,
                [x |-> next, nodes |-> Append(st.nodes, node), seen |-> st.seen \cup {x}])
    IN IF x >= len THEN Complete(up, x, st.nodes)
       ELSE IF x \in st.seen THEN Error("LOOPS")
       ELSE IF in[x + 1] = "e" THEN Complete(up, x, st.nodes)
       ELSE IF in[x + 1] \notin {"d", "l"}
       THEN IF leaf.ret # "OK" THEN leaf ELSE go(leaf.x, leaf.node)
       ELSE IF len < x + 2 THEN Error("INVALID_PACKET")
       ELSE IF sub.ret # "OK" THEN sub
       ELSE IF in[x + sub.len + 2] # "e" THEN Error("INVALID_PACKET")
       ELSE IF up = "" /\ st.nodes = <<>> THEN Complete(up, x + sub.len + 2, <<tree>>)
       ELSE go(x + sub.len + 2, tree)

BencodeDecode(in) == Decode(in, 0, Len(in), "", 1)

-----------------------------------------------------------------------------
(* Making nodes, their text, and the search of a dictionary.               *)

CreateM(type) == Node(type, <<>>, 0, <<>>, <<>>)
CreateI(num) == Node("i", <<"i">> \o Decimal(num) \o <<"e">>, num, <<>>, <<>>)
CreateB(content) ==
    Node("b", Decimal(Len(content)) \o <<":">> \o content, Len(content), content, <<>>)

MakeChild(parent, sub) == [parent EXCEPT !.sub = @ \o sub]
MakeBrother(chain, next) == chain \o next
FreeNode(parent, i) == [parent EXCEPT !.sub = RemoveAt(@, i)]

RECURSIVE NodeLength(_)
NodeLength(chain) ==
    FoldLeft(LAMBDA n, node : n + IF node.type \in {"b", "i"} THEN Len(node.raw)
                                  ELSE NodeLength(node.sub) + 2, 0, chain)

RECURSIVE EncodeChain(_)
EncodeChain(chain) ==
    FoldLeft(LAMBDA out, node : out \o
                 IF node.type \in {"b", "i"} THEN node.raw
                 ELSE <<node.type>> \o EncodeChain(node.sub) \o <<"e">>, <<>>, chain)

BencodeEncode(chain, outlen) ==
    IF chain = <<>> THEN Error("INVALID_ARG")
    ELSE IF outlen < NodeLength(chain) THEN [ret |-> "BUFFER_OVERFLOW", outlen |-> NodeLength(chain)]
    ELSE [ret |-> "OK", outlen |-> NodeLength(chain), out |-> EncodeChain(chain)]

(* A key matches by its first Len(key) chars alone.                        *)
IsKey(node, key) == IsPrefix(key, node.content)

(* The walk from place i of the chain of a dictionary.                     *)
RECURSIVE FindFrom(_, _, _)
FindFrom(chain, key, i) ==
    IF i >= Len(chain) \/ chain[i].type # "b" THEN Error("FUNC_FAILED")
    ELSE IF IsKey(chain[i], key) THEN [ret |-> "OK", found |-> chain[i + 1]]
    ELSE FindFrom(chain, key, i + 2)

FindValue(dict, key) ==
    IF dict.type # "d" \/ dict.sub = <<>> THEN Error("INVALID_ARG")
    ELSE FindFrom(dict.sub, key, 1)
=============================================================================
