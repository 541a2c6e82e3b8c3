------------------------------- MODULE Bencode --------------------------------
(***************************************************************************)
(* src/dht/bencode.go: texts decoded into strings, integers, lists and     *)
(* maps, and back.  A text is a sequence of chars, start and index count   *)
(* from 0; a map is a set of pairs.                                        *)
(***************************************************************************)
EXTENDS Numerals, FiniteSets

CONSTANT MaxInt     \* of an int, 2^63 - 1 in the code

Result(value, index) == [err |-> FALSE, value |-> value, index |-> index]
Error == [err |-> TRUE, value |-> "none", index |-> 0]
Value(type, val) == [type |-> type, val |-> val]

(* Integers wrap when they are added.                                      *)
Wrapped(n) == ((n + MaxInt + 1) % (2 * (MaxInt + 1))) - MaxInt - 1

(* strconv.Atoi: a sign, at least one digit, and nothing out of range.     *)
Atoi(s) ==
    LET signed == s # <<>> /\ Head(s) \in {"+", "-"}
        digits == IF signed THEN Tail(s) ELSE s
        n      == IF signed /\ Head(s) = "-" THEN -ValueOf(digits) ELSE ValueOf(digits)
    IN IF digits = <<>> \/ \E i \in 1..Len(digits) : ~IsDigit(digits[i]) THEN Error
       ELSE IF n \notin -MaxInt - 1..MaxInt THEN Error
       ELSE Result(n, 0)

(* The place of the first target from start on, or -1.                     *)
Find(data, start, target) ==
    LET places == {i \in start..Len(data) - 1 : data[i + 1] = target}
    IN IF places = {} THEN -1 ELSE CHOOSE i \in places : \A j \in places : i <= j

Slice(data, from, to) == SubSeq(data, from + 1, to)

(* The second: the sum has wrapped.                                        *)
OutOfRange(index, i, data) == index > Len(data) \/ index < i + 1

DecodeString(data, start) ==
    LET i      == Find(data, start, ":")
        length == Atoi(Slice(data, start, i))
        index  == Wrapped(i + 1 + length.value)
    IN IF i = -1 THEN Error
       ELSE IF length.err THEN Error
       ELSE IF length.value < 0 \/ OutOfRange(index, i, data) THEN Error
       ELSE Result(Value("string", Slice(data, i + 1, index)), index)

DecodeInt(data, start) ==
    LET index == Find(data, start + 1, "e")
        n     == Atoi(Slice(data, start + 1, index))
    IN IF index = -1 THEN Error
       ELSE IF n.err THEN Error
       ELSE Result(Value("int", n.value), index + 1)

RECURSIVE DecodeItem(_, _), ListFrom(_, _, _), DictFrom(_, _, _)

DecodeItem(data, start) ==
    IF start >= Len(data) THEN Error
    ELSE CASE data[start + 1] = "i" -> DecodeInt(data, start)
           [] data[start + 1] = "l" -> ListFrom(data, start + 1, <<>>)
           [] data[start + 1] = "d" -> DictFrom(data, start + 1, {})
           [] IsDigit(data[start + 1]) -> DecodeString(data, start)
           [] OTHER -> Error

(* The loops of DecodeList and DecodeDict, with what they have so far.     *)
ListFrom(data, index, r) ==
    IF index >= Len(data) THEN Error
    ELSE IF data[index + 1] = "e" THEN Result(Value("list", r), index + 1)
    ELSE LET item == DecodeItem(data, index)
         IN IF item.err THEN Error ELSE ListFrom(data, item.index, Append(r, item.value))

DictFrom(data, index, r) ==
    IF index >= Len(data) THEN Error
    ELSE IF data[index + 1] = "e" THEN Result(Value("dict", r), index + 1)
    ELSE IF ~IsDigit(data[index + 1]) THEN Error
    ELSE LET key  == DecodeString(data, index)
             item == DecodeItem(data, key.index)
             rest == {pair \in r : pair[1] # key.value.val}
         IN IF key.err THEN Error
            ELSE IF item.err THEN Error
            ELSE DictFrom(data, item.index, rest \cup {<<key.value.val, item.value>>})

Decode(data) == IF data = <<>> THEN Error ELSE DecodeItem(data, 0)

-----------------------------------------------------------------------------
(* Encoding.  The pairs of a map come in any order, so that a value has    *)
(* several texts.                                                          *)

EncodeString(s) == Decimal(Len(s)) \o <<":">> \o s
EncodeInt(n) == <<"i">> \o Decimal(n) \o <<"e">>

RECURSIVE Encodings(_), ListTexts(_), DictTexts(_)

Encodings(v) ==
    CASE v.type = "string" -> {EncodeString(v.val)}
      [] v.type = "int"    -> {EncodeInt(v.val)}
      [] v.type = "list"   -> {<<"l">> \o s \o <<"e">> : s \in ListTexts(v.val)}
      [] v.type = "dict"   -> {<<"d">> \o s \o <<"e">> : s \in DictTexts(v.val)}

ListTexts(items) ==
    IF items = <<>> THEN {<<>>}
    ELSE {s \o t : s \in Encodings(Head(items)), t \in ListTexts(Tail(items))}

DictTexts(pairs) ==
    IF pairs = {} THEN {<<>>}
    ELSE UNION {{EncodeString(p[1]) \o s \o t : s \in Encodings(p[2]), t \in DictTexts(pairs \ {p})} :
                p \in pairs}
=============================================================================
