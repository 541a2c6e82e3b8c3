------------------------------ MODULE ByteBuffer ------------------------------
(***************************************************************************)
(* bytebuffer.c and package_helper.c: numbers, strings and bytes written   *)
(* to and read from a buffer.  A cursor is the memory mem, the place at of *)
(* the next char and the number left of chars that may still be used; each *)
(* operation returns its code ret, the cursor c and, if it reads, a value. *)
(* The host is little-endian.                                              *)
(***************************************************************************)
EXTENDS LittleEndian, SequencesExt

Cursor(mem, left) == [mem |-> mem, at |-> 1, left |-> left]
Zeros(n) == [i \in 1..n |-> 0]

(* Chars from a place on; one that mem does not have is Outside.           *)
Outside == -1
CharsAt(mem, place, n) ==
    [i \in 1..n |-> IF place + i - 1 \in DOMAIN mem THEN mem[place + i - 1] ELSE Outside]
Overwritten(mem, place, s) ==
    [i \in 1..Len(mem) |->
       IF i \in place..place + Len(s) - 1 THEN s[i - place + 1] ELSE mem[i]]

Advance(c, mem, n) == [mem |-> mem, at |-> c.at + n, left |-> c.left - n]
Failed(c, ret) == [ret |-> ret, c |-> c]

-----------------------------------------------------------------------------
(* bytebuffer.c.                                                           *)

(* A length below 0 makes memcpy copy almost all there is.                 *)
GetBytes(c, n) ==
    IF c.left < n THEN Failed(c, "BUFFER_OVERFLOW")
    ELSE IF n < 0 THEN Failed(c, "CRASH")
    ELSE [ret |-> "OK", c |-> Advance(c, c.mem, n), value |-> CharsAt(c.mem, c.at, n)]

SetBytes(c, s) ==
    IF Len(s) = 0 THEN Failed(c, "INVALID_ARGUMENT")
    ELSE IF c.left < Len(s) THEN Failed(c, "BUFFER_OVERFLOW")
    ELSE [ret |-> "OK", c |-> Advance(c, Overwritten(c.mem, c.at, s), Len(s))]

GetFromBg(c, n) ==
    LET r == GetBytes(c, n)
    IN IF r.ret = "OK" THEN [r EXCEPT !.value = NumberOf(Reverse(@))] ELSE r
GetFromLt(c, n) ==
    LET r == GetBytes(c, n)
    IN IF r.ret = "OK" THEN [r EXCEPT !.value = NumberOf(@)] ELSE r
SetToBg(c, n, v) == SetBytes(c, Reverse(Chars(v, n)))
SetToLt(c, n, v) == SetBytes(c, Chars(v, n))
GetInt8(c) == GetFromLt(c, 1)
SetInt8(c, v) == SetToLt(c, 1, v)

(* room is the length of the caller's buffer, or NoBuffer.  The length is  *)
(* read again by the next call unless the string was taken.                *)
NoBuffer == -1
GetString(c, room) ==
    LET len == GetFromLt(c, Int32)
    IN IF len.ret # "OK" THEN len
       ELSE IF room = NoBuffer THEN [len EXCEPT !.c = c]
       ELSE IF room < Signed(len.value) THEN Failed(c, "BUFFER_OVERFLOW")
       ELSE GetBytes(len.c, Signed(len.value))

SetString(c, s) ==
    LET len == SetToLt(c, Int32, Len(s))
    IN IF len.ret # "OK" THEN len ELSE SetBytes(len.c, s)

-----------------------------------------------------------------------------
(* package_helper.c: a cursor of its own, whose left is m_size; -1 marks a *)
(* failure.                                                                *)

Marked(c) == Failed([c EXCEPT !.left = -1], "FAILED")
Done(r) == IF r.ret \in {"OK", "CRASH"} THEN r ELSE Marked(r.c)
ErrorOccur(c) == c.left < 0

(* Mutant of PushBytes: a failure is not marked.   *)
PushBytesUnmarked(c, s) ==
    LET r == SetBytes(c, s) IN IF r.ret = "OK" THEN r ELSE Failed(c, "FAILED")

PushValue(c, n, v) == Done(SetToLt(c, n, v))
PopValue(c, n) == Done(GetFromLt(c, n))
PushBytes(c, s) == Done(SetBytes(c, s))

(* A length that does not fit is refused and not marked.                   *)
PushCStr(c, s) ==
    LET len == SetToLt(c, Int32, Len(s))
    IN IF len.ret # "OK" THEN Failed(c, "FAILED")
       ELSE IF Len(s) > 0 THEN PushBytes(len.c, s)
       ELSE len

PopString(c) ==
    LET len == GetFromLt(c, Int32)
    IN IF len.ret # "OK" THEN Failed(c, "FAILED")
       ELSE IF Signed(len.value) \notin 0..len.c.left THEN Failed(len.c, "FAILED")
       ELSE GetBytes(len.c, len.value)

PopCStr(c, room) ==
    LET len == GetFromLt(c, Int32)
    IN IF len.ret = "OK" /\ Signed(len.value) <= len.c.left /\ Signed(len.value) <= room
       THEN Done(GetBytes(len.c, Signed(len.value)))
       ELSE Marked(len.c)

Retreat(c, n) ==
    IF ErrorOccur(c) THEN Failed(c, "FAILED")
    ELSE [ret |-> "OK", c |-> Advance(c, c.mem, c.left - n)]

IgnoreByte(c, n) ==
    IF c.left >= n THEN [ret |-> "OK", c |-> Advance(c, c.mem, n)] ELSE Marked(c)

IgnoreString(c) ==
    LET len == GetFromLt(c, Int32)
    IN IF len.ret = "OK" /\ Signed(len.value) <= len.c.left
       THEN IgnoreByte(len.c, Signed(len.value))
       ELSE Failed(len.c, "FAILED")
=============================================================================
