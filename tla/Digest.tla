------------------------------- MODULE Digest -------------------------------
(***************************************************************************)
(* The streaming part of md5.c and sha1.c: a context that takes a message  *)
(* in pieces of any length, handles each full block, and pads at the end.  *)
(* Handle is the compression of one block (DigestSteps) and InitState the  *)
(* words it starts from.                                                   *)
(***************************************************************************)
EXTENDS Integers, Sequences, SequencesExt

CONSTANTS
    CharBits,       \* bits of a char, 8 in the code
    WordChars,      \* chars of a word, 4 in the code
    Block,          \* chars of a block, more than two words; 64 in the code
    InitState,
    Handle(_, _)    \* the state after a block

Word == 2 ^ (CharBits * WordChars)
(* A message length counts bits, eight to a char.                          *)
EightsIn == Word \div 8

Zeros(n) == [i \in 1..n |-> 0]
Piece(s, from, n) == SubSeq(s, from + 1, from + n)

(* The low and the high word of the count, and the data not handled yet.   *)
Initialize == [state |-> InitState, count |-> <<0, 0>>, inner |-> Zeros(Block)]

Chars(w) == [i \in 1..WordChars |-> (w \div 2 ^ (CharBits * (i - 1))) % 2 ^ CharBits]
Encode(words) == FlattenSeq([i \in 1..Len(words) |-> Chars(words[i])])
PutWords(words) == FlattenSeq([i \in 1..Len(words) |-> Reverse(Chars(words[i]))])

(* memcpy into the inner data.                                             *)
Fill(inner, index, s) ==
    [i \in 1..Block |-> IF i \in index + 1..index + Len(s) THEN s[i - index] ELSE inner[i]]

(* The state after all the full blocks of s from offset i on; i moves on.  *)
RECURSIVE HandleFrom(_, _, _)
HandleFrom(state, s, i) ==
    IF i + Block <= Len(s) THEN HandleFrom(Handle(state, Piece(s, i, Block)), s, i + Block)
    ELSE [state |-> state, at |-> i]

Padding(n) == [i \in 1..n |-> IF i = 1 THEN 2 ^ (CharBits - 1) ELSE 0]
PadLen(used) ==
    IF used < Block - 2 * WordChars THEN Block - 2 * WordChars - used
    ELSE 2 * Block - 2 * WordChars - used

-----------------------------------------------------------------------------
(* md5.c: the count is kept in bits.                                       *)

Md5Index(ctx) == (ctx.count[1] \div 8) % Block

(* Mutant of Md5Count: the carry is forgotten.   *)
Md5CountNoCarry(count, len) ==
    <<(count[1] + len * 8) % Word, (count[2] + len \div EightsIn) % Word>>

Md5Count(count, len) ==
    LET low   == (count[1] + len * 8) % Word
        carry == IF low < (len * 8) % Word THEN 1 ELSE 0
    IN <<low, (count[2] + carry + len \div EightsIn) % Word>>

Md5Update(ctx, s) ==
    LET index  == Md5Index(ctx)
        size   == Block - index
        filled == Fill(ctx.inner, index, Piece(s, 0, size))
        run    == HandleFrom(Handle(ctx.state, filled), s, size)
        counted == [ctx EXCEPT !.count = Md5Count(@, Len(s))]
    IN IF Len(s) < size THEN [counted EXCEPT !.inner = Fill(@, index, s)]
       ELSE [counted EXCEPT !.state = run.state,
                            !.inner = Fill(filled, 0, Piece(s, run.at, Len(s) - run.at))]

(* The digest and the context, which is ready for the next message.        *)
Md5Finish(ctx) ==
    LET val    == Encode(ctx.count)
        padded == Md5Update(ctx, Padding(PadLen(Md5Index(ctx))))
    IN [cid |-> Md5Update(padded, val).state, ctx |-> Initialize]

-----------------------------------------------------------------------------
(* sha1.c: the count is kept in chars and multiplied by eight at the end.  *)

Sha1Count(count, n) ==
    LET low == (count[1] + n) % Word
    IN <<low, (count[2] + IF low < n THEN 1 ELSE 0) % Word>>

Sha1Update(ctx, s) ==
    LET left   == ctx.count[1] % Block
        fill   == Block - left
        whole  == left # 0 /\ Len(s) >= fill
        filled == Fill(ctx.inner, left, Piece(s, 0, fill))
        run    == IF whole THEN HandleFrom(Handle(ctx.state, filled), s, fill)
                  ELSE HandleFrom(ctx.state, s, 0)
        rest   == Piece(s, run.at, Len(s) - run.at)
        counted == [ctx EXCEPT !.count = Sha1Count(@, Len(s)), !.state = run.state]
    IN IF Len(s) = 0 THEN ctx
       ELSE [counted EXCEPT !.inner = IF whole THEN Fill(filled, 0, rest) ELSE Fill(@, left, rest)]

Sha1Finish(ctx) ==
    LET high   == (ctx.count[1] \div EightsIn + ctx.count[2] * 8) % Word
        low    == (ctx.count[1] * 8) % Word
        padded == Sha1Update(ctx, Padding(PadLen(ctx.count[1] % Block)))
    IN [cid |-> Sha1Update(padded, PutWords(<<high, low>>)).state, ctx |-> Initialize]
=============================================================================
