------------------------- MODULE TokenManagerProofs -------------------------
(***************************************************************************)
(* Proofs about the tokens for any number of peers, workers and tokens.    *)
(* The bound on the uses of a token is not inductive: a worker that has    *)
(* found the token will count one more use whatever the count is by then.  *)
(* Counting these workers with the uses (UsesAndHolders) makes it so,      *)
(* provided that a token with a use is gone for good, for then no worker   *)
(* finds it any more: it stands under one key only, and nobody is about to *)
(* set it again.                                                           *)
(***************************************************************************)
EXTENDS TokenManager, FiniteSetTheorems, TLAPS

(* The workers in check that have found the token. *)
Holders(t) == {w \in Handlers : inside[w].at = "check" /\ inside[w].found = t}

(* No token is found before it is made. *)
MadeFirst ==
    /\ \A ip \in Askers : map[ip] # NoToken => map[ip] <= made
    /\ \A w \in Handlers :
          /\ inside[w].at = "token" => inside[w].given <= made
          /\ inside[w].at = "check" => inside[w].found \in 1..made

(* A token that is to be set is nowhere else. *)
SetOnce ==
    \A w \in Handlers : inside[w].at = "token" =>
        /\ used[inside[w].given] = 0
        /\ \A ip \in Askers : map[ip] # inside[w].given
        /\ \A v \in Handlers : inside[v].at = "check" => inside[v].found # inside[w].given
        /\ \A v \in Handlers : inside[v].at = "token" /\ v # w => inside[v].given # inside[w].given

(* A token is under one ip, the one it was or is found under. *)
OneIP ==
    /\ \A ip, jp \in Askers : map[ip] # NoToken /\ ip # jp => map[ip] # map[jp]
    /\ \A w \in Handlers, ip \in Askers :
          inside[w].at = "check" /\ map[ip] = inside[w].found => ip = inside[w].ip

(* A token that was used is gone, and one that is yet to be made is not    *)
(* used.                                                                   *)
UsedIsGone ==
    /\ \A ip \in Askers : map[ip] # NoToken => used[map[ip]] = 0
    /\ \A t \in Tokens : t > made => used[t] = 0

UsesAndHolders == \A t \in Tokens : used[t] + Cardinality(Holders(t)) <= Cardinality(Handlers)

Placed == MadeFirst /\ SetOnce /\ OneIP /\ UsedIsGone
IInv == TokensTypeOK /\ Placed /\ UsesAndHolders

(* Everything that is counted is finite. *)
LEMMA HoldersCounted ==
    ASSUME NEW t
    PROVE  /\ IsFiniteSet(Holders(t)) /\ IsFiniteSet(Holders(t)')
           /\ Cardinality(Holders(t)) \in Nat /\ Cardinality(Holders(t)') \in Nat
           /\ Cardinality(Handlers) \in Nat
           /\ Cardinality(Holders(t)) <= Cardinality(Handlers)
           /\ Cardinality(Holders(t)') <= Cardinality(Handlers)
<1>1. Holders(t) \subseteq Handlers /\ Holders(t)' \subseteq Handlers
  BY DEF Holders
<1>2. IsFiniteSet(Handlers)
  BY TKConstants
<1>3. QED
  BY <1>1, <1>2, FS_Subset, FS_CardinalityType

LEMMA TokensAtFirst == TokensInit => IInv
<1> SUFFICES ASSUME TokensInit PROVE IInv
  OBVIOUS
<1> USE TKConstants
<1>1. TokensTypeOK
  BY DEF TokensInit, TokensTypeOK, Outside, TokenCalls, Tokens
<1>2. Placed
  BY DEF TokensInit, Placed, MadeFirst, SetOnce, OneIP, UsedIsGone, Outside, Tokens
<1>3. UsesAndHolders
  BY HoldersCounted DEF TokensInit, UsesAndHolders, Tokens
<1>4. QED
  BY <1>1, <1>2, <1>3 DEF IInv

LEMMA TokenTypeKept == TokensTypeOK /\ [TokensNext]_tokenVars => TokensTypeOK'
<1> SUFFICES ASSUME TokensTypeOK, [TokensNext]_tokenVars PROVE TokensTypeOK'
  OBVIOUS
<1> USE TKConstants DEF TokensTypeOK, Tokens, TokenCalls, Leaves, Outside
<1>1. CASE \E w \in Handlers : SendCurrent(w)
  BY <1>1 DEF SendCurrent, Current
<1>2. CASE \E w \in Handlers : MakeToken(w)
  BY <1>2 DEF MakeToken
<1>3. CASE \E w \in Handlers : SetToken(w)
  BY <1>3 DEF SetToken
<1>4. CASE \E w \in Handlers : GetToken(w)
  BY <1>4 DEF GetToken
<1>5. CASE \E w \in Handlers : DeleteToken(w)
  BY <1>5 DEF DeleteToken
<1>6. CASE CollectIPs
  BY <1>6 DEF CollectIPs, ExpiredIPs
<1>7. CASE DeleteIPs
  BY <1>7 DEF DeleteIPs
<1>8. CASE AgeToken
  BY <1>8 DEF AgeToken
<1>9. CASE UNCHANGED tokenVars
  BY <1>9 DEF tokenVars
<1>10. QED
  BY <1>1, <1>2, <1>3, <1>4, <1>5, <1>6, <1>7, <1>8, <1>9 DEF TokensNext, HandlerStep

LEMMA PlacedKept == TokensTypeOK /\ Placed /\ [TokensNext]_tokenVars => Placed'
<1> SUFFICES ASSUME TokensTypeOK, Placed, [TokensNext]_tokenVars PROVE Placed'
  OBVIOUS
<1> USE TKConstants DEF TokensTypeOK, Placed, MadeFirst, SetOnce, OneIP, UsedIsGone, Tokens,
                        TokenCalls, Leaves, Outside
<1>1. CASE \E w \in Handlers : SendCurrent(w)
  BY <1>1 DEF SendCurrent
<1>2. CASE \E w \in Handlers : MakeToken(w)
  BY <1>2 DEF MakeToken
<1>3. CASE \E w \in Handlers : SetToken(w)
  BY <1>3 DEF SetToken
<1>4. CASE \E w \in Handlers : GetToken(w)
  BY <1>4 DEF GetToken
<1>5. CASE \E w \in Handlers : DeleteToken(w)
  BY <1>5 DEF DeleteToken
<1>6. CASE DeleteIPs
  BY <1>6 DEF DeleteIPs
<1>7. CASE CollectIPs \/ AgeToken \/ UNCHANGED tokenVars
  BY <1>7 DEF CollectIPs, AgeToken, tokenVars
<1>8. QED
  BY <1>1, <1>2, <1>3, <1>4, <1>5, <1>6, <1>7 DEF TokensNext, HandlerStep

(* A worker that finds a token finds one without a use. *)
LEMMA GetCounts ==
    ASSUME IInv, NEW w \in Handlers, GetToken(w)
    PROVE  UsesAndHolders'
<1> SUFFICES ASSUME NEW t \in Tokens
             PROVE  used[t] + Cardinality(Holders(t)') <= Cardinality(Handlers)
  BY DEF UsesAndHolders, GetToken
<1>1. PICK ip \in Askers : map[ip] # NoToken /\ inside'[w].found = map[ip]
                        /\ inside'[w].at = "check"
                        /\ \A v \in Handlers : v # w => inside'[v] = inside[v]
  BY DEF GetToken, IInv, TokensTypeOK
<1>2. CASE map[ip] = t
  <2>1. used[t] = 0
    BY <1>2, TKConstants, <1>1 DEF IInv, Placed, UsedIsGone
  <2>2. QED
    BY <2>1, HoldersCounted
<1>3. CASE map[ip] # t
  <2>1. Holders(t)' = Holders(t)
    BY <1>1, <1>3 DEF Holders, GetToken, Outside, IInv, TokensTypeOK
  <2>2. QED
    BY <2>1 DEF IInv, UsesAndHolders
<1>4. QED
  BY <1>2, <1>3

(* A use is counted by a worker that held the token. *)
LEMMA DeleteCounts ==
    ASSUME IInv, NEW w \in Handlers, DeleteToken(w)
    PROVE  UsesAndHolders'
<1> SUFFICES ASSUME NEW t \in Tokens
             PROVE  used'[t] + Cardinality(Holders(t)') <= Cardinality(Handlers)
  BY DEF UsesAndHolders
<1>1. Holders(t)' = Holders(t) \ {w}
  BY DEF Holders, DeleteToken, Leaves, Outside, IInv, TokensTypeOK
<1>2. CASE w \in Holders(t)
  <2>1. Cardinality(Holders(t)') = Cardinality(Holders(t)) - 1
    BY <1>1, <1>2, HoldersCounted, FS_RemoveElement
  <2>2. used'[t] <= used[t] + 1 /\ used'[t] \in Nat /\ used[t] \in Nat
    BY DEF DeleteToken, IInv, TokensTypeOK, Tokens
  <2>3. QED
    BY <2>1, <2>2, HoldersCounted DEF IInv, UsesAndHolders
<1>3. CASE w \notin Holders(t)
  <2>1. Holders(t)' = Holders(t)
    BY <1>1, <1>3
  <2>2. used'[t] = used[t]
    BY <1>3 DEF DeleteToken, Holders, IInv, TokensTypeOK
  <2>3. QED
    BY <2>1, <2>2 DEF IInv, UsesAndHolders
<1>4. QED
  BY <1>2, <1>3

LEMMA TokensKept == IInv /\ [TokensNext]_tokenVars => IInv'
<1> SUFFICES ASSUME IInv, [TokensNext]_tokenVars PROVE UsesAndHolders'
  BY TokenTypeKept, PlacedKept DEF IInv
<1>1. CASE \E w \in Handlers : GetToken(w)
  BY <1>1, GetCounts
<1>2. CASE \E w \in Handlers : DeleteToken(w)
  BY <1>2, DeleteCounts
<1>3. CASE \/ \E w \in Handlers : SendCurrent(w) \/ MakeToken(w) \/ SetToken(w)
           \/ CollectIPs \/ DeleteIPs \/ AgeToken \/ UNCHANGED tokenVars
  <2>1. used' = used
    BY <1>3 DEF SendCurrent, MakeToken, SetToken, CollectIPs, DeleteIPs, AgeToken, tokenVars
  <2>2. \A t \in Tokens : Holders(t)' = Holders(t)
    BY <1>3 DEF SendCurrent, MakeToken, SetToken, CollectIPs, DeleteIPs, AgeToken, tokenVars,
                Holders, Leaves, Outside, IInv, TokensTypeOK
  <2>3. QED
    BY <2>1, <2>2 DEF IInv, UsesAndHolders
<1>4. QED
  BY <1>1, <1>2, <1>3 DEF TokensNext, HandlerStep

(* The type invariant, for any peers, workers and tokens. *)
THEOREM TokenManagerTypeCorrect == TokensSpec => []TokensTypeOK
<1>1. IInv => TokensTypeOK
  BY DEF IInv
<1>2. QED
  BY TokensAtFirst, TokensKept, <1>1, PTL DEF TokensSpec

(* A token passes check for no more announces than there are workers,      *)
(* however the calls of token and check, expiry and the sweeps interleave. *)
THEOREM TokenUsesBounded == TokensSpec => []UsesBounded
<1>1. IInv => UsesBounded
  <2> SUFFICES ASSUME IInv, NEW t \in Tokens PROVE used[t] <= Cardinality(Handlers)
    BY DEF UsesBounded
  <2>1. used[t] \in Nat
    BY DEF IInv, TokensTypeOK
  <2>2. QED
    BY <2>1, HoldersCounted DEF IInv, UsesAndHolders
<1>2. QED
  BY TokensAtFirst, TokensKept, <1>1, PTL DEF TokensSpec
=============================================================================
