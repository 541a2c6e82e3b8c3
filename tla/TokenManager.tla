----------------------------- MODULE TokenManager -----------------------------
(***************************************************************************)
(* The tokens a DHT node hands to those that ask for peers and wants back  *)
(* from those that announce themselves: the tokenManager of                *)
(* src/dht/krpc.go over a syncedMap, the workers that call token and       *)
(* check, and clear.  A step holds the map's lock once.                    *)
(***************************************************************************)
EXTENDS Naturals, FiniteSets

CONSTANTS
    Askers,      \* keys of the map: the ips of peers
    Handlers,    \* goroutines of handle
    MaxTokens,   \* bound of the model: tokens made
    NoToken

ASSUME TKConstants ==
    /\ IsFiniteSet(Handlers) /\ Handlers # {}
    /\ MaxTokens \in Nat \ {0} /\ NoToken \notin Nat

Tokens == 1..MaxTokens   \* randomString(5): no two are the same

VARIABLES
    map,       \* the syncedMap: ip -> token or NoToken
    expired,   \* tokens older than expiredAfter
    made,      \* number of tokens made
    sent,      \* sent[ip]: tokens sent to that ip
    inside,    \* inside[w]: where worker w is in token or check
    sweptIPs,  \* the ips clear has collected, or NoToken
    used       \* used[t]: announces whose token t passed check

tokenVars == <<map, expired, made, sent, inside, sweptIPs, used>>

Outside == [at |-> "none", ip |-> NoToken, found |-> NoToken, given |-> NoToken]
(* Mutant of Leaves: the call stays where it is. *)
LeavesInPlace(w) == inside' = [inside EXCEPT ![w].ip = NoToken]
Leaves(w) == inside' = [inside EXCEPT ![w] = Outside]

-----------------------------------------------------------------------------
(* token: reads the map; a missing or expired token is replaced.           *)

Current(ip) == map[ip] # NoToken /\ map[ip] \notin expired

SendCurrent(w) ==
    /\ inside[w] = Outside
    /\ \E ip \in Askers : Current(ip) /\ sent' = [sent EXCEPT ![ip] = @ \cup {map[ip]}]
    /\ UNCHANGED <<map, expired, made, inside, sweptIPs, used>>

MakeToken(w) ==
    /\ inside[w] = Outside /\ made < MaxTokens
    /\ made' = made + 1
    /\ \E ip \in Askers :
          /\ ~Current(ip)
          /\ inside' = [inside EXCEPT ![w] =
                        [at |-> "token", ip |-> ip, found |-> NoToken, given |-> made']]
    /\ UNCHANGED <<map, expired, sent, sweptIPs, used>>

SetToken(w) ==
    /\ inside[w].at = "token"
    /\ map' = [map EXCEPT ![inside[w].ip] = inside[w].given]
    /\ sent' = [sent EXCEPT ![inside[w].ip] = @ \cup {inside[w].given}]
    /\ Leaves(w)
    /\ UNCHANGED <<expired, made, sweptIPs, used>>

-----------------------------------------------------------------------------
(* check: reads the map; whatever it finds leaves the map, and is compared *)
(* with the token given.                                                   *)

GetToken(w) ==
    /\ inside[w] = Outside
    /\ \E ip \in Askers : \E t \in sent[ip] :
          /\ map[ip] # NoToken
          /\ inside' = [inside EXCEPT ![w] =
                        [at |-> "check", ip |-> ip, found |-> map[ip], given |-> t]]
    /\ UNCHANGED <<map, expired, made, sent, sweptIPs, used>>

(* Mutant of DeleteToken: the token stays in the map.       *)
DeleteTokenNot(w) ==
    /\ inside[w].at = "check"
    /\ used' = IF inside[w].found = inside[w].given
               THEN [used EXCEPT ![inside[w].given] = @ + 1] ELSE used
    /\ Leaves(w)
    /\ UNCHANGED <<map, expired, made, sent, sweptIPs>>

DeleteToken(w) ==
    /\ inside[w].at = "check"
    /\ map' = [map EXCEPT ![inside[w].ip] = NoToken]
    /\ used' = IF inside[w].found = inside[w].given
               THEN [used EXCEPT ![inside[w].given] = @ + 1] ELSE used
    /\ Leaves(w)
    /\ UNCHANGED <<expired, made, sent, sweptIPs>>

-----------------------------------------------------------------------------
(* Mutant of ExpiredIPs: < for > in the comparison of ages. *)
CurrentIPs == {ip \in Askers : Current(ip)}

(* clear: collects under the RLock of Iter, deletes under the Lock of      *)
(* DeleteMulti.                                                            *)
ExpiredIPs == {ip \in Askers : map[ip] \in expired}

CollectIPs ==
    /\ sweptIPs = NoToken
    /\ ExpiredIPs # {}
    /\ sweptIPs' = ExpiredIPs
    /\ UNCHANGED <<map, expired, made, sent, inside, used>>

DeleteIPs ==
    /\ sweptIPs # NoToken
    /\ map' = [ip \in Askers |-> IF ip \in sweptIPs THEN NoToken ELSE map[ip]]
    /\ sweptIPs' = NoToken
    /\ UNCHANGED <<expired, made, sent, inside, used>>

(* expiredAfter passes for a token. *)
AgeToken ==
    /\ \E t \in (1..made) \ expired : expired' = expired \cup {t}
    /\ UNCHANGED <<map, made, sent, inside, sweptIPs, used>>

-----------------------------------------------------------------------------
TokensInit ==
    /\ map = [ip \in Askers |-> NoToken]
    /\ expired = {} /\ made = 0
    /\ sent = [ip \in Askers |-> {}]
    /\ inside = [w \in Handlers |-> Outside]
    /\ sweptIPs = NoToken
    /\ used = [t \in Tokens |-> 0]

HandlerStep(w) == SendCurrent(w) \/ MakeToken(w) \/ SetToken(w) \/ GetToken(w) \/ DeleteToken(w)

TokensNext ==
    \/ \E w \in Handlers : HandlerStep(w)
    \/ CollectIPs \/ DeleteIPs
    \/ AgeToken

(* clear ticks for ever, and a call once begun goes on. *)
TokensFairness ==
    /\ WF_tokenVars(CollectIPs) /\ WF_tokenVars(DeleteIPs)
    /\ \A w \in Handlers : WF_tokenVars(SetToken(w)) /\ WF_tokenVars(DeleteToken(w))

TokensSpec == TokensInit /\ [][TokensNext]_tokenVars

-----------------------------------------------------------------------------
TokenCalls ==
    [at : {"none", "token", "check"}, ip : Askers \cup {NoToken},
     found : Tokens \cup {NoToken}, given : Tokens \cup {NoToken}]

(* Every variable holds values of its kind: the type invariant. *)
TokensTypeOK ==
    /\ map \in [Askers -> Tokens \cup {NoToken}]
    /\ expired \subseteq Tokens /\ made \in 0..MaxTokens
    /\ sent \in [Askers -> SUBSET Tokens]
    /\ inside \in [Handlers -> TokenCalls]
    /\ \A w \in Handlers : inside[w].at # "none" =>
          inside[w].ip \in Askers /\ inside[w].given \in Tokens
    /\ sweptIPs = NoToken \/ sweptIPs \subseteq Askers
    /\ used \in [Tokens -> Nat]

(* check reads and deletes in two steps, so one token may pass for several *)
(* announces at once, but for no more than there are workers: once it has  *)
(* been deleted nobody puts it back.                                       *)
UsesBounded == \A t \in Tokens : used[t] <= Cardinality(Handlers)

(* Expired tokens do not fill the map. *)
ExpiredTokensGo == \A ip \in Askers : (map[ip] \in expired) ~> (map[ip] \notin expired)
=============================================================================
