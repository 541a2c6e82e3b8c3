-------------------------------- MODULE MCMaps --------------------------------
(***************************************************************************)
(* The two syncedMaps that clear sweeps: the blacklist, on three addresses *)
(* of two ips, and the tokens.  They share nothing, so that a behaviour is *)
(* about one of them.  No step that is fair can be taken in the other: at  *)
(* the start nothing has expired and no call is under way.                 *)
(***************************************************************************)
EXTENDS BlackList, TokenManager

CONSTANTS ip1, ip2, a1, a2, a3

MCIPOf == [a \in {a1, a2, a3} |-> IF a = a3 THEN ip2 ELSE ip1]

VARIABLE part     \* what this behaviour is about

maps == <<part, vars, tokenVars>>

MapsInit == Init /\ TokensInit /\ part \in {"blacklist", "tokens"}

Blocks == part = "blacklist" /\ Next /\ UNCHANGED <<part, tokenVars>>
Hands == part = "tokens" /\ TokensNext /\ UNCHANGED <<part, vars>>
MapsNext == Blocks \/ Hands

MapsSpec == MapsInit /\ [][MapsNext]_maps /\ Fairness /\ TokensFairness
=============================================================================
