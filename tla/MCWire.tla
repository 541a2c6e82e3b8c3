-------------------------------- MODULE MCWire --------------------------------
(* Wire for three requests, two of them to one address. *)
EXTENDS Wire

CONSTANTS r1, r2, r3, a1, a2

MCAddrOf == [r \in Requests |-> IF r = r3 THEN a2 ELSE a1]
(* A piece and a part, of an honest peer and of another; two whole pieces. *)
MCSize == [r \in Requests |-> IF r = r2 THEN 4 ELSE 3]
(* Whole pieces only, and none. *)
MCWholeSize == [r \in Requests |-> CASE r = r1 -> 2 [] r = r2 -> 4 [] r = r3 -> 0]
=============================================================================
