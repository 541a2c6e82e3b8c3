------------------------------- MODULE NodeSet -------------------------------
(***************************************************************************)
(* What the rest of the DHT is promised of the routing table: a set of     *)
(* nodes that grows and shrinks by one node at a time and never grows      *)
(* beyond MaxNodes.  RoutingTable implements it with buckets, a map by     *)
(* address and several locks; TransactionManager relies on nothing else.   *)
(***************************************************************************)
EXTENDS Naturals, FiniteSets

CONSTANTS Members, MaxNodes
VARIABLE members

Init == members = {}

Add(n) == Cardinality(members) < MaxNodes /\ members' = members \cup {n}
Drop(n) == members' = members \ {n}

Next == \E n \in Members : Add(n) \/ Drop(n)

Spec == Init /\ [][Next]_members
=============================================================================
