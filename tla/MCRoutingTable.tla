--------------------------- MODULE MCRoutingTable ---------------------------
(* RoutingTable on ids of two or three bits.                               *)
EXTENDS RoutingTable, TLC

CONSTANTS a1, a2, a3, a4

Node(id, addr) == [id |-> id, addr |-> addr]

(* Four ids, each at an address of its own; three share their first bit. *)
MCNodes == {Node(<<0, 0, 0>>, a1), Node(<<0, 0, 1>>, a2), Node(<<0, 1, 0>>, a3),
            Node(<<1, 0, 0>>, a4)}
(* Short ids, so that removals and splits meet in few steps.  Two part at *)
(* the last bit, which takes two splits in a row, and a third node comes   *)
(* with the id of another, as a node does that has changed its address.    *)
MCTrio == {Node(<<1, 0>>, a1), Node(<<1, 1>>, a2), Node(<<1, 1>>, a3)}

(* Removals are alike. *)
RemoverSymmetry == Permutations(Removers)
=============================================================================
