------------------------ MODULE MCTransactionManager ------------------------
(* TransactionManager on small instances: two remote nodes, a (a prime     *)
(* node) and b, and the node itself, which an answer may name.             *)
EXTENDS TransactionManager

CONSTANTS a, b, self, ip1, ip2

MCNodes == {a, b, self}
MCIps == {ip1, ip2}
(* a and b behind one address: a failed send to one blocks the other. *)
MCIpOf == [n \in MCNodes |-> IF n = self THEN ip2 ELSE ip1]
MCPrimeNodes == {a}

(* One remote node only. *)
MCTwoNodes == {a, self}
MCTwoIpOf == [n \in MCTwoNodes |-> IF n = self THEN ip2 ELSE ip1]
=============================================================================
