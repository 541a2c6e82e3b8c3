---------------------------- MODULE ListSequences ----------------------------
(***************************************************************************)
(* What list.h promises: each list is a sequence of nodes, and a node is   *)
(* in one list at most.  LinkedList is shown to implement it.              *)
(***************************************************************************)
EXTENDS Integers, Sequences, SequencesExt

CONSTANTS Lists, Nodes

VARIABLE seqs

Used == UNION {ToSet(seqs[l]) : l \in Lists}

Init == seqs = [l \in Lists |-> <<>>]

Insert(l, n, i) == n \notin Used /\ seqs' = [seqs EXCEPT ![l] = InsertAt(@, i, n)]
Erase(l, i) == seqs' = [seqs EXCEPT ![l] = RemoveAt(@, i)]
Clear(l) == seqs' = [seqs EXCEPT ![l] = <<>>]
Swap(l, m) == seqs' = [seqs EXCEPT ![l] = seqs[m], ![m] = seqs[l]]
CatAndClear(l, m) == seqs' = [seqs EXCEPT ![l] = @ \o seqs[m], ![m] = <<>>]

Next ==
    /\ seqs' # seqs    \* first, for it is told at once
    /\ \/ \E l \in Lists, n \in Nodes : \E i \in 1..Len(seqs[l]) + 1 : Insert(l, n, i)
       \/ \E l \in Lists : \E i \in 1..Len(seqs[l]) : Erase(l, i)
       \/ \E l \in Lists : Clear(l)
       \/ \E l, m \in Lists : l # m /\ (Swap(l, m) \/ CatAndClear(l, m))

Spec == Init /\ [][Next]_seqs
=============================================================================
