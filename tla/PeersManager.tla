----------------------------- MODULE PeersManager -----------------------------
(***************************************************************************)
(* The peers that announced one infohash: peersManager of                  *)
(* src/dht/routingtable.go over a keyedDeque (src/dht/container.go), with  *)
(* the handlers that insert.  The deque has a lock for its indexes and the *)
(* list in it one of its own: Len, Front and Iter take the second only.    *)
(* The deque of an infohash is made under pm.Lock and never taken away, so *)
(* that an empty one stands for none.                                      *)
(***************************************************************************)
EXTENDS Naturals, Sequences, FiniteSets

CONSTANTS
    Peers,        \* keys: the compact form of address and port
    Workers,      \* goroutines of handle
    K,            \* peers kept and answered
    MaxPushes,    \* bound of the model: announces of the infohash
    NoElement

ASSUME PeersAssumption == IsFiniteSet(Workers) /\ K \in Nat /\ MaxPushes \in Nat

Elements == Peers \X (1..MaxPushes)   \* a list.Element: its peer, and the push that made it

VARIABLES
    queue,           \* the list
    deque,           \* the index of the deque: key -> element or NoElement
    invertedIndex,   \* elements whose key is known
    pushes,
    call             \* call[w]: where worker w is in Insert, and what it holds

peersVars == <<queue, deque, invertedIndex, pushes, call>>

NoInsert == [at |-> "none", element |-> NoElement]
MovesTo(w, at, element) == call' = [call EXCEPT ![w] = [at |-> at, element |-> element]]
Returns(w) == call' = [call EXCEPT ![w] = NoInsert]

(* list.Remove does nothing for an element that is not in the list.        *)
ListRemove(q, e) ==
    LET i == CHOOSE i \in 1..Len(q) : q[i] = e
    IN IF e \in {q[j] : j \in 1..Len(q)} THEN SubSeq(q, 1, i - 1) \o SubSeq(q, i + 1, Len(q)) ELSE q

(* Push: a peer that is known loses its element, but not the key of it;    *)
(* the deque's lock is held until the new one is at the back.              *)
Unlocked == \A w \in Workers : call[w].at # "pushing"

Push(w) ==
    /\ call[w] = NoInsert /\ Unlocked
    /\ pushes < MaxPushes /\ pushes' = pushes + 1
    /\ \E peer \in Peers :
          /\ queue' = ListRemove(queue, deque[peer])
          /\ MovesTo(w, "pushing", <<peer, pushes'>>)
    /\ UNCHANGED <<deque, invertedIndex>>

PushBack(w) ==
    /\ call[w].at = "pushing"
    /\ LET e == call[w].element
       IN /\ queue' = Append(queue, e)
          /\ deque' = [deque EXCEPT ![e[1]] = e]
          /\ invertedIndex' = invertedIndex \cup {e}
    /\ MovesTo(w, "pushed", NoElement)
    /\ UNCHANGED pushes

(* Mutant of Overfull: the last place is not used. *)
OverfullEarly == Len(queue) >= K
Overfull == Len(queue) > K

TestLen(w) ==
    /\ call[w].at = "pushed"
    /\ IF Overfull THEN MovesTo(w, "front", NoElement) ELSE Returns(w)
    /\ UNCHANGED <<queue, deque, invertedIndex, pushes>>

TakeFront(w) ==
    /\ call[w].at = "front"
    /\ IF queue = <<>> THEN Returns(w) ELSE MovesTo(w, "remove", Head(queue))
    /\ UNCHANGED <<queue, deque, invertedIndex, pushes>>

(* Remove finds the key of the element, Delete the element of the key,     *)
(* which may be another, and takes that one off.                           *)
RemoveFront(w) ==
    /\ call[w].at = "remove" /\ Unlocked
    /\ IF call[w].element \in invertedIndex THEN MovesTo(w, "read", call[w].element) ELSE Returns(w)
    /\ UNCHANGED <<queue, deque, invertedIndex, pushes>>

ReadIndex(w) ==
    /\ call[w].at = "read" /\ Unlocked
    /\ LET e == deque[call[w].element[1]]
       IN IF e = NoElement THEN Returns(w) ELSE MovesTo(w, "delete", e)
    /\ UNCHANGED <<queue, deque, invertedIndex, pushes>>

Delete(w) ==
    /\ call[w].at = "delete" /\ Unlocked
    /\ LET e == call[w].element
       IN /\ queue' = ListRemove(queue, e)
          /\ deque' = [deque EXCEPT ![e[1]] = NoElement]
          /\ invertedIndex' = invertedIndex \ {e}
    /\ Returns(w)
    /\ UNCHANGED pushes

(* What get_peers answers: the last that announced themselves. *)
GetPeers(size) == SubSeq(queue, IF Len(queue) > size THEN Len(queue) - size + 1 ELSE 1, Len(queue))

PeersInit ==
    /\ queue = <<>> /\ deque = [p \in Peers |-> NoElement] /\ invertedIndex = {}
    /\ pushes = 0 /\ call = [w \in Workers |-> NoInsert]

Insert(w) ==
    \/ Push(w) \/ PushBack(w) \/ TestLen(w)
    \/ TakeFront(w) \/ RemoveFront(w) \/ ReadIndex(w) \/ Delete(w)

PeersNext == \E w \in Workers : Insert(w)
PeersSpec == PeersInit /\ [][PeersNext]_peersVars

-----------------------------------------------------------------------------
(* Insert pushes, tests the length and removes the front in steps, so that *)
(* workers side by side may remove more peers than they added, and those   *)
(* that have just announced themselves; but what they remove never leaves  *)
(* get_peers with fewer answers than K less one for every other worker, a  *)
(* peer that is between its two elements aside.                            *)
PeersKept ==
    [][Len(queue') < Len(queue) /\ Unlocked'
         => Len(GetPeers(K))' >= K + 1 - Cardinality(Workers)]_queue
=============================================================================
