----------------------------- MODULE PartsProofs -----------------------------
(***************************************************************************)
(* Proofs about parts that run by themselves: the lists of list.c, the     *)
(* rows of an infohash in the tables, and the peers of an infohash, for    *)
(* any number of them and of the processes at work.                        *)
(*                                                                         *)
(* Lists.  With the types RingsClosed is inductive as it stands: that the  *)
(* two directions are inverse does not keep a list in one ring, so         *)
(* Connected says it without counting steps, as a property of every set    *)
(* that following the pointers does not leave.  For the refinement of      *)
(* ListSequences it is not enough that a walk comes back: the invariant is *)
(* that there is a sequence for each list that its pointers thread         *)
(* (Threaded).  Each operation says which one is next, and that Walk finds *)
(* it is shown once, from the pointers alone.                              *)
(*                                                                         *)
(* Rows.  The bound is not inductive: a callback that has found no row     *)
(* adds one however many there are by then.  Counting these callbacks with *)
(* the rows makes it so, since a callback begins like this only where      *)
(* there is no row, and no row is ever deleted.                            *)
(*                                                                         *)
(* Peers.  Each worker that is about to remove a peer saw more than K, so  *)
(* that the last of them still finds K + 1 less what the others took       *)
(* (EnoughHeld).                                                           *)
(***************************************************************************)
EXTENDS LinkedList, Indexer, PeersManager, SequencesExt, FiniteSetTheorems,
        SequenceTheorems, WellFoundedInduction, TLAPS

IInv == LLTypeOK /\ RingsClosed

(* The nodes of a list are finitely many nodes, and cells of their own. *)
LEMMA Kept ==
    ASSUME NEW l \in Lists
    PROVE  /\ IsFiniteSet(In(l)) /\ Cardinality(In(l)) \in Nat
           /\ IsFiniteSet(In(l)') /\ Cardinality(In(l)') \in Nat
           /\ In(l) \subseteq Nodes /\ In(l)' \subseteq Nodes
           /\ l \in Cells /\ l \notin Nodes /\ l # Free
           /\ Nodes \subseteq Cells
<1>1. In(l) \subseteq Nodes /\ In(l)' \subseteq Nodes
  BY DEF In
<1>2. IsFiniteSet(In(l)) /\ IsFiniteSet(In(l)')
  BY <1>1, FS_Subset, LLConstants
<1>3. QED
  BY <1>1, <1>2, FS_CardinalityType, LLConstants DEF Cells

(* list_init makes each list a ring of its nil node. *)
LEMMA ClosedAtFirst == Init => IInv
<1> SUFFICES ASSUME Init PROVE IInv
  OBVIOUS
<1>1. LLTypeOK
  BY DEF Init, LLTypeOK, Cells
<1>2. \A l \in Lists : In(l) = {}
  BY LLConstants DEF Init, In
<1>3. BothWays /\ Apart
  BY <1>2 DEF Init, BothWays, Apart, Ring, Cells
<1>4. Connected /\ Counted
  BY <1>2, FS_EmptySet DEF Connected, Counted, Init
<1>5. QED
  BY <1>1, <1>3, <1>4 DEF IInv, RingsClosed

(* list_insert, before any cell of the list, and list_push with it. *)
LEMMA InsertKeepsRings ==
    ASSUME IInv, NEW l \in Lists, NEW n \in Nodes, NEW before \in Cells,
           ListInsert(l, n, before)
    PROVE  IInv'
<1> USE DEF IInv, RingsClosed
<1> DEFINE last == pre[before]
<1>1. before \in Ring(l) /\ before # n /\ n \in Cells /\ n \notin Lists
  BY LLConstants DEF ListInsert, Ring, In, Cells
<1>2. last \in Ring(l) /\ last # n /\ nxt[last] = before /\ last \in Cells
  BY <1>1, LLConstants DEF Apart, BothWays, Ring, In, ListInsert, LLTypeOK
<1>3. nxt[n] = n /\ pre[n] = n
  BY DEF Apart, ListInsert
<1>4. /\ nxt' = [nxt EXCEPT ![n] = before, ![last] = n]
      /\ pre' = [pre EXCEPT ![n] = last, ![before] = n]
      /\ place' = [place EXCEPT ![n] = l]
      /\ size' = [size EXCEPT ![l] = @ + 1]
      /\ place[n] = Free
  BY DEF ListInsert
<1>5. LLTypeOK'
  BY <1>1, <1>2, <1>4 DEF LLTypeOK
<1>6. \A m \in Lists : In(m)' = IF m = l THEN In(m) \cup {n} ELSE In(m)
  BY <1>4, LLConstants DEF In, LLTypeOK
<1>7. BothWays'
  BY <1>1, <1>2, <1>3, <1>4 DEF BothWays, LLTypeOK
<1>8. Apart'
  <2>1. ASSUME NEW m \in Lists, NEW c \in Ring(m)'
        PROVE  nxt'[c] \in Ring(m)' /\ pre'[c] \in Ring(m)'
    <3>1. Ring(m)' = IF m = l THEN Ring(m) \cup {n} ELSE Ring(m)
      BY <1>6 DEF Ring
    <3>2. n \notin Ring(m) /\ c \in Cells
      <4>1. n \notin In(m) /\ n # m
        BY <1>1, <1>4, LLConstants DEF In
      <4>2. Ring(m) \cup {n} \subseteq Cells
        BY <1>1, Kept DEF Ring
      <4>3. QED
        BY <3>1, <4>1, <4>2 DEF Ring
    <3>3. m # l => before \notin Ring(m) /\ last \notin Ring(m)
      BY <1>1, <1>2, LLConstants DEF Ring, In
    <3>4. QED
      BY <3>1, <3>2, <3>3, <1>1, <1>2, <1>4 DEF Apart, LLTypeOK
  <2>2. ASSUME NEW x \in Nodes, place'[x] = Free PROVE nxt'[x] = x /\ pre'[x] = x
    <3>1. x # n /\ place[x] = Free
      BY <2>2, <1>4, LLConstants DEF LLTypeOK
    <3>2. x # before /\ x # last
      BY <3>1, <1>1, <1>2, LLConstants, Kept DEF Ring, In
    <3>3. QED
      BY <3>1, <3>2, <1>4 DEF Apart, LLTypeOK, Cells
  <2>3. QED
    BY <2>1, <2>2 DEF Apart
<1>9. Connected'
  <2> SUFFICES ASSUME NEW m \in Lists, NEW S \in SUBSET Cells,
                      m \in S, \A c \in S : nxt'[c] \in S
               PROVE  In(m)' \subseteq S
    BY DEF Connected, Cells
  <2> DEFINE T == S \ {n}
  <2>1. \A c \in T : nxt[c] \in T
    BY <1>1, <1>2, <1>3, <1>4 DEF LLTypeOK, BothWays
  <2>2. In(m) \subseteq T
    BY <2>1, <1>1 DEF Connected
  <2>3. m = l => n \in S
    BY <2>2, <1>2, <1>4 DEF Ring, LLTypeOK
  <2>4. QED
    BY <2>2, <2>3, <1>6
<1>10. Counted'
  <2>1. Cardinality(In(l) \cup {n}) = Cardinality(In(l)) + 1
    BY <1>4, FS_AddElement, Kept, LLConstants DEF In
  <2>2. QED
    BY <2>1, <1>4, <1>6, Kept DEF Counted, LLTypeOK
<1>11. QED
  BY <1>5, <1>7, <1>8, <1>9, <1>10

(* list_erase of a node of the list, and list_pop of its first.            *)
LEMMA EraseKeepsRings ==
    ASSUME IInv, NEW l \in Lists, NEW n \in Nodes, ListErase(l, n)
    PROVE  IInv'
<1> USE DEF IInv, RingsClosed
<1> DEFINE p == pre[n]
           q == nxt[n]
<1>1. n \in In(l) /\ n \in Ring(l) /\ n \in Cells /\ n \notin Lists
  BY LLConstants DEF ListErase, Ring, In, Cells
<1>2. /\ p \in Ring(l) /\ q \in Ring(l) /\ p \in Cells /\ q \in Cells
      /\ nxt[p] = n /\ pre[q] = n
  BY <1>1 DEF Apart, BothWays, LLTypeOK
<1>3. l \in Cells /\ l # n /\ nxt[l] \in Ring(l) /\ pre[l] \in Ring(l)
  BY <1>1, Kept DEF Apart, Ring
<1>4. p # n /\ q # n
  <2>1. ASSUME p = n \/ q = n PROVE FALSE
    <3>1. nxt[n] = n
      BY <2>1, <1>2
    <3>2. \A c \in Cells \ {n} : nxt[c] \in Cells \ {n}
      BY <3>1, <1>1 DEF BothWays, LLTypeOK
    <3>3. In(l) \subseteq Cells \ {n}
      BY <3>2, <1>3 DEF Connected
    <3>4. QED
      BY <3>3, <1>1
  <2>2. QED
    BY <2>1
<1>5. /\ nxt' = [nxt EXCEPT ![p] = q, ![n] = n]
      /\ pre' = [pre EXCEPT ![n] = n, ![q] = p]
      /\ place' = [place EXCEPT ![n] = Free]
      /\ size' = [size EXCEPT ![l] = @ - 1]
  <2>1. pre' = [pre EXCEPT ![q] = p, ![n] = n]
    BY DEF ListErase
  <2>2. QED
    BY <2>1, <1>4 DEF ListErase, LLTypeOK
<1>6. LLTypeOK'
  BY <1>1, <1>2, <1>5 DEF LLTypeOK
<1>7. \A m \in Lists : In(m)' = IF m = l THEN In(m) \ {n} ELSE In(m)
  BY <1>1, <1>5, LLConstants DEF In, LLTypeOK
<1>8. BothWays'
  BY <1>1, <1>2, <1>4, <1>5 DEF BothWays, LLTypeOK
<1>9. Apart'
  <2>1. ASSUME NEW m \in Lists, NEW c \in Ring(m)'
        PROVE  nxt'[c] \in Ring(m)' /\ pre'[c] \in Ring(m)'
    <3>1. Ring(m)' = Ring(m) \ {n}
      BY <1>1, <1>7, LLConstants DEF Ring, In
    <3>2. c \in Cells /\ c # n /\ c \in Ring(m)
      BY <3>1, Kept DEF Ring, Cells
    <3>3. m # l => p \notin Ring(m) /\ q \notin Ring(m)
      BY <1>2, LLConstants DEF Ring, In
    <3>4. nxt[c] = n => c = p
      BY <3>2 DEF BothWays
    <3>5. pre[c] = n => c = q
      BY <3>2 DEF BothWays
    <3>6. nxt[c] \in Ring(m) /\ pre[c] \in Ring(m)
      BY <3>2 DEF Apart
    <3>7. nxt'[c] = IF c = p THEN q ELSE nxt[c]
      BY <3>2, <1>2, <1>5 DEF LLTypeOK
    <3>8. pre'[c] = IF c = q THEN p ELSE pre[c]
      BY <3>2, <1>2, <1>4, <1>5 DEF LLTypeOK
    <3>9. QED
      BY <3>1, <3>2, <3>3, <3>4, <3>5, <3>6, <3>7, <3>8, <1>2, <1>4
  <2>2. ASSUME NEW x \in Nodes, place'[x] = Free PROVE nxt'[x] = x /\ pre'[x] = x
    <3>1. CASE x = n
      BY <3>1, <1>1, <1>4, <1>5, <1>2 DEF LLTypeOK
    <3>2. CASE x # n
      <4>1. place[x] = Free /\ x \in Cells
        BY <2>2, <3>2, <1>5 DEF LLTypeOK, Cells
      <4>2. x # p /\ x # q
        BY <4>1, <1>2, LLConstants DEF Ring, In
      <4>3. QED
        BY <4>1, <4>2, <3>2, <1>5 DEF Apart, LLTypeOK
    <3>3. QED
      BY <3>1, <3>2
  <2>3. QED
    BY <2>1, <2>2 DEF Apart
<1>10. Connected'
  <2> SUFFICES ASSUME NEW m \in Lists, NEW S \in SUBSET Cells,
                      m \in S, \A c \in S : nxt'[c] \in S
               PROVE  In(m)' \subseteq S
    BY DEF Connected, Cells
  <2> DEFINE T == S \cup {n}
             U == S \ {n}
  <2>1. m # n
    BY <1>1
  <2>2. CASE p \in S
    <3>1. q \in S
      BY <2>2, <1>2, <1>4, <1>5 DEF LLTypeOK
    <3>2. \A c \in T : nxt[c] \in T
      BY <3>1, <1>1, <1>2, <1>5 DEF LLTypeOK
    <3>3. In(m) \subseteq T
      <4>1. T \in SUBSET Cells /\ m \in T
        BY <1>1 DEF Cells
      <4> HIDE DEF T
      <4>2. QED
        BY <3>2, <4>1, Zenon DEF Connected
    <3>4. QED
      BY <3>3, <1>1, <1>7, LLConstants DEF In
  <2>3. CASE p \notin S
    <3>1. \A c \in U : nxt[c] \in U
      BY <2>3, <1>1, <1>2, <1>5 DEF LLTypeOK, BothWays
    <3>2. In(m) \subseteq U
      <4>1. U \in SUBSET Cells /\ m \in U
        BY <2>1
      <4> HIDE DEF U
      <4>2. QED
        BY <3>1, <4>1, Zenon DEF Connected
    <3>3. QED
      BY <3>2, <1>7
  <2>4. QED
    BY <2>2, <2>3
<1>11. Counted'
  <2>1. Cardinality(In(l) \ {n}) = Cardinality(In(l)) - 1
    BY <1>1, FS_RemoveElement, Kept
  <2>2. QED
    BY <2>1, <1>5, <1>7, Kept DEF Counted, LLTypeOK
<1>12. QED
  BY <1>6, <1>8, <1>9, <1>10, <1>11

(* The first cell of a list that has a size is a node of it. *)
LEMMA FirstIsNode ==
    ASSUME IInv, NEW l \in Lists, size[l] > 0
    PROVE  nxt[l] \in In(l) /\ pre[l] \in In(l)
<1> USE DEF IInv, RingsClosed
<1>1. In(l) # {}
  BY FS_EmptySet DEF Counted
<1>2. nxt[l] # l
  <2>1. ASSUME nxt[l] = l PROVE FALSE
    <3>1. {l} \in SUBSET Cells /\ \A c \in {l} : nxt[c] \in {l}
      BY <2>1, Kept
    <3>2. In(l) \subseteq {l}
      BY <3>1 DEF Connected
    <3>3. QED
      BY <3>2, <1>1, Kept
  <2>2. QED
    BY <2>1
<1>3. pre[l] # l
  BY <1>2, Kept DEF BothWays
<1>4. QED
  BY <1>2, <1>3 DEF Apart, Ring

(* Two lists have no cell in common. *)
LEMMA RingsDiffer ==
    ASSUME LLTypeOK, NEW l \in Lists, NEW m \in Lists, l # m
    PROVE  Ring(l) \cap Ring(m) = {}
BY LLConstants DEF Ring, In

(* list_clear frees the nodes of the list and no other. *)
LEMMA ClearKeepsRings ==
    ASSUME IInv, NEW l \in Lists, ListClear(l)
    PROVE  IInv'
<1> USE DEF IInv, RingsClosed
<1>1. {pre[nxt[n]] : n \in In(l)} = In(l)
  BY Kept DEF BothWays
<1>2. /\ nxt' = [c \in Cells |-> IF c \in Ring(l) THEN c ELSE nxt[c]]
      /\ pre' = [c \in Cells |-> IF c \in Ring(l) THEN c ELSE pre[c]]
      /\ size' = [size EXCEPT ![l] = 0]
      /\ place' = [n \in Nodes |-> IF n \in In(l) THEN Free ELSE place[n]]
  BY <1>1 DEF ListClear, Ring
<1>3. LLTypeOK'
  BY <1>2 DEF LLTypeOK
<1>4. \A m \in Lists : In(m)' = IF m = l THEN {} ELSE In(m)
  BY <1>2, LLConstants DEF In, LLTypeOK
<1>5. l \in Cells /\ l \in Ring(l) /\ Ring(l) \subseteq Cells
  BY Kept DEF Ring
<1>6. BothWays'
  <2>1. \A c \in Cells : c \notin Ring(l) => nxt[c] \notin Ring(l) /\ pre[c] \notin Ring(l)
    BY <1>5 DEF BothWays, Apart, LLTypeOK
  <2>2. QED
    BY <1>2, <2>1 DEF BothWays, LLTypeOK
<1>7. Apart'
  <2>1. ASSUME NEW m \in Lists, NEW c \in Ring(m)'
        PROVE  nxt'[c] \in Ring(m)' /\ pre'[c] \in Ring(m)'
    <3>1. CASE m = l
      BY <3>1, <1>2, <1>4, <1>5 DEF Ring
    <3>2. CASE m # l
      BY <3>2, <1>2, <1>4, RingsDiffer, Kept DEF Ring, Apart
    <3>3. QED
      BY <3>1, <3>2
  <2>2. ASSUME NEW x \in Nodes, place'[x] = Free PROVE nxt'[x] = x /\ pre'[x] = x
    BY <2>2, <1>2 DEF Apart, Ring, Cells
  <2>3. QED
    BY <2>1, <2>2 DEF Apart
<1>8. Connected'
  <2> SUFFICES ASSUME NEW m \in Lists, NEW S \in SUBSET Cells, m # l,
                      m \in S, \A c \in S : nxt'[c] \in S
               PROVE  In(m) \subseteq S
    BY <1>4 DEF Connected, Cells
  <2> DEFINE T == S \cap Ring(m)
  <2>1. \A c \in T : nxt[c] \in T
    BY <1>2, RingsDiffer DEF Apart
  <2>2. m \in T
    BY DEF Ring
  <2>3. QED
    BY <2>1, <2>2 DEF Connected
<1>9. Counted'
  BY <1>2, <1>4, FS_EmptySet DEF Counted, LLTypeOK
<1>10. QED
  BY <1>3, <1>6, <1>7, <1>8, <1>9

(* list_swap is the renaming of the two nil nodes in all that is there.    *)
Other(c, l, m) == IF c = l THEN m ELSE IF c = m THEN l ELSE c

LEMMA SwapRenames ==
    ASSUME IInv, NEW l \in Lists, NEW m \in Lists, ListSwap(l, m), NEW c \in Cells
    PROVE  /\ nxt'[c] = Other(nxt[Other(c, l, m)], l, m)
           /\ pre'[c] = Other(pre[Other(c, l, m)], l, m)
<1> USE DEF IInv, RingsClosed
<1>1. l # m /\ l \in Cells /\ m \in Cells /\ l \notin Nodes /\ m \notin Nodes
  BY Kept DEF ListSwap
<1>2. ASSUME NEW k \in Lists, ~(size[k] > 0) PROVE nxt[k] = k /\ pre[k] = k
  <2>1. In(k) = {}
    BY <1>2, Kept, FS_EmptySet DEF Counted
  <2>2. QED
    BY <2>1 DEF Apart, Ring
<1>3. ASSUME NEW k \in Lists, size[k] > 0
      PROVE  nxt[k] \in Nodes /\ pre[k] \in Nodes
  BY <1>3, FirstIsNode DEF In
<1>4. /\ nxt'[c] = Exchanged(nxt, pre, l, m)[c]
      /\ pre'[c] = Exchanged(pre, nxt, l, m)[c]
  BY DEF ListSwap
<1>5. nxt[c] \in {l, m} => c = pre[nxt[c]]
  BY DEF BothWays
<1>6. pre[c] \in {l, m} => c = nxt[pre[c]]
  BY DEF BothWays
<1>7. nxt[pre[l]] = l /\ nxt[pre[m]] = m /\ pre[nxt[l]] = l /\ pre[nxt[m]] = m
  BY <1>1 DEF BothWays
<1>8. nxt'[c] = Other(nxt[Other(c, l, m)], l, m)
  <2>1. CASE c = l
    BY <2>1, <1>1, <1>2, <1>3, <1>4 DEF Exchanged, Other
  <2>2. CASE c = m
    BY <2>2, <1>1, <1>2, <1>3, <1>4 DEF Exchanged, Other
  <2>3. CASE c # l /\ c # m
    BY <2>3, <1>1, <1>2, <1>3, <1>4, <1>5, <1>7 DEF Exchanged, Other
  <2>4. QED
    BY <2>1, <2>2, <2>3
<1>9. pre'[c] = Other(pre[Other(c, l, m)], l, m)
  <2>1. CASE c = l
    BY <2>1, <1>1, <1>2, <1>3, <1>4 DEF Exchanged, Other
  <2>2. CASE c = m
    BY <2>2, <1>1, <1>2, <1>3, <1>4 DEF Exchanged, Other
  <2>3. CASE c # l /\ c # m
    BY <2>3, <1>1, <1>2, <1>3, <1>4, <1>6, <1>7 DEF Exchanged, Other
  <2>4. QED
    BY <2>1, <2>2, <2>3
<1>10. QED
  BY <1>8, <1>9

LEMMA SwapKeepsRings ==
    ASSUME IInv, NEW l \in Lists, NEW m \in Lists, ListSwap(l, m)
    PROVE  IInv'
<1> USE DEF IInv, RingsClosed
<1> DEFINE o(c) == Other(c, l, m)
<1>1. l # m /\ l \in Cells /\ m \in Cells /\ l \notin Nodes /\ m \notin Nodes
  BY Kept DEF ListSwap
<1>2. \A c \in Cells : o(c) \in Cells /\ o(o(c)) = c
  BY <1>1 DEF Other
<1>3. \A c \in Cells : nxt'[c] = o(nxt[o(c)]) /\ pre'[c] = o(pre[o(c)])
  BY SwapRenames
<1>4. \A k \in Lists : o(k) \in Lists
  BY DEF Other
<1>5. \A k \in Lists : In(k)' = In(o(k))
  BY <1>1, LLConstants DEF ListSwap, In, Other, LLTypeOK
<1>6. \A n \in Nodes : o(n) = n
  BY <1>1 DEF Other
<1>7. LLTypeOK'
  <2>1. nxt' = Exchanged(nxt, pre, l, m) /\ pre' = Exchanged(pre, nxt, l, m)
    BY DEF ListSwap
  <2>2. nxt' = [c \in Cells |-> nxt'[c]] /\ pre' = [c \in Cells |-> pre'[c]]
    <3> DEFINE e(f, g) == Exchanged(f, g, l, m)
    <3>1. /\ e(nxt, pre) = [c \in Cells |-> e(nxt, pre)[c]]
          /\ e(pre, nxt) = [c \in Cells |-> e(pre, nxt)[c]]
      BY Zenon DEF Exchanged
    <3>2. QED
      BY <2>1, <3>1, Zenon
  <2>3. ASSUME NEW c \in Cells PROVE nxt'[c] \in Cells /\ pre'[c] \in Cells
    <3>1. o(c) \in Cells
      BY <1>2
    <3>2. nxt[o(c)] \in Cells /\ pre[o(c)] \in Cells
      BY <3>1 DEF LLTypeOK
    <3>3. o(nxt[o(c)]) \in Cells /\ o(pre[o(c)]) \in Cells
      BY <1>2, <3>2
    <3>4. QED
      BY <1>3, <3>3
  <2>4. nxt' \in [Cells -> Cells] /\ pre' \in [Cells -> Cells]
    BY <2>2, <2>3
  <2>5. QED
    BY <2>4 DEF LLTypeOK, ListSwap
<1>8. BothWays'
  BY <1>2, <1>3, SMTT(30) DEF BothWays, LLTypeOK
<1>9. Apart'
  <2>1. ASSUME NEW k \in Lists, NEW c \in Ring(k)'
        PROVE  nxt'[c] \in Ring(k)' /\ pre'[c] \in Ring(k)'
    <3>1. \A d \in Cells : d \in Ring(k)' <=> o(d) \in Ring(o(k))
      BY <1>1, <1>4, <1>5, Kept DEF Ring, Other, In
    <3>2. c \in Cells
      BY Kept DEF Ring, Cells
    <3>3. nxt[o(c)] \in Ring(o(k)) /\ pre[o(c)] \in Ring(o(k))
      BY <3>1, <3>2, <1>4 DEF Apart
    <3>4. nxt[o(c)] \in Cells /\ pre[o(c)] \in Cells
      BY <3>2, <1>2 DEF LLTypeOK
    <3>5. QED
      BY <3>1, <3>2, <3>3, <3>4, <1>2, <1>3
  <2>2. ASSUME NEW x \in Nodes, place'[x] = Free PROVE nxt'[x] = x /\ pre'[x] = x
    <3>1. place[x] = Free
      BY <2>2, LLConstants DEF ListSwap, LLTypeOK
    <3>2. QED
      BY <3>1, <1>3, <1>6 DEF Apart, Cells
  <2>3. QED
    BY <2>1, <2>2 DEF Apart
<1>10. Connected'
  <2> SUFFICES ASSUME NEW k \in Lists, NEW S \in SUBSET Cells,
                      k \in S, \A c \in S : nxt'[c] \in S
               PROVE  In(k)' \subseteq S
    BY DEF Connected, Cells
  <2> DEFINE T == {c \in Cells : o(c) \in S}
  <2>1. o(k) \in T
    BY <1>2 DEF Cells
  <2>2. ASSUME NEW c \in T PROVE nxt[c] \in T
    <3>1. c \in Cells /\ o(c) \in S /\ nxt[c] \in Cells
      BY DEF LLTypeOK
    <3>2. nxt'[o(c)] \in S
      BY <3>1
    <3>3. QED
      BY <1>2, <1>3, <3>1, <3>2
  <2>3. In(o(k)) \subseteq T
    <3>1. T \in SUBSET Cells /\ o(k) \in Lists
      BY <1>4
    <3> HIDE DEF T
    <3>2. QED
      BY <2>1, <2>2, <3>1, Zenon DEF Connected
  <2>4. QED
    BY <2>3, <1>5, <1>6, Kept, <1>4
<1>11. Counted'
  BY <1>1, <1>5 DEF Counted, ListSwap, LLTypeOK, Other
<1>12. QED
  BY <1>7, <1>8, <1>9, <1>10, <1>11

(* list_cat_and_clear opens both rings and closes them to one.             *)
LEMMA CatKeepsRings ==
    ASSUME IInv, NEW l \in Lists, NEW m \in Lists, ListCatAndClear(l, m)
    PROVE  IInv'
<1> USE DEF IInv, RingsClosed
<1> DEFINE end   == pre[l]
           first == nxt[m]
           last  == pre[m]
<1>1. l # m /\ l \in Cells /\ m \in Cells /\ l \notin Nodes /\ m \notin Nodes
  BY Kept DEF ListCatAndClear
<1>2. first \in In(m) /\ last \in In(m) /\ end \in Ring(l) /\ l \in Ring(l) /\ m \in Ring(m)
  BY FirstIsNode DEF ListCatAndClear, Apart, Ring
<1>3. Ring(l) \cap Ring(m) = {} /\ Ring(l) \subseteq Cells /\ Ring(m) \subseteq Cells
  BY <1>1, RingsDiffer, Kept DEF Ring
<1>4. nxt[end] = l /\ nxt[last] = m /\ pre[first] = m
  BY <1>1 DEF BothWays
<1>5. /\ end \in Cells /\ last \in Cells /\ first \in Cells
      /\ end \notin In(m) /\ end # m /\ last # m /\ first # m /\ last # l /\ first # l
  BY <1>1, <1>2, <1>3, Kept DEF Ring
<1>6. /\ nxt' = [nxt EXCEPT ![end] = first, ![last] = l, ![m] = m]
      /\ pre' = [pre EXCEPT ![first] = end, ![l] = last, ![m] = m]
      /\ size' = [size EXCEPT ![l] = @ + size[m], ![m] = 0]
      /\ place' = [n \in Nodes |-> IF place[n] = m THEN l ELSE place[n]]
  BY DEF ListCatAndClear
<1>7. LLTypeOK'
  BY <1>1, <1>5, <1>6 DEF LLTypeOK
<1>8. \A k \in Lists : In(k)' = IF k = l THEN In(l) \cup In(m)
                                ELSE IF k = m THEN {} ELSE In(k)
  BY <1>1, <1>6, LLConstants DEF In, LLTypeOK
<1>9. /\ \A c \in Cells : nxt'[c] = IF c = end THEN first ELSE IF c = last THEN l
                                    ELSE IF c = m THEN m ELSE nxt[c]
      /\ \A c \in Cells : pre'[c] = IF c = first THEN end ELSE IF c = l THEN last
                                    ELSE IF c = m THEN m ELSE pre[c]
  BY <1>1, <1>2, <1>5, <1>6 DEF LLTypeOK
<1>10. BothWays'
  BY <1>1, <1>2, <1>4, <1>5, <1>9 DEF BothWays, LLTypeOK
<1>11. Ring(l)' = Ring(l) \cup In(m) /\ Ring(m)' = {m}
  BY <1>1, <1>8 DEF Ring
<1>12. Apart'
  <2>1. ASSUME NEW c \in Ring(l)' PROVE nxt'[c] \in Ring(l)' /\ pre'[c] \in Ring(l)'
    <3>1. c \in Cells /\ c # m
      BY <1>1, <1>3, <1>11, <1>2, Kept DEF Ring
    <3>2. c \in In(m) => nxt[c] \in Ring(m) /\ pre[c] \in Ring(m)
      BY DEF Apart, Ring
    <3>3. nxt[c] = m => c = last
      BY <3>1 DEF BothWays
    <3>4. pre[c] = m => c = first
      BY <3>1 DEF BothWays
    <3>5. c \in Ring(l) => nxt[c] \in Ring(l) /\ pre[c] \in Ring(l)
      BY DEF Apart
    <3>6. QED
      BY <1>2, <1>9, <1>11, <3>1, <3>2, <3>3, <3>4, <3>5 DEF Ring
  <2>2. nxt'[m] \in Ring(m)' /\ pre'[m] \in Ring(m)'
    BY <1>1, <1>5, <1>9, <1>11
  <2>3. ASSUME NEW k \in Lists, k # l, k # m, NEW c \in Ring(k)'
        PROVE  nxt'[c] \in Ring(k)' /\ pre'[c] \in Ring(k)'
    <3>1. Ring(k)' = Ring(k) /\ Ring(k) \subseteq Cells
      BY <1>8, <2>3, Kept DEF Ring
    <3>2. Ring(k) \cap Ring(l) = {} /\ Ring(k) \cap Ring(m) = {}
      BY <2>3, RingsDiffer
    <3>3. nxt'[c] = nxt[c] /\ pre'[c] = pre[c]
      BY <3>1, <3>2, <1>2, <1>9 DEF Ring
    <3>4. QED
      BY <3>1, <3>3 DEF Apart
  <2>4. ASSUME NEW x \in Nodes, place'[x] = Free PROVE nxt'[x] = x /\ pre'[x] = x
    <3>1. place[x] = Free /\ x \in Cells /\ x # m /\ x # l
      BY <2>4, <1>1, <1>6, LLConstants DEF Cells
    <3>2. x # end /\ x # last /\ x # first
      BY <3>1, <1>2, LLConstants DEF Ring, In
    <3>3. QED
      BY <3>1, <3>2, <1>9 DEF Apart
  <2>5. QED
    BY <2>1, <2>2, <2>3, <2>4, <1>11 DEF Apart
<1>13. Connected'
  <2> SUFFICES ASSUME NEW k \in Lists, NEW S \in SUBSET Cells,
                      k \in S, \A c \in S : nxt'[c] \in S
               PROVE  In(k)' \subseteq S
    BY DEF Connected, Cells
  <2> DEFINE T == S \cap Ring(k)
             U == (S \cap In(m)) \cup {m}
  <2>1. k \in T
    BY DEF Ring
  <2>2. CASE k # l /\ k # m
    <3>1. Ring(k) \cap Ring(l) = {} /\ Ring(k) \cap Ring(m) = {}
      BY <2>2, RingsDiffer
    <3>2. \A c \in T : nxt[c] \in T
      BY <3>1, <1>2, <1>9 DEF Apart, Ring
    <3>3. In(k) \subseteq T
      BY <3>2, <2>1 DEF Connected
    <3>4. QED
      BY <3>3, <2>2, <1>8
  <2>3. CASE k = l
    <3>1. \A c \in T : nxt[c] \in T
      BY <2>1, <2>3, <1>2, <1>3, <1>4, <1>9 DEF Apart, Ring
    <3>2. In(l) \subseteq S
      BY <3>1, <2>1, <2>3 DEF Connected
    <3>3. first \in S
      BY <3>2, <2>3, <1>2, <1>5, <1>9 DEF Ring
    <3>4. \A c \in U : nxt[c] \in U
      <4>1. nxt[m] \in U
        BY <3>3, <1>2
      <4>2. ASSUME NEW c \in S \cap In(m) PROVE nxt[c] \in U
        <5>1. c \in Cells /\ c # end /\ c # m /\ nxt[c] \in Ring(m)
          BY <1>1, <1>5, Kept DEF Apart, Ring
        <5>2. c # last => nxt'[c] = nxt[c]
          BY <5>1, <1>9
        <5>3. QED
          BY <5>1, <5>2, <1>4 DEF Ring
      <4>3. QED
        BY <4>1, <4>2
    <3>5. U \in SUBSET Cells
      BY <1>1
    <3>6. In(m) \subseteq U
      BY <3>4, <3>5 DEF Connected
    <3>7. QED
      BY <3>2, <3>6, <2>3, <1>1, <1>8, Kept
  <2>4. CASE k = m
    BY <2>4, <1>1, <1>8
  <2>5. QED
    BY <2>2, <2>3, <2>4
<1>14. Counted'
  <2>1. In(l) \cap In(m) = {}
    BY <1>3 DEF Ring
  <2>2. Cardinality(In(l) \cup In(m)) = Cardinality(In(l)) + Cardinality(In(m))
    <3>1. Cardinality(In(l) \cup In(m))
            = Cardinality(In(l)) + Cardinality(In(m)) - Cardinality(In(l) \cap In(m))
      BY Kept, FS_Union
    <3>2. QED
      BY <3>1, <2>1, Kept, FS_EmptySet
  <2>3. QED
    BY <2>2, <1>1, <1>6, <1>8, FS_EmptySet DEF Counted, LLTypeOK
<1>15. QED
  BY <1>7, <1>10, <1>12, <1>13, <1>14

(* Every operation keeps the rings. *)
LEMMA StepKeepsRings == IInv /\ [Next]_vars => IInv'
<1> SUFFICES ASSUME IInv, [Next]_vars PROVE IInv'
  OBVIOUS
<1>1. ASSUME NEW l \in Lists, NEW n \in Nodes, NEW before \in Cells,
             ListInsert(l, n, before)
      PROVE  IInv'
  BY <1>1, InsertKeepsRings
<1>2. ASSUME NEW l \in Lists, NEW n \in Nodes, ListPush(l, n) PROVE IInv'
  BY <1>2, InsertKeepsRings DEF ListPush, Cells
<1>3. ASSUME NEW l \in Lists, NEW n \in Nodes, ListErase(l, n) PROVE IInv'
  BY <1>3, EraseKeepsRings
<1>4. ASSUME NEW l \in Lists, ListPop(l) PROVE IInv'
  BY <1>4, FirstIsNode, EraseKeepsRings DEF ListPop, In
<1>5. ASSUME NEW l \in Lists, ListClear(l) PROVE IInv'
  BY <1>5, ClearKeepsRings
<1>6. ASSUME NEW l \in Lists, NEW m \in Lists, ListSwap(l, m) \/ ListCatAndClear(l, m)
      PROVE  IInv'
  BY <1>6, SwapKeepsRings, CatKeepsRings
<1>7. CASE UNCHANGED vars
  BY <1>7 DEF vars, IInv, LLTypeOK, RingsClosed, BothWays, Apart, Connected, Counted,
              Ring, In, Cells
<1>8. QED
  BY <1>1, <1>2, <1>3, <1>4, <1>5, <1>6, <1>7 DEF Next

(* For any lists and any nodes, each list of list.c is after every         *)
(* sequence of operations one ring of its own, closed in both directions,  *)
(* that passes by all its nodes and has as many of them as its size says.  *)
THEOREM ListRingsClosed == Spec => []RingsClosed
<1>1. IInv => RingsClosed
  BY DEF IInv
<1>2. QED
  BY <1>1, ClosedAtFirst, StepKeepsRings, PTL DEF Spec

(* list_pop, list_clear and list_swap follow a pointer of the nil node     *)
(* when the size is not zero: it then leads to a node of this list.        *)
EndsAreNodes == \A l \in Lists : size[l] > 0 => nxt[l] \in In(l) /\ pre[l] \in In(l)
THEOREM ListEndsAreNodes == Spec => []EndsAreNodes
<1>1. IInv => EndsAreNodes
  BY FirstIsNode DEF EndsAreNodes
<1>2. QED
  BY <1>1, ClosedAtFirst, StepKeepsRings, PTL DEF Spec

-----------------------------------------------------------------------------
(* The sequence that the pointers of a list thread, its nil node before    *)
(* the first and after the last.                                           *)

At(l, q, i) == IF i \in 1..Len(q) THEN q[i] ELSE l

Threads(l, q) ==
    /\ q \in Seq(Nodes)
    /\ {q[i] : i \in 1..Len(q)} = In(l)
    /\ \A i, j \in 1..Len(q) : q[i] = q[j] => i = j
    /\ \A i \in 0..Len(q) : nxt[At(l, q, i)] = At(l, q, i + 1)

Threaded == \E qs \in [Lists -> Seq(Nodes)] : \A l \in Lists : Threads(l, qs[l])

LEMMA LeastNumber ==
    ASSUME NEW T \in SUBSET Nat, T # {}
    PROVE  \E k \in T : \A m \in T : k <= m
<1>1. PICK k \in T : \A m \in T : ~(<<m, k>> \in OpToRel(<, Nat))
  BY NatLessThanWellFounded, WFMin, Zenon
<1>2. \A m \in T : ~(m < k)
  BY <1>1, Zenon DEF OpToRel
<1>3. QED
  BY <1>2

(* A list with its nodes in a sequence is no longer than the memory. *)
LEMMA ThreadLength ==
    ASSUME NEW l \in Lists, NEW q, Threads(l, q)
    PROVE  /\ Len(q) \in Nat /\ Len(q) = Cardinality(In(l))
           /\ Cardinality(Nodes) \in Nat /\ Len(q) <= Cardinality(Nodes)
<1>1. Len(q) \in Nat /\ q \in Seq(Nodes)
  BY DEF Threads
<1> DEFINE f == [i \in 1..Len(q) |-> q[i]]
<1>2. f \in Bijection(1..Len(q), In(l))
  <2>1. \A i \in 1..Len(q) : f[i] \in In(l) /\ f[i] = q[i]
    BY DEF Threads
  <2>2. f \in [1..Len(q) -> In(l)]
    BY <2>1
  <2>3. \A i, j \in 1..Len(q) : f[i] = f[j] => i = j
    BY <2>1 DEF Threads
  <2>4. \A n \in In(l) : \E i \in 1..Len(q) : f[i] = n
    BY <2>1 DEF Threads
  <2> HIDE DEF f
  <2>5. QED
    BY <2>2, <2>3, <2>4, Zenon DEF Bijection, Injection, Surjection, IsInjective
<1>3. Cardinality(In(l)) = Len(q)
  BY <1>1, <1>2, FS_CountingElements, Zenon DEF ExistsBijection
<1>4. Cardinality(In(l)) <= Cardinality(Nodes) /\ Cardinality(Nodes) \in Nat
  BY Kept, FS_Subset, FS_CardinalityType, LLConstants, Zenon
<1>5. QED
  BY <1>1, <1>3, <1>4

LEMMA StepsFollow ==
    ASSUME NEW l \in Lists, NEW q, Threads(l, q)
    PROVE  \A k \in 0..Cardinality(Nodes) : Steps(l)[k] = IF k < Len(q) THEN q[k + 1] ELSE l
<1> DEFINE D == 0..Cardinality(Nodes)
           Eq(g) == g = [k \in D |-> IF k = 0 THEN nxt[l]
                                     ELSE IF g[k - 1] = l THEN l ELSE nxt[g[k - 1]]]
           w == [k \in D |-> IF k < Len(q) THEN q[k + 1] ELSE l]
<1>1. /\ Len(q) \in Nat /\ Cardinality(Nodes) \in Nat /\ Len(q) <= Cardinality(Nodes)
      /\ \A k \in Nat : k \in D => k + 1 \in Nat
  BY ThreadLength
<1>2. Steps(l) = CHOOSE g : Eq(g)
  BY DEF Steps
<1>3. \A k \in Nat : k < Len(q) => q[k + 1] \in Nodes /\ q[k + 1] # l
  BY <1>1, Kept DEF Threads
<1>4. Eq(w)
  <2>1. ASSUME NEW k \in D
        PROVE  w[k] = IF k = 0 THEN nxt[l] ELSE IF w[k - 1] = l THEN l ELSE nxt[w[k - 1]]
    <3>1. CASE k = 0
      <4>1. nxt[l] = At(l, q, 1)
        BY <1>1 DEF Threads, At
      <4>2. QED
        BY <3>1, <4>1, <1>1 DEF At
    <3>2. CASE k # 0
      <4>1. k - 1 \in D /\ k \in Nat /\ k - 1 \in Nat /\ (k - 1) + 1 = k
        BY <3>2, <1>1
      <4>2. CASE k - 1 < Len(q)
        <5>1. w[k - 1] = q[k] /\ q[k] # l /\ k \in 1..Len(q)
          BY <4>1, <4>2, <1>1, <1>3
        <5>2. nxt[q[k]] = At(l, q, k + 1)
          BY <5>1, <4>1, <1>1 DEF Threads, At
        <5>3. At(l, q, k + 1) = w[k]
          BY <4>1, <1>1 DEF At
        <5>4. QED
          BY <3>2, <5>1, <5>2, <5>3
      <4>3. CASE ~(k - 1 < Len(q))
        BY <3>2, <4>1, <4>3, <1>1
      <4>4. QED
        BY <4>2, <4>3
    <3>3. QED
      BY <3>1, <3>2
  <2>2. QED
    BY <2>1, Zenon
<1>5. Eq(Steps(l))
  <2>1. \E g : Eq(g)
    BY <1>4, Zenon
  <2> HIDE DEF Eq
  <2>2. Eq(CHOOSE g : Eq(g))
    BY <2>1, Zenon
  <2>3. QED
    BY <1>2, <2>2, Zenon
<1> DEFINE s == Steps(l)
           B == {k \in D : s[k] # w[k]}
<1> HIDE DEF s, w
<1>6. /\ \A k \in D : s[k] = IF k = 0 THEN nxt[l] ELSE IF s[k - 1] = l THEN l ELSE nxt[s[k - 1]]
      /\ \A k \in D : w[k] = IF k = 0 THEN nxt[l] ELSE IF w[k - 1] = l THEN l ELSE nxt[w[k - 1]]
  BY <1>4, <1>5, Zenon DEF s
<1>7. B = {}
  <2> SUFFICES ASSUME B # {} PROVE FALSE
    OBVIOUS
  <2>0. B \in SUBSET Nat
    BY <1>1
  <2>1. PICK k \in B : \A m \in B : k <= m
    BY <2>0, LeastNumber, Zenon
  <2>2. k \in D /\ s[k] # w[k] /\ k # 0
    BY <2>1, <1>6
  <2>3. k - 1 \in D /\ ~(k <= k - 1)
    BY <2>2, <1>1
  <2>4. s[k - 1] = w[k - 1]
    BY <2>1, <2>3
  <2>5. QED
    BY <2>2, <2>4, <1>6, Zenon
<1>8. QED
  BY <1>7, Zenon DEF s, w

(* Walking a list gives the sequence that its pointers thread. *)
LEMMA WalkIsThread ==
    ASSUME NEW l \in Lists, NEW q, Threads(l, q)
    PROVE  Walk(l) = q
<1> DEFINE at == Steps(l)
           back == {k \in 0..Cardinality(Nodes) : at[k] = l}
           n == IF back = {} THEN Cardinality(Nodes) + 1
                ELSE CHOOSE k \in back : \A j \in back : k <= j
<1>1. /\ Len(q) \in Nat /\ Cardinality(Nodes) \in Nat /\ Len(q) <= Cardinality(Nodes)
      /\ q \in Seq(Nodes)
  BY ThreadLength DEF Threads
<1>2. \A k \in 0..Cardinality(Nodes) : at[k] = IF k < Len(q) THEN q[k + 1] ELSE l
  BY StepsFollow
<1>3. Walk(l) = [i \in 1..n |-> at[i - 1]]
  BY DEF Walk
<1> HIDE DEF at
<1>4. \A k \in 0..Cardinality(Nodes) : k \in back <=> Len(q) <= k
  BY <1>1, <1>2, Kept
<1>5. Len(q) \in back /\ \A j \in back : Len(q) <= j
  BY <1>1, <1>4
<1>6. n = Len(q)
  <2>1. back # {} /\ back \subseteq Nat
    BY <1>1, <1>5
  <2>2. n \in back /\ \A j \in back : n <= j
    BY <1>5, <2>1, Zenon
  <2>3. n <= Len(q) /\ Len(q) <= n /\ n \in Nat
    BY <1>5, <2>1, <2>2, Zenon
  <2> HIDE DEF n, back
  <2>4. QED
    BY <2>3, <1>1
<1> HIDE DEF n, back
<1>7. \A i \in 1..Len(q) : at[i - 1] = q[i]
  BY <1>1, <1>2
<1>8. q = [i \in 1..Len(q) |-> q[i]]
  BY <1>1
<1>9. QED
  BY <1>3, <1>6, <1>7, <1>8, Zenon

-----------------------------------------------------------------------------
(* Sequences with an element more, or less.                                *)

LEMMA RemovedAt ==
    ASSUME NEW S, NEW s \in Seq(S), NEW i \in 1..Len(s)
    PROVE  /\ RemoveAt(s, i) \in Seq(S) /\ Len(RemoveAt(s, i)) = Len(s) - 1
           /\ \A j \in 1..Len(s) - 1 :
                 RemoveAt(s, i)[j] = IF j < i THEN s[j] ELSE s[j + 1]
<1> DEFINE a == SubSeq(s, 1, i - 1)
           b == SubSeq(s, i + 1, Len(s))
<1>1. /\ a \in Seq(S) /\ Len(a) = i - 1
      /\ \A j \in 1..i - 1 : a[j] = s[j]
  OBVIOUS
<1>2. /\ b \in Seq(S) /\ Len(b) = Len(s) - i
      /\ \A j \in 1..Len(s) - i : b[j] = s[i + j]
  OBVIOUS
<1> HIDE DEF a, b
<1>3. /\ a \o b \in Seq(S) /\ Len(a \o b) = Len(a) + Len(b)
      /\ \A j \in 1..Len(a) + Len(b) :
            (a \o b)[j] = IF j <= Len(a) THEN a[j] ELSE b[j - Len(a)]
  BY <1>1, <1>2, ConcatProperties
<1>4. ASSUME NEW j \in 1..Len(s) - 1 PROVE (a \o b)[j] = IF j < i THEN s[j] ELSE s[j + 1]
  <2>1. CASE j < i
    BY <2>1, <1>1, <1>2, <1>3
  <2>2. CASE ~(j < i)
    <3>1. j - (i - 1) \in 1..Len(s) - i /\ i + (j - (i - 1)) = j + 1
      BY <2>2
    <3>2. b[j - (i - 1)] = s[j + 1]
      BY <3>1, <1>2
    <3>3. QED
      BY <2>2, <3>2, <1>1, <1>2, <1>3
  <2>3. QED
    BY <2>1, <2>2
<1>5. RemoveAt(s, i) = a \o b
  BY DEF RemoveAt, a, b
<1>6. Len(a) + Len(b) = Len(s) - 1
  BY <1>1, <1>2
<1>7. QED
  BY <1>3, <1>4, <1>5, <1>6, Zenon

LEMMA InsertedAt ==
    ASSUME NEW S, NEW s \in Seq(S), NEW i \in 1..Len(s) + 1, NEW e \in S
    PROVE  /\ InsertAt(s, i, e) \in Seq(S) /\ Len(InsertAt(s, i, e)) = Len(s) + 1
           /\ \A j \in 1..Len(s) + 1 :
                 InsertAt(s, i, e)[j] = IF j < i THEN s[j] ELSE IF j = i THEN e ELSE s[j - 1]
<1> DEFINE a == SubSeq(s, 1, i - 1)
           b == SubSeq(s, i, Len(s))
           c == a \o <<e>>
<1>1. /\ a \in Seq(S) /\ Len(a) = i - 1
      /\ \A j \in 1..i - 1 : a[j] = s[j]
  OBVIOUS
<1>2. /\ b \in Seq(S) /\ Len(b) = Len(s) - i + 1
      /\ \A j \in 1..Len(s) - i + 1 : b[j] = s[i + j - 1]
  OBVIOUS
<1> HIDE DEF a, b
<1>3. /\ c \in Seq(S) /\ Len(c) = i
      /\ \A j \in 1..i : c[j] = IF j < i THEN s[j] ELSE e
  <2>1. /\ c \in Seq(S) /\ Len(c) = Len(a) + 1
        /\ \A j \in 1..Len(a) + 1 : c[j] = IF j <= Len(a) THEN a[j] ELSE <<e>>[j - Len(a)]
    BY <1>1, ConcatProperties
  <2>2. QED
    BY <2>1, <1>1
<1> HIDE DEF c
<1>4. /\ c \o b \in Seq(S) /\ Len(c \o b) = Len(c) + Len(b)
      /\ \A j \in 1..Len(c) + Len(b) :
            (c \o b)[j] = IF j <= Len(c) THEN c[j] ELSE b[j - Len(c)]
  BY <1>2, <1>3, ConcatProperties
<1>5. ASSUME NEW j \in 1..Len(s) + 1
      PROVE  (c \o b)[j] = IF j < i THEN s[j] ELSE IF j = i THEN e ELSE s[j - 1]
  <2>1. CASE j <= i
    BY <2>1, <1>2, <1>3, <1>4
  <2>2. CASE ~(j <= i)
    <3>1. j - i \in 1..Len(s) - i + 1 /\ i + (j - i) - 1 = j - 1
      BY <2>2
    <3>2. b[j - i] = s[j - 1]
      BY <3>1, <1>2
    <3>3. (c \o b)[j] = b[j - i]
      <4>1. j \in 1..Len(c) + Len(b) /\ ~(j <= Len(c)) /\ j - Len(c) = j - i
        BY <2>2, <1>2, <1>3
      <4>2. QED
        BY <4>1, <1>4
    <3>4. QED
      BY <2>2, <3>2, <3>3
  <2>3. QED
    BY <2>1, <2>2
<1>6. InsertAt(s, i, e) = c \o b
  BY DEF InsertAt, a, b, c
<1>7. QED
  BY <1>2, <1>3, <1>4, <1>5, <1>6

-----------------------------------------------------------------------------
(* What each operation does to the sequences.                              *)

(* The cells of a list, from its nil node on, are all different.           *)
LEMMA AtIsInjective ==
    ASSUME NEW l \in Lists, NEW q, Threads(l, q)
    PROVE  /\ \A i \in 0..Len(q) + 1 : At(l, q, i) \in Ring(l) /\ At(l, q, i) \in Cells
           /\ \A i, j \in 0..Len(q) : At(l, q, i) = At(l, q, j) => i = j
           /\ At(l, q, 0) = l /\ At(l, q, Len(q) + 1) = l
           /\ \A c \in Ring(l) : \E i \in 1..Len(q) + 1 : At(l, q, i) = c
<1>1. q \in Seq(Nodes) /\ Len(q) \in Nat
  BY DEF Threads
<1>2. \A i \in 1..Len(q) : q[i] \in In(l) /\ q[i] \in Nodes /\ q[i] # l
  BY <1>1, Kept DEF Threads
<1>3. At(l, q, 0) = l /\ At(l, q, Len(q) + 1) = l
  BY <1>1 DEF At
<1>4. \A i, j \in 0..Len(q) : At(l, q, i) = At(l, q, j) => i = j
  BY <1>1, <1>2 DEF Threads, At
<1>5. \A i \in 0..Len(q) + 1 : At(l, q, i) \in Ring(l) /\ At(l, q, i) \in Cells
  BY <1>1, <1>2, Kept DEF At, Ring
<1>6. \A c \in Ring(l) : \E i \in 1..Len(q) + 1 : At(l, q, i) = c
  <2> TAKE c \in Ring(l)
  <2>1. CASE c = l
    BY <2>1, <1>1, <1>3
  <2>2. CASE c # l
    <3>1. PICK i \in 1..Len(q) : q[i] = c
      BY <2>2 DEF Ring, Threads
    <3>2. i \in 1..Len(q) + 1 /\ At(l, q, i) = c
      BY <3>1, <1>1 DEF At
    <3>3. QED
      BY <3>2
  <2>3. QED
    BY <2>1, <2>2
<1>7. QED
  BY <1>3, <1>4, <1>5, <1>6

(* A list that a step leaves alone. *)
LEMMA StillThreads ==
    ASSUME NEW m \in Lists, NEW q, Threads(m, q), In(m)' = In(m),
           \A c \in Ring(m) : nxt'[c] = nxt[c]
    PROVE  Threads(m, q)'
<1>1. Len(q) \in Nat
  BY DEF Threads
<1>2. \A i \in 0..Len(q) : At(m, q, i) \in Ring(m)
  BY <1>1, AtIsInjective
<1>3. \A i \in 0..Len(q) : nxt'[At(m, q, i)] = At(m, q, i + 1)
  BY <1>2 DEF Threads
<1>4. QED
  BY <1>3 DEF Threads

LEMMA InsertThreads ==
    ASSUME IInv, NEW qs \in [Lists -> Seq(Nodes)], \A k \in Lists : Threads(k, qs[k]),
           NEW l \in Lists, NEW n \in Nodes, NEW before \in Cells, ListInsert(l, n, before)
    PROVE  /\ \A k \in Lists : \A i \in 1..Len(qs[k]) : qs[k][i] # n
           /\ \E j \in 1..Len(qs[l]) + 1 :
                 \A k \in Lists : Threads(k, [qs EXCEPT ![l] = InsertAt(qs[l], j, n)][k])'
<1> DEFINE q == qs[l]
           last == pre[before]
<1>0. Threads(l, q) /\ q \in Seq(Nodes) /\ Len(q) \in Nat
  BY DEF Threads
<1>1. /\ place[n] = Free /\ before \in Ring(l) /\ n \in Cells /\ n \notin Lists
      /\ nxt' = [nxt EXCEPT ![n] = before, ![last] = n]
      /\ place' = [place EXCEPT ![n] = l]
  BY Kept, LLConstants DEF ListInsert, Ring, Cells
<1>2. PICK j \in 1..Len(q) + 1 : At(l, q, j) = before
  BY <1>0, <1>1, AtIsInjective
<1>3. j - 1 \in 0..Len(q) /\ (j - 1) + 1 = j
  BY <1>0
<1>4. last = At(l, q, j - 1)
  <2>1. nxt[At(l, q, j - 1)] = before /\ At(l, q, j - 1) \in Cells
    <3>1. nxt[At(l, q, j - 1)] = At(l, q, (j - 1) + 1)
      BY <1>0, <1>3, Zenon DEF Threads
    <3>2. At(l, q, j - 1) \in Cells
      BY <1>0, <1>3, AtIsInjective
    <3>3. QED
      BY <3>1, <3>2, <1>2, <1>3, Zenon
  <2>2. QED
    BY <2>1 DEF IInv, RingsClosed, BothWays
<1>5. \A k \in Lists : n \notin Ring(k)
  BY <1>1, LLConstants DEF Ring, In
<1>6. \A k \in Lists : In(k)' = IF k = l THEN In(k) \cup {n} ELSE In(k)
  BY <1>1, LLConstants DEF In, IInv, LLTypeOK
<1>7. last \in Ring(l) /\ last \in Cells
  BY <1>0, <1>3, <1>4, AtIsInjective
<1>8. \A c \in Cells : c # n => nxt'[c] = IF c = last THEN n ELSE nxt[c]
  BY <1>1, <1>7 DEF IInv, LLTypeOK
<1>9. nxt'[n] = before
  BY <1>1, <1>5, <1>7 DEF IInv, LLTypeOK
<1> DEFINE r == InsertAt(q, j, n)
<1>10. /\ r \in Seq(Nodes) /\ Len(r) = Len(q) + 1
       /\ \A i \in 1..Len(q) + 1 :
             r[i] = IF i < j THEN q[i] ELSE IF i = j THEN n ELSE q[i - 1]
  BY <1>0, InsertedAt
<1> HIDE DEF r, last, q
<1>11. Threads(l, r)'
  <2>1. \A i \in 0..Len(q) + 2 : At(l, r, i) = IF i < j THEN At(l, q, i)
                                  ELSE IF i = j THEN n ELSE At(l, q, i - 1)
    BY <1>0, <1>2, <1>10 DEF At
  <2>2. ASSUME NEW i \in 0..Len(r) PROVE nxt'[At(l, r, i)] = At(l, r, i + 1)
    <3>0. i \in Nat /\ i <= Len(q) + 1 /\ i + 1 \in 0..Len(q) + 2 /\ i \in 0..Len(q) + 2
      BY <1>0, <1>10
    <3>1. CASE i < j - 1
      <4>1. i \in 0..Len(q) /\ i # j - 1 /\ i < j /\ i + 1 < j
        BY <3>0, <3>1, <1>0, <1>3
      <4>2. At(l, q, i) # last /\ At(l, q, i) \in Ring(l) /\ At(l, q, i) \in Cells
        BY <4>1, <1>0, <1>3, <1>4, AtIsInjective
      <4>3. nxt'[At(l, q, i)] = At(l, q, i + 1)
        BY <4>1, <4>2, <1>0, <1>5, <1>8 DEF Threads
      <4>4. QED
        BY <4>1, <4>3, <2>1, <3>0
    <3>2. CASE i = j - 1
      <4>1. At(l, r, i) = last /\ At(l, r, i + 1) = n
        BY <3>0, <3>2, <1>0, <1>2, <1>4, <2>1
      <4>2. QED
        BY <4>1, <1>5, <1>7, <1>8
    <3>3. CASE i = j
      <4>1. At(l, r, i) = n /\ At(l, r, i + 1) = before
        BY <3>0, <3>3, <1>0, <1>2, <2>1
      <4>2. QED
        BY <4>1, <1>9
    <3>4. CASE i > j
      <4>1. i - 1 \in 0..Len(q) /\ i - 1 # j - 1 /\ (i - 1) + 1 = i /\ (i + 1) - 1 = i
        BY <3>0, <3>4, <1>0, <1>3
      <4>2. At(l, q, i - 1) # last /\ At(l, q, i - 1) \in Ring(l) /\ At(l, q, i - 1) \in Cells
        <5>1. \A x \in 0..Len(q) : At(l, q, x) = At(l, q, j - 1) => x = j - 1
          BY <1>0, <1>3, AtIsInjective
        <5>2. \A x \in 0..Len(q) : At(l, q, x) \in Ring(l) /\ At(l, q, x) \in Cells
          BY <1>0, AtIsInjective
        <5>3. QED
          BY <4>1, <5>1, <5>2, <1>4
      <4>3. nxt'[At(l, q, i - 1)] = At(l, q, i)
        BY <4>1, <4>2, <1>0, <1>5, <1>8 DEF Threads
      <4>4. At(l, r, i) = At(l, q, i - 1) /\ At(l, r, i + 1) = At(l, q, i)
        BY <4>1, <2>1, <3>0, <3>4
      <4>5. QED
        BY <4>3, <4>4
    <3>5. QED
      BY <3>0, <3>1, <3>2, <3>3, <3>4
  <2>3. \A i \in 1..Len(q) : q[i] \in In(l) /\ q[i] # n
    BY <1>0, <1>5 DEF Threads, Ring
  <2>4. {r[i] : i \in 1..Len(r)} = In(l)'
    <3>1. ASSUME NEW i \in 1..Len(r) PROVE r[i] \in In(l) \cup {n}
      <4>1. i \in 1..Len(q) + 1 /\ (i > j => i - 1 \in 1..Len(q)) /\ (i < j => i \in 1..Len(q))
        BY <1>0, <1>2, <1>10
      <4>2. r[i] = IF i < j THEN q[i] ELSE IF i = j THEN n ELSE q[i - 1]
        BY <4>1, <1>10
      <4>3. QED
        BY <4>1, <4>2, <2>3, <1>0, <1>2
    <3>2. \A c \in In(l) : \E i \in 1..Len(r) : r[i] = c
      <4> TAKE c \in In(l)
      <4>1. PICK i \in 1..Len(q) : q[i] = c
        BY <1>0 DEF Threads
      <4>2. CASE i < j
        <5>1. i \in 1..Len(r) /\ r[i] = c
          BY <4>1, <4>2, <1>0, <1>10
        <5>2. QED
          BY <5>1
      <4>3. CASE ~(i < j)
        <5>1. i + 1 \in 1..Len(r) /\ r[i + 1] = c
          BY <4>1, <4>3, <1>0, <1>10
        <5>2. QED
          BY <5>1
      <4>4. QED
        BY <4>2, <4>3
    <3>3. j \in 1..Len(r) /\ r[j] = n
      BY <1>0, <1>10
    <3>4. In(l)' = In(l) \cup {n}
      BY <1>6
    <3>5. QED
      BY <3>1, <3>2, <3>3, <3>4
  <2>5. \A x, y \in 1..Len(r) : r[x] = r[y] => x = y
    <3>1. \A x, y \in 1..Len(q) : q[x] = q[y] => x = y
      BY <1>0 DEF Threads
    <3>2. ASSUME NEW x \in 1..Len(r), NEW y \in 1..Len(r), x < y PROVE r[x] # r[y]
      <4>1. /\ x \in 1..Len(q) + 1 /\ (x > j => x - 1 \in 1..Len(q)) /\ (x < j => x \in 1..Len(q))
            /\ y \in 1..Len(q) + 1 /\ (y > j => y - 1 \in 1..Len(q)) /\ (y < j => y \in 1..Len(q))
        BY <1>0, <1>2, <1>10
      <4>2. /\ r[x] = IF x < j THEN q[x] ELSE IF x = j THEN n ELSE q[x - 1]
            /\ r[y] = IF y < j THEN q[y] ELSE IF y = j THEN n ELSE q[y - 1]
        BY <4>1, <1>10
      <4>3. CASE x < j
        <5>1. CASE y < j
          BY <4>1, <4>2, <4>3, <5>1, <3>1, <3>2, <1>2
        <5>2. CASE y = j
          BY <4>1, <4>2, <4>3, <5>2, <2>3
        <5>3. CASE y > j
          <6>1. x \in 1..Len(q) /\ y - 1 \in 1..Len(q) /\ x # y - 1
            BY <4>1, <4>3, <5>3, <1>2
          <6>2. r[x] = q[x] /\ r[y] = q[y - 1]
            BY <4>1, <4>2, <4>3, <5>3, <1>2
          <6>3. QED
            BY <3>1, <6>1, <6>2, Zenon
        <5>4. QED
          BY <5>1, <5>2, <5>3, <4>1, <1>2
      <4>4. CASE x = j
        BY <4>1, <4>2, <4>4, <3>2, <2>3, <1>0, <1>2
      <4>5. CASE x > j
        <5>1. x - 1 \in 1..Len(q) /\ y - 1 \in 1..Len(q) /\ x - 1 # y - 1
          BY <3>2, <4>1, <4>5, <1>2
        <5>2. r[x] = q[x - 1] /\ r[y] = q[y - 1]
          BY <3>2, <4>1, <4>2, <4>5, <1>2
        <5>3. QED
          BY <3>1, <5>1, <5>2, Zenon
      <4>6. QED
        BY <4>1, <4>3, <4>4, <4>5, <1>2
    <3>3. \A x, y \in 1..Len(r) : x # y => x < y \/ y < x
      BY <1>0, <1>10
    <3>4. QED
      BY <3>2, <3>3, Zenon
  <2>6. QED
    BY <2>2, <2>4, <2>5, <1>10 DEF Threads
<1>12. ASSUME NEW k \in Lists, k # l PROVE Threads(k, qs[k])'
  <2>1. last \notin Ring(k) /\ n \notin Ring(k) /\ Ring(k) \subseteq Cells
    BY <1>5, <1>7, <1>12, RingsDiffer, Kept DEF Ring, IInv
  <2>2. \A c \in Ring(k) : nxt'[c] = nxt[c]
    BY <2>1, <1>8
  <2>3. QED
    BY <2>2, <1>6, <1>12, StillThreads
<1>13. \A k \in Lists : Threads(k, [qs EXCEPT ![l] = r][k])'
  BY <1>11, <1>12
<1>14. \A k \in Lists : \A i \in 1..Len(qs[k]) : qs[k][i] # n
  BY <1>5 DEF Threads, Ring
<1>15. QED
  BY <1>13, <1>14, <1>2 DEF r, q

LEMMA EraseThreads ==
    ASSUME IInv, NEW qs \in [Lists -> Seq(Nodes)], \A k \in Lists : Threads(k, qs[k]),
           NEW l \in Lists, NEW n \in Nodes, ListErase(l, n)
    PROVE  \E j \in 1..Len(qs[l]) :
              \A k \in Lists : Threads(k, [qs EXCEPT ![l] = RemoveAt(qs[l], j)][k])'
<1> DEFINE q == qs[l]
           p == pre[n]
           x == nxt[n]
<1>0. Threads(l, q) /\ q \in Seq(Nodes) /\ Len(q) \in Nat
  <2>1. Threads(l, qs[l]) /\ qs[l] \in Seq(Nodes)
    OBVIOUS
  <2>2. Len(qs[l]) \in Nat
    BY <2>1
  <2>3. QED
    BY <2>1, <2>2
<1>1. /\ n \in In(l) /\ n \in Cells /\ n # l
      /\ nxt' = [nxt EXCEPT ![p] = x, ![n] = n]
      /\ place' = [place EXCEPT ![n] = Free]
  BY Kept DEF ListErase, In
<1>2. PICK j \in 1..Len(q) : q[j] = n
  BY <1>0, <1>1 DEF Threads
<1>3. /\ j - 1 \in 0..Len(q) /\ (j - 1) + 1 = j /\ j \in 0..Len(q) /\ j # j - 1
      /\ At(l, q, j) = n
  BY <1>0, <1>2 DEF At
<1>4. p = At(l, q, j - 1)
  <2>1. nxt[At(l, q, j - 1)] = At(l, q, (j - 1) + 1)
    BY <1>0, <1>3, Zenon DEF Threads
  <2>2. At(l, q, j - 1) \in Cells
    BY <1>0, <1>3, AtIsInjective
  <2>3. QED
    BY <2>1, <2>2, <1>3 DEF IInv, RingsClosed, BothWays
<1>5. x = At(l, q, j + 1)
  BY <1>0, <1>3 DEF Threads
<1>6. p # n /\ p \in Ring(l) /\ p \in Cells
  BY <1>0, <1>3, <1>4, AtIsInjective
<1>7. \A k \in Lists : In(k)' = IF k = l THEN In(k) \ {n} ELSE In(k)
  BY <1>1, LLConstants DEF In, IInv, LLTypeOK
<1>8. \A c \in Cells : c # n => nxt'[c] = IF c = p THEN x ELSE nxt[c]
  BY <1>1, <1>6 DEF IInv, LLTypeOK
<1> DEFINE r == RemoveAt(q, j)
<1>9. /\ r \in Seq(Nodes) /\ Len(r) = Len(q) - 1
      /\ \A i \in 1..Len(q) - 1 : r[i] = IF i < j THEN q[i] ELSE q[i + 1]
  BY <1>0, RemovedAt
<1>10. \A i, y \in 1..Len(q) : q[i] = q[y] => i = y
  BY <1>0 DEF Threads
<1> HIDE DEF r, p, x, q
<1>11. Threads(l, r)'
  <2>1. \A i \in 0..Len(q) : At(l, r, i) = IF i < j THEN At(l, q, i) ELSE At(l, q, i + 1)
    BY <1>0, <1>2, <1>9 DEF At
  <2>2. ASSUME NEW i \in 0..Len(r) PROVE nxt'[At(l, r, i)] = At(l, r, i + 1)
    <3>0. i \in Nat /\ i + 1 \in 0..Len(q) /\ i \in 0..Len(q)
      BY <1>0, <1>9
    <3>1. \A y, z \in 0..Len(q) : y # z => At(l, q, y) # At(l, q, z)
      BY <1>0, AtIsInjective
    <3>2. \A y \in 0..Len(q) : At(l, q, y) \in Cells /\ nxt[At(l, q, y)] = At(l, q, y + 1)
      <4>1. \A y \in 0..Len(q) : y \in 0..Len(q) + 1
        BY <1>0
      <4>2. \A y \in 0..Len(q) : nxt[At(l, q, y)] = At(l, q, y + 1)
        BY <1>0, Zenon DEF Threads
      <4>3. QED
        BY <4>1, <4>2, <1>0, AtIsInjective, Zenon
    <3>3. CASE i < j - 1
      <4>1. i # j - 1 /\ i # j /\ i < j /\ i + 1 < j
        BY <3>0, <3>3, <1>0, <1>3
      <4>2. nxt'[At(l, q, i)] = At(l, q, i + 1)
        BY <4>1, <3>0, <3>1, <3>2, <1>3, <1>4, <1>8
      <4>3. QED
        BY <4>1, <4>2, <3>0, <2>1
    <3>4. CASE i = j - 1
      <4>1. At(l, r, i) = p /\ At(l, r, i + 1) = x
        BY <3>0, <3>4, <1>2, <1>3, <1>4, <1>5, <2>1
      <4>2. QED
        BY <4>1, <1>6, <1>8
    <3>5. CASE i >= j
      <4>1. i + 1 # j - 1 /\ i + 1 # j /\ ~(i < j) /\ ~(i + 1 < j)
        BY <3>0, <3>5, <1>2
      <4>2. nxt'[At(l, q, i + 1)] = At(l, q, (i + 1) + 1)
        BY <4>1, <3>0, <3>1, <3>2, <1>3, <1>4, <1>8
      <4>3. QED
        BY <4>1, <4>2, <3>0, <2>1
    <3>6. QED
      <4>1. i < j - 1 \/ i = j - 1 \/ i >= j
        BY <3>0, <1>0, <1>2
      <4>2. QED
        BY <4>1, <3>3, <3>4, <3>5
  <2>3. {r[i] : i \in 1..Len(r)} = In(l)'
    <3>1. ASSUME NEW i \in 1..Len(r) PROVE r[i] \in In(l) \ {n}
      <4>1. /\ i \in 1..Len(q) - 1 /\ i \in 1..Len(q) /\ i + 1 \in 1..Len(q)
            /\ (i < j => i # j) /\ (~(i < j) => i + 1 # j)
        BY <1>0, <1>2, <1>9
      <4>2. r[i] = IF i < j THEN q[i] ELSE q[i + 1]
        BY <4>1, <1>9
      <4>3. q[i] \in In(l) /\ q[i + 1] \in In(l)
        BY <4>1, <1>0 DEF Threads
      <4>4. QED
        BY <4>1, <4>2, <4>3, <1>2, <1>10
    <3>2. ASSUME NEW c \in In(l) \ {n} PROVE \E i \in 1..Len(r) : r[i] = c
      <4>1. PICK i \in 1..Len(q) : q[i] = c
        BY <1>0 DEF Threads
      <4>2. CASE i < j
        <5>1. i \in 1..Len(r) /\ r[i] = c
          BY <4>1, <4>2, <1>0, <1>2, <1>9
        <5>2. QED
          BY <5>1
      <4>3. CASE ~(i < j)
        <5>1. i # j /\ i - 1 \in 1..Len(r) /\ ~(i - 1 < j) /\ (i - 1) + 1 = i
          BY <4>1, <4>3, <1>0, <1>2, <1>9
        <5>2. r[i - 1] = c
          BY <4>1, <5>1, <1>9
        <5>3. QED
          BY <5>1, <5>2
      <4>4. QED
        BY <4>2, <4>3
    <3>3. In(l)' = In(l) \ {n}
      BY <1>7
    <3>4. QED
      BY <3>1, <3>2, <3>3
  <2>4. \A y, z \in 1..Len(r) : r[y] = r[z] => y = z
    <3>1. ASSUME NEW y \in 1..Len(r), NEW z \in 1..Len(r), y < z PROVE r[y] # r[z]
      <4>1. /\ y \in 1..Len(q) - 1 /\ y \in 1..Len(q) /\ y + 1 \in 1..Len(q)
            /\ z \in 1..Len(q) - 1 /\ z \in 1..Len(q) /\ z + 1 \in 1..Len(q)
            /\ y # z /\ y # z + 1 /\ y + 1 # z + 1 /\ (~(y < j) => ~(z < j))
        BY <1>0, <1>2, <1>9, <3>1
      <4>2. /\ r[y] = IF y < j THEN q[y] ELSE q[y + 1]
            /\ r[z] = IF z < j THEN q[z] ELSE q[z + 1]
        BY <4>1, <1>9
      <4>3. QED
        BY <4>1, <4>2, <1>10
    <3>2. \A y, z \in 1..Len(r) : y # z => y < z \/ z < y
      BY <1>0, <1>9
    <3>3. QED
      BY <3>1, <3>2, Zenon
  <2>5. QED
    BY <2>2, <2>3, <2>4, <1>9 DEF Threads
<1>12. ASSUME NEW k \in Lists, k # l PROVE Threads(k, qs[k])'
  <2>1. p \notin Ring(k) /\ n \notin Ring(k) /\ Ring(k) \subseteq Cells
    BY <1>1, <1>6, <1>12, RingsDiffer, Kept DEF Ring, IInv
  <2>2. \A c \in Ring(k) : nxt'[c] = nxt[c]
    BY <2>1, <1>8
  <2>3. QED
    BY <2>2, <1>7, <1>12, StillThreads
<1>13. \A k \in Lists : Threads(k, [qs EXCEPT ![l] = r][k])'
  BY <1>11, <1>12
<1>14. QED
  BY <1>13, <1>2 DEF r, q

LEMMA ClearThreads ==
    ASSUME IInv, NEW qs \in [Lists -> Seq(Nodes)], \A k \in Lists : Threads(k, qs[k]),
           NEW l \in Lists, ListClear(l)
    PROVE  \A k \in Lists : Threads(k, [qs EXCEPT ![l] = <<>>][k])'
<1>1. {pre[nxt[n]] : n \in In(l)} = In(l)
  BY Kept DEF IInv, RingsClosed, BothWays
<1>2. /\ nxt' = [c \in Cells |-> IF c \in Ring(l) THEN c ELSE nxt[c]]
      /\ place' = [n \in Nodes |-> IF n \in In(l) THEN Free ELSE place[n]]
  BY <1>1 DEF ListClear, Ring
<1>3. \A k \in Lists : In(k)' = IF k = l THEN {} ELSE In(k)
  BY <1>2, LLConstants DEF In, IInv, LLTypeOK
<1>4. Threads(l, <<>>)'
  <2>1. nxt'[l] = l
    BY <1>2, Kept DEF Ring
  <2>2. \A i : At(l, <<>>, i) = l
    BY DEF At
  <2>3. QED
    BY <2>1, <2>2, <1>3 DEF Threads
<1>5. ASSUME NEW k \in Lists, k # l PROVE Threads(k, qs[k])'
  <2>1. Ring(k) \cap Ring(l) = {} /\ Ring(k) \subseteq Cells
    BY <1>5, RingsDiffer, Kept DEF Ring, IInv
  <2>2. \A c \in Ring(k) : nxt'[c] = nxt[c]
    BY <2>1, <1>2
  <2>3. QED
    BY <2>2, <1>3, <1>5, StillThreads
<1>6. QED
  BY <1>4, <1>5

LEMMA SwapThreads ==
    ASSUME IInv, NEW qs \in [Lists -> Seq(Nodes)], \A k \in Lists : Threads(k, qs[k]),
           NEW l \in Lists, NEW m \in Lists, ListSwap(l, m)
    PROVE  \A k \in Lists : Threads(k, [qs EXCEPT ![l] = qs[m], ![m] = qs[l]][k])'
<1> DEFINE o(c) == Other(c, l, m)
<1>1. l # m /\ l \in Cells /\ m \in Cells /\ l \notin Nodes /\ m \notin Nodes
  BY Kept DEF ListSwap
<1>2. \A c \in Cells : o(c) \in Cells /\ o(o(c)) = c
  BY <1>1 DEF Other
<1>3. \A c \in Cells : nxt'[c] = o(nxt[o(c)])
  BY SwapRenames
<1>4. \A k \in Lists : o(k) \in Lists /\ o(o(k)) = k
  BY <1>1 DEF Other
<1>5. \A k \in Lists : In(k)' = In(o(k))
  BY <1>1, LLConstants DEF ListSwap, In, Other, IInv, LLTypeOK
<1>6. \A n \in Nodes : o(n) = n
  BY <1>1 DEF Other
<1>7. ASSUME NEW k \in Lists PROVE Threads(k, qs[o(k)])'
  <2> DEFINE q == qs[o(k)]
  <2>1. Threads(o(k), q) /\ q \in Seq(Nodes) /\ Len(q) \in Nat
    BY <1>4 DEF Threads
  <2> HIDE DEF q
  <2>2. \A i \in 0..Len(q) + 1 : At(k, q, i) = o(At(o(k), q, i)) /\ At(o(k), q, i) \in Cells
    <3>1. \A i \in 0..Len(q) + 1 : At(o(k), q, i) \in Cells
      BY <2>1, <1>4, AtIsInjective
    <3>2. \A i \in 1..Len(q) : o(q[i]) = q[i]
      BY <2>1, <1>6
    <3> HIDE DEF o
    <3>3. QED
      BY <3>1, <3>2, <1>4 DEF At
  <2>3. ASSUME NEW i \in 0..Len(q) PROVE nxt'[At(k, q, i)] = At(k, q, i + 1)
    <3>1. i \in 0..Len(q) + 1 /\ i + 1 \in 0..Len(q) + 1
      BY <2>1
    <3>2. nxt[At(o(k), q, i)] = At(o(k), q, i + 1)
      BY <2>1 DEF Threads
    <3> HIDE DEF o
    <3>3. nxt'[At(k, q, i)] = o(nxt[At(o(k), q, i)])
      BY <3>1, <2>2, <1>2, <1>3
    <3>4. QED
      BY <3>1, <3>2, <3>3, <2>2
  <2>4. QED
    BY <2>1, <2>3, <1>5 DEF Threads, q
<1>8. \A k \in Lists : [qs EXCEPT ![l] = qs[m], ![m] = qs[l]][k] = qs[o(k)]
  BY <1>1 DEF Other
<1>9. QED
  BY <1>7, <1>8

LEMMA CatThreads ==
    ASSUME IInv, NEW qs \in [Lists -> Seq(Nodes)], \A k \in Lists : Threads(k, qs[k]),
           NEW l \in Lists, NEW m \in Lists, ListCatAndClear(l, m)
    PROVE  \A k \in Lists : Threads(k, [qs EXCEPT ![l] = qs[l] \o qs[m], ![m] = <<>>][k])'
<1> DEFINE a == qs[l]
           b == qs[m]
           end   == pre[l]
           first == nxt[m]
           last  == pre[m]
           r == a \o b
<1>0. /\ Threads(l, a) /\ a \in Seq(Nodes) /\ Len(a) \in Nat
      /\ Threads(m, b) /\ b \in Seq(Nodes) /\ Len(b) \in Nat
  BY DEF Threads
<1>1. l # m /\ l \in Cells /\ m \in Cells /\ l \notin Nodes /\ m \notin Nodes
  BY Kept DEF ListCatAndClear
<1>2. /\ nxt' = [nxt EXCEPT ![end] = first, ![last] = l, ![m] = m]
      /\ place' = [n \in Nodes |-> IF place[n] = m THEN l ELSE place[n]]
  BY DEF ListCatAndClear
<1>3. \A k \in Lists : In(k)' = IF k = l THEN In(l) \cup In(m)
                                ELSE IF k = m THEN {} ELSE In(k)
  BY <1>1, <1>2, LLConstants DEF In, IInv, LLTypeOK
<1>4. Len(b) > 0
  <2>1. first \in In(m)
    BY FirstIsNode DEF ListCatAndClear
  <2>2. QED
    BY <2>1, <1>0 DEF Threads
<1>5. /\ first = b[1] /\ last = b[Len(b)] /\ end = At(l, a, Len(a))
      /\ At(m, b, Len(b)) = last /\ nxt[m] = first
  <2>1. nxt[At(m, b, 0)] = At(m, b, 0 + 1) /\ At(m, b, 0) = m /\ At(m, b, 1) = b[1]
    BY <1>0, <1>4, AtIsInjective DEF Threads, At
  <2>2. /\ nxt[At(m, b, Len(b))] = At(m, b, Len(b) + 1) /\ At(m, b, Len(b) + 1) = m
        /\ At(m, b, Len(b)) \in Cells /\ At(m, b, Len(b)) = b[Len(b)]
    <3>1. Len(b) \in 0..Len(b) /\ Len(b) \in 0..Len(b) + 1 /\ Len(b) \in 1..Len(b)
      BY <1>0, <1>4
    <3>2. At(m, b, Len(b) + 1) = m /\ At(m, b, Len(b)) \in Cells
      BY <3>1, <1>0, AtIsInjective
    <3>3. nxt[At(m, b, Len(b))] = At(m, b, Len(b) + 1)
      BY <3>1, <1>0, Zenon DEF Threads
    <3>4. At(m, b, Len(b)) = b[Len(b)]
      BY <3>1, Zenon DEF At
    <3>5. QED
      BY <3>2, <3>3, <3>4
  <2>3. /\ nxt[At(l, a, Len(a))] = At(l, a, Len(a) + 1) /\ At(l, a, Len(a) + 1) = l
        /\ At(l, a, Len(a)) \in Cells
    BY <1>0, AtIsInjective DEF Threads
  <2>4. QED
    BY <2>1, <2>2, <2>3 DEF IInv, RingsClosed, BothWays
<1>6. Ring(l) \cap Ring(m) = {} /\ Ring(l) \subseteq Cells /\ Ring(m) \subseteq Cells
  BY <1>1, RingsDiffer, Kept DEF Ring, IInv
<1>7. /\ \A i \in 0..Len(a) + 1 : At(l, a, i) \in Ring(l)
      /\ \A i \in 0..Len(b) + 1 : At(m, b, i) \in Ring(m)
      /\ \A i, j \in 0..Len(a) : At(l, a, i) = At(l, a, j) => i = j
      /\ \A i, j \in 0..Len(b) : At(m, b, i) = At(m, b, j) => i = j
      /\ \A i \in 1..Len(b) : At(m, b, i) = b[i] /\ b[i] \in In(m)
      /\ \A i \in 1..Len(a) : At(l, a, i) = a[i] /\ a[i] \in In(l)
      /\ At(l, a, 0) = l
  <2>1. \A i \in 1..Len(b) : At(m, b, i) = b[i] /\ b[i] \in In(m)
    BY <1>0 DEF Threads, At
  <2>2. \A i \in 1..Len(a) : At(l, a, i) = a[i] /\ a[i] \in In(l)
    BY <1>0 DEF Threads, At
  <2>3. QED
    BY <2>1, <2>2, <1>0, AtIsInjective
<1>8. end \in Ring(l) /\ last \in Ring(m) /\ last \in In(m) /\ last # m
  <2>1. Len(a) \in 0..Len(a) + 1 /\ Len(b) \in 1..Len(b)
    BY <1>0, <1>4
  <2>2. QED
    BY <2>1, <1>1, <1>5, <1>7, Kept DEF Ring
<1>9. \A c \in Cells : nxt'[c] = IF c = end THEN first ELSE IF c = last THEN l
                                 ELSE IF c = m THEN m ELSE nxt[c]
  BY <1>1, <1>2, <1>6, <1>8 DEF IInv, LLTypeOK, Ring
<1>10. /\ r \in Seq(Nodes) /\ Len(r) = Len(a) + Len(b)
       /\ \A i \in 1..Len(a) + Len(b) : r[i] = IF i <= Len(a) THEN a[i] ELSE b[i - Len(a)]
  BY <1>0, ConcatProperties
<1> HIDE DEF r, a, b, end, first, last
<1>11. Threads(l, r)'
  <2>1. \A i \in 0..Len(a) : At(l, r, i) = At(l, a, i)
    BY <1>0, <1>10 DEF At
  <2>2. ASSUME NEW i \in 1..Len(b) PROVE At(l, r, Len(a) + i) = b[i]
    <3>1. /\ Len(a) + i \in 1..Len(a) + Len(b) /\ ~(Len(a) + i <= Len(a))
          /\ (Len(a) + i) - Len(a) = i
      BY <1>0
    <3>2. QED
      BY <3>1, <1>10 DEF At
  <2>3. At(l, r, Len(a) + Len(b) + 1) = l
    BY <1>0, <1>10 DEF At
  <2>4. ASSUME NEW i \in 0..Len(r) PROVE nxt'[At(l, r, i)] = At(l, r, i + 1)
    <3>1. CASE i < Len(a)
      <4>1. i \in 0..Len(a) /\ i + 1 \in 0..Len(a) /\ i # Len(a) /\ Len(a) \in 0..Len(a)
        BY <3>1, <1>0, <1>10
      <4>2. At(l, a, i) # end /\ At(l, a, i) \in Ring(l)
        BY <4>1, <1>0, <1>5, <1>7
      <4>3. nxt'[At(l, a, i)] = nxt[At(l, a, i)]
        BY <4>2, <1>6, <1>8, <1>9 DEF Ring
      <4>4. nxt[At(l, a, i)] = At(l, a, i + 1)
        BY <4>1, <1>0 DEF Threads
      <4>5. QED
        BY <4>1, <4>3, <4>4, <2>1
    <3>2. CASE i = Len(a)
      <4>1. At(l, r, i) = end /\ At(l, r, i + 1) = first
        BY <3>2, <1>0, <1>4, <1>5, <2>1, <2>2
      <4>2. QED
        BY <4>1, <1>6, <1>8, <1>9
    <3>3. CASE i > Len(a)
      <4> DEFINE j == i - Len(a)
      <4>1. j \in 1..Len(b) /\ j \in 0..Len(b) /\ i = Len(a) + j /\ i + 1 = Len(a) + (j + 1)
        BY <3>3, <1>0, <1>10
      <4> HIDE DEF j
      <4>2. At(l, r, i) = b[j] /\ b[j] \in In(m) /\ b[j] \in Ring(m) /\ b[j] \in Cells /\ b[j] # m
        BY <4>1, <1>1, <1>6, <1>7, <2>2, Kept DEF Ring
      <4>3. b[j] # end
        BY <4>2, <1>6, <1>8
      <4>4. CASE j = Len(b)
        <5>1. b[j] = last /\ At(l, r, i + 1) = l
          BY <4>1, <4>4, <1>0, <1>5, <2>3
        <5>2. QED
          BY <5>1, <4>2, <4>3, <1>9
      <4>5. CASE j # Len(b)
        <5>1. j + 1 \in 1..Len(b) /\ Len(b) \in 1..Len(b) /\ Len(b) \in 0..Len(b)
          BY <4>1, <4>5, <1>0
        <5>2. b[j] # last
          BY <5>1, <4>1, <4>5, <1>5, <1>7
        <5>3. nxt'[b[j]] = nxt[b[j]]
          BY <5>2, <4>2, <4>3, <1>9
        <5>4. nxt[At(m, b, j)] = At(m, b, j + 1)
          BY <4>1, <1>0 DEF Threads
        <5>5. nxt[b[j]] = b[j + 1]
          BY <5>1, <5>4, <4>1, <1>7
        <5>6. At(l, r, i + 1) = b[j + 1]
          BY <5>1, <4>1, <2>2
        <5>7. QED
          BY <5>3, <5>5, <5>6, <4>2
      <4>6. QED
        BY <4>4, <4>5
    <3>4. QED
      BY <3>1, <3>2, <3>3, <1>0, <1>10
  <2>5. {r[i] : i \in 1..Len(r)} = In(l)'
    <3>1. ASSUME NEW i \in 1..Len(r) PROVE r[i] \in In(l) \cup In(m)
      <4>1. CASE i <= Len(a)
        BY <4>1, <1>0, <1>7, <1>10
      <4>2. CASE ~(i <= Len(a))
        <5>1. Len(r) = Len(a) + Len(b) /\ Len(a) \in Nat /\ Len(b) \in Nat
          BY <1>0, <1>10
        <5>2. i - Len(a) \in 1..Len(b)
          BY <4>2, <5>1
        <5>3. r[i] = b[i - Len(a)]
          BY <4>2, <1>10
        <5>4. QED
          BY <5>2, <5>3, <1>7
      <4>3. QED
        BY <4>1, <4>2
    <3>2. ASSUME NEW c \in In(l) PROVE \E i \in 1..Len(r) : r[i] = c
      <4>1. PICK i \in 1..Len(a) : a[i] = c
        BY <1>0 DEF Threads
      <4>2. i \in 1..Len(r) /\ r[i] = c
        BY <4>1, <1>0, <1>10
      <4>3. QED
        BY <4>2
    <3>3. ASSUME NEW c \in In(m) PROVE \E i \in 1..Len(r) : r[i] = c
      <4>1. PICK i \in 1..Len(b) : b[i] = c
        BY <1>0 DEF Threads
      <4>2. Len(a) + i \in 1..Len(r) /\ ~(Len(a) + i <= Len(a)) /\ (Len(a) + i) - Len(a) = i
        BY <4>1, <1>0, <1>10
      <4>3. r[Len(a) + i] = c
        BY <4>1, <4>2, <1>10
      <4>4. QED
        BY <4>2, <4>3
    <3>4. In(l)' = In(l) \cup In(m)
      BY <1>3
    <3>5. QED
      BY <3>1, <3>2, <3>3, <3>4
  <2>6. \A y, z \in 1..Len(r) : r[y] = r[z] => y = z
    <3>1. In(l) \cap In(m) = {}
      BY <1>6 DEF Ring
    <3>2. /\ \A y, z \in 1..Len(a) : a[y] = a[z] => y = z
          /\ \A y, z \in 1..Len(b) : b[y] = b[z] => y = z
      BY <1>0 DEF Threads
    <3>3. ASSUME NEW y \in 1..Len(r), NEW z \in 1..Len(r), y < z PROVE r[y] # r[z]
      <4>1. CASE z <= Len(a)
        <5>1. y \in 1..Len(a) /\ z \in 1..Len(a) /\ r[y] = a[y] /\ r[z] = a[z] /\ y # z
          BY <4>1, <3>3, <1>0, <1>10
        <5>2. QED
          BY <5>1, <3>2
      <4>2. CASE y <= Len(a) /\ ~(z <= Len(a))
        <5>a. y \in 1..Len(a) /\ r[y] = a[y]
          BY <4>2, <1>0, <1>10
        <5>b. z - Len(a) \in 1..Len(b) /\ r[z] = b[z - Len(a)]
          BY <4>2, <1>0, <1>10
        <5>1. y \in 1..Len(a) /\ r[y] = a[y] /\ z - Len(a) \in 1..Len(b) /\ r[z] = b[z - Len(a)]
          BY <5>a, <5>b
        <5>2. QED
          BY <5>1, <3>1, <1>7
      <4>3. CASE ~(y <= Len(a))
        <5>1. /\ y - Len(a) \in 1..Len(b) /\ z - Len(a) \in 1..Len(b)
              /\ r[y] = b[y - Len(a)] /\ r[z] = b[z - Len(a)] /\ y - Len(a) # z - Len(a)
          BY <4>3, <3>3, <1>0, <1>10
        <5>2. QED
          BY <5>1, <3>2
      <4>4. QED
        BY <4>1, <4>2, <4>3, <3>3, <1>0, <1>10
    <3>4. \A y, z \in 1..Len(r) : y # z => y < z \/ z < y
      BY <1>0, <1>10
    <3>5. QED
      BY <3>3, <3>4, Zenon
  <2>7. QED
    BY <2>4, <2>5, <2>6, <1>10 DEF Threads
<1>12. Threads(m, <<>>)'
  <2>1. nxt'[m] = m
    BY <1>1, <1>6, <1>8, <1>9 DEF Ring
  <2>2. \A i : At(m, <<>>, i) = m
    BY DEF At
  <2>3. QED
    BY <2>1, <2>2, <1>1, <1>3 DEF Threads
<1>13. ASSUME NEW k \in Lists, k # l, k # m PROVE Threads(k, qs[k])'
  <2>1. Ring(k) \cap Ring(l) = {} /\ Ring(k) \cap Ring(m) = {} /\ Ring(k) \subseteq Cells
    BY <1>13, RingsDiffer, Kept DEF Ring, IInv
  <2>2. \A c \in Ring(k) : nxt'[c] = nxt[c]
    BY <2>1, <1>8, <1>9 DEF Ring
  <2>3. QED
    BY <2>2, <1>3, <1>13, StillThreads
<1>14. \A k \in Lists : Threads(k, [qs EXCEPT ![l] = r, ![m] = <<>>][k])'
  BY <1>1, <1>11, <1>12, <1>13
<1>15. QED
  BY <1>14 DEF r, a, b

-----------------------------------------------------------------------------
(* The sequences of list.h.                                                *)

Seqs == [l \in Lists |-> Walk(l)]
WalkThreads == \A l \in Lists : \A q \in Seq(Nodes) : Threads(l, q) => Walk(l) = q

LEMMA WalksThread == WalkThreads
BY WalkIsThread DEF WalkThreads

LEMMA ThreadedAtFirst == Init => Threaded /\ Promised!Init
<1> SUFFICES ASSUME Init PROVE Threaded /\ Promised!Init
  OBVIOUS
<1>1. \A l \in Lists : In(l) = {} /\ nxt[l] = l
  BY Kept, LLConstants DEF Init, In
<1>2. \A l \in Lists : Threads(l, <<>>)
  BY <1>1 DEF Threads, At
<1>3. Threaded
  <2>1. [l \in Lists |-> <<>>] \in [Lists -> Seq(Nodes)]
    OBVIOUS
  <2>2. QED
    BY <2>1, <1>2 DEF Threaded
<1>4. \A l \in Lists : Walk(l) = <<>>
  BY <1>2, WalkIsThread
<1>5. Promised!Init
  BY <1>4 DEF Promised!Init
<1>6. QED
  BY <1>3, <1>5

(* What a step makes of the sequences. *)
LEMMA StepIsPromised ==
    IInv /\ Threaded /\ WalkThreads /\ WalkThreads' /\ [Next]_vars
      => Threaded' /\ (Promised!Next \/ UNCHANGED Seqs)
<1> SUFFICES ASSUME IInv, Threaded, WalkThreads, WalkThreads', [Next]_vars
             PROVE  Threaded' /\ (Promised!Next \/ UNCHANGED Seqs)
  OBVIOUS
<1>0. PICK qs \in [Lists -> Seq(Nodes)] : \A k \in Lists : Threads(k, qs[k])
  BY DEF Threaded
<1>1. Seqs = qs
  BY <1>0 DEF Seqs, WalkThreads
<1>2. ASSUME NEW rs \in [Lists -> Seq(Nodes)], \A k \in Lists : Threads(k, rs[k])'
      PROVE  Threaded' /\ Seqs' = rs
  <2>1. \A k \in Lists : Walk(k)' = rs[k]
    BY <1>2 DEF WalkThreads
  <2>2. QED
    BY <1>2, <2>1 DEF Threaded, Seqs
<1>3. ASSUME NEW l \in Lists, NEW n \in Nodes, NEW before \in Cells,
             ListInsert(l, n, before)
      PROVE  Threaded' /\ \E i \in 1..Len(Seqs[l]) + 1 : Promised!Insert(l, n, i)
  <2>1. \A k \in Lists : \A i \in 1..Len(qs[k]) : qs[k][i] # n
    BY <1>0, <1>3, InsertThreads
  <2>2. PICK i \in 1..Len(qs[l]) + 1 :
           \A k \in Lists : Threads(k, [qs EXCEPT ![l] = InsertAt(qs[l], i, n)][k])'
    BY <1>0, <1>3, InsertThreads
  <2>3. InsertAt(qs[l], i, n) \in Seq(Nodes)
    BY InsertedAt
  <2>4. [qs EXCEPT ![l] = InsertAt(qs[l], i, n)] \in [Lists -> Seq(Nodes)]
    BY <2>3
  <2>5. Threaded' /\ Seqs' = [qs EXCEPT ![l] = InsertAt(qs[l], i, n)]
    BY <1>2, <2>2, <2>4, Zenon
  <2>6. n \notin Promised!Used
    BY <2>1, <1>1 DEF Promised!Used, Promised!ToSet, Seqs
  <2>7. Promised!InsertAt(qs[l], i, n) = InsertAt(qs[l], i, n)
    BY DEF Promised!InsertAt, InsertAt
  <2>8. Promised!Insert(l, n, i)
    BY <1>1, <2>5, <2>6, <2>7 DEF Promised!Insert, Seqs
  <2>9. QED
    BY <1>1, <2>5, <2>8
<1>4. ASSUME NEW l \in Lists, NEW n \in Nodes, ListErase(l, n)
      PROVE  Threaded' /\ \E i \in 1..Len(Seqs[l]) : Promised!Erase(l, i)
  <2>1. PICK i \in 1..Len(qs[l]) :
           \A k \in Lists : Threads(k, [qs EXCEPT ![l] = RemoveAt(qs[l], i)][k])'
    BY <1>0, <1>4, EraseThreads
  <2>2. RemoveAt(qs[l], i) \in Seq(Nodes)
    BY RemovedAt
  <2>3. [qs EXCEPT ![l] = RemoveAt(qs[l], i)] \in [Lists -> Seq(Nodes)]
    BY <2>2
  <2>4. Threaded' /\ Seqs' = [qs EXCEPT ![l] = RemoveAt(qs[l], i)]
    BY <1>2, <2>1, <2>3, Zenon
  <2>5. Promised!RemoveAt(qs[l], i) = RemoveAt(qs[l], i)
    BY DEF Promised!RemoveAt, RemoveAt
  <2>6. Promised!Erase(l, i)
    BY <1>1, <2>4, <2>5 DEF Promised!Erase, Seqs
  <2>7. QED
    BY <1>1, <2>4, <2>6
<1>5. ASSUME NEW l \in Lists, ListClear(l) PROVE Threaded' /\ Promised!Clear(l)
  <2>1. [qs EXCEPT ![l] = <<>>] \in [Lists -> Seq(Nodes)]
    OBVIOUS
  <2>2. \A k \in Lists : Threads(k, [qs EXCEPT ![l] = <<>>][k])'
    BY <1>0, <1>5, ClearThreads
  <2>3. Threaded' /\ Seqs' = [qs EXCEPT ![l] = <<>>]
    BY <1>2, <2>1, <2>2, Zenon
  <2>4. QED
    BY <1>1, <2>3 DEF Promised!Clear, Seqs
<1>6. ASSUME NEW l \in Lists, NEW m \in Lists, ListSwap(l, m)
      PROVE  Threaded' /\ l # m /\ Promised!Swap(l, m)
  <2>1. [qs EXCEPT ![l] = qs[m], ![m] = qs[l]] \in [Lists -> Seq(Nodes)]
    OBVIOUS
  <2>2. \A k \in Lists : Threads(k, [qs EXCEPT ![l] = qs[m], ![m] = qs[l]][k])'
    BY <1>0, <1>6, SwapThreads
  <2>3. Threaded' /\ Seqs' = [qs EXCEPT ![l] = qs[m], ![m] = qs[l]]
    BY <1>2, <2>1, <2>2, Zenon
  <2>4. QED
    BY <1>1, <1>6, <2>3 DEF Promised!Swap, Seqs, ListSwap
<1>7. ASSUME NEW l \in Lists, NEW m \in Lists, ListCatAndClear(l, m)
      PROVE  Threaded' /\ l # m /\ Promised!CatAndClear(l, m)
  <2>0. qs[l] \o qs[m] \in Seq(Nodes)
    BY ConcatProperties
  <2>1. [qs EXCEPT ![l] = qs[l] \o qs[m], ![m] = <<>>] \in [Lists -> Seq(Nodes)]
    <3>1. \A s, t \in Seq(Nodes) : [qs EXCEPT ![l] = s, ![m] = t] \in [Lists -> Seq(Nodes)]
      OBVIOUS
    <3>2. <<>> \in Seq(Nodes)
      OBVIOUS
    <3>3. QED
      BY <2>0, <3>1, <3>2, Zenon
  <2>2. \A k \in Lists : Threads(k, [qs EXCEPT ![l] = qs[l] \o qs[m], ![m] = <<>>][k])'
    BY <1>0, <1>7, CatThreads
  <2>3. Threaded' /\ Seqs' = [qs EXCEPT ![l] = qs[l] \o qs[m], ![m] = <<>>]
    BY <1>2, <2>1, <2>2, Zenon
  <2>4. QED
    BY <1>1, <1>7, <2>3 DEF Promised!CatAndClear, Seqs, ListCatAndClear
<1>8. CASE UNCHANGED vars
  <2>1. \A k \in Lists : Threads(k, qs[k])'
    BY <1>0, <1>8 DEF vars, Threads, In
  <2>2. QED
    BY <1>1, <1>2, <2>1
<1>9. CASE UNCHANGED Seqs /\ Threaded'
  BY <1>9
<1>10. CASE ~UNCHANGED Seqs /\ Next
  <2>1. CASE \E l \in Lists, n \in Nodes, before \in Cells : ListInsert(l, n, before)
    BY <2>1, <1>3, <1>10 DEF Promised!Next, Seqs
  <2>2. CASE \E l \in Lists, n \in Nodes : ListPush(l, n)
    BY <2>2, <1>3, <1>10 DEF Promised!Next, Seqs, ListPush, Cells
  <2>3. CASE \E l \in Lists, n \in Nodes : ListErase(l, n)
    BY <2>3, <1>4, <1>10 DEF Promised!Next, Seqs
  <2>4. CASE \E l \in Lists : ListPop(l)
    <3>1. PICK l \in Lists : size[l] > 0 /\ ListErase(l, nxt[l])
      BY <2>4 DEF ListPop
    <3>2. nxt[l] \in Nodes
      BY <3>1, FirstIsNode DEF In
    <3>3. QED
      BY <3>1, <3>2, <1>4, <1>10 DEF Promised!Next, Seqs
  <2>5. CASE \E l \in Lists : ListClear(l)
    BY <2>5, <1>5, <1>10 DEF Promised!Next, Seqs
  <2>6. CASE \E l, m \in Lists : ListSwap(l, m) \/ ListCatAndClear(l, m)
    BY <2>6, <1>6, <1>7, <1>10 DEF Promised!Next, Seqs
  <2>7. QED
    BY <1>10, <2>1, <2>2, <2>3, <2>4, <2>5, <2>6 DEF Next
<1>11. ASSUME Next PROVE Threaded'
  <2>1. CASE \E l \in Lists : ListPop(l)
    <3>1. PICK l \in Lists : size[l] > 0 /\ ListErase(l, nxt[l])
      BY <2>1 DEF ListPop
    <3>2. nxt[l] \in Nodes
      BY <3>1, FirstIsNode DEF In
    <3>3. QED
      BY <3>1, <3>2, <1>4
  <2>2. CASE \E l \in Lists, n \in Nodes : ListPush(l, n)
    BY <2>2, <1>3 DEF ListPush, Cells
  <2>3. QED
    BY <1>11, <2>1, <2>2, <1>3, <1>4, <1>5, <1>6, <1>7 DEF Next
<1>12. QED
  BY <1>8, <1>9, <1>10, <1>11

(* For any lists and nodes list.c implements the lists of list.h: walking  *)
(* a list gives the sequence of what was put into it, whatever inserting,  *)
(* erasing, clearing, swapping and concatenating do to the pointers.       *)
THEOREM ListsKeepSequences == Spec => ListsAreSequences
<1>1. Threaded /\ IInv /\ [Next]_vars /\ WalkThreads /\ WalkThreads'
        => Threaded' /\ [Promised!Next]_(Seqs)
  BY StepIsPromised DEF Seqs
<1>2. QED
  BY <1>1, ThreadedAtFirst, WalksThread, ClosedAtFirst, StepKeepsRings, PTL
     DEF Spec, ListsAreSequences, Promised!Spec, Seqs

-----------------------------------------------------------------------------
(* The rows of an infohash.                                                *)

Rows == [infohash : Infohashes, status : {0, 1, 2}]
RowsOf(h) == {i \in 1..Len(tasks) : tasks[i].infohash = h}

Places == {"idle", "create", "commit", "download", "count", "post", "write", "mark"}
Procs(H) ==
    [at : Places, infohash : Infohashes \cup {None}, address : Addresses \cup {None},
     status : {0, 1, 2, None}, dupAddress : BOOLEAN, named : BOOLEAN, hot : H, found : BOOLEAN]

(* Callbacks that will add a row to infohash_task, to announce_peer.       *)
Creates(c, h) ==
    /\ c.infohash = h
    /\ c.at = "create" \/ (c.at = "commit" /\ c.status = None)
Announces(c, h, a) == c.at = "commit" /\ c.infohash = h /\ c.address = a /\ ~c.dupAddress
Creating(h) == {w \in Callbacks : Creates(proc[w], h)}
Announcing(h, a) == {w \in Callbacks : Announces(proc[w], h, a)}

(* What a process is at, and about which torrent. *)
Fits(c) ==
    /\ c.at # "idle" => c.infohash \in Infohashes
    /\ c.at = "commit" => c.address \in Addresses

Typed ==
    /\ tasks \in Seq(Rows)
    /\ announced \in [Infohashes -> [Addresses -> Nat]]
    /\ \E H : 0 \in H /\ proc \in [Processes -> Procs(H)]
    /\ \A p \in Processes : Fits(proc[p])

RowRoom(h) == Cardinality(RowsOf(h)) + Cardinality(Creating(h)) <= Cardinality(Callbacks)
PeerRoom(h, a) == announced[h][a] + Cardinality(Announcing(h, a)) <= Cardinality(Callbacks)
Room == \A h \in Infohashes : RowRoom(h) /\ \A a \in Addresses : PeerRoom(h, a)

IndexInv == Typed /\ Room

-----------------------------------------------------------------------------
(* The last row is one.                                                    *)
LEMMA MaxIsIn ==
    ASSUME NEW n \in Nat, NEW R \in SUBSET (1..n), R # {}
    PROVE  Max(R) \in R
<1> DEFINE T == {n - i : i \in R}
<1>0. \A i \in R : i \in Nat /\ i <= n /\ n - i \in Nat
  OBVIOUS
<1>1. T \subseteq Nat /\ T # {}
  BY <1>0
<1>2. PICK x \in T : \A y \in T : ~(<<y, x>> \in OpToRel(<, Nat))
  BY <1>1, WFMin, NatLessThanWellFounded
<1>3. \A y \in T : ~(y < x)
  BY <1>1, <1>2 DEF OpToRel
<1>4. PICK i \in R : x = n - i
  OBVIOUS
<1>5. \A j \in R : i >= j
  BY <1>0, <1>3, <1>4
<1>6. QED
  BY <1>5 DEF Max

LEMMA NoStatusNoRows ==
    ASSUME Typed, NEW h, Status(h) = None
    PROVE  RowsOf(h) = {}
<1> SUFFICES ASSUME RowsOf(h) # {} PROVE FALSE
  OBVIOUS
<1>1. Len(tasks) \in Nat /\ RowsOf(h) \in SUBSET (1..Len(tasks))
  BY DEF Typed, RowsOf
<1>2. Max(RowsOf(h)) \in 1..Len(tasks)
  BY <1>1, MaxIsIn
<1>3. tasks[Max(RowsOf(h))].status \in {0, 1, 2}
  <2>1. \A i \in 1..Len(tasks) : tasks[i] \in Rows
    BY DEF Typed
  <2>2. QED
    BY <1>2, <2>1 DEF Rows
<1>4. Status(h) = tasks[Max(RowsOf(h))].status
  BY DEF Status, RowsOf
<1>5. QED
  BY <1>3, <1>4, IndexAssumption

LEMMA StatusTyped ==
    ASSUME Typed, NEW h
    PROVE  Status(h) \in {0, 1, 2, None}
<1>1. CASE RowsOf(h) = {}
  BY <1>1 DEF Status, RowsOf
<1>2. CASE RowsOf(h) # {}
  <2>1. Len(tasks) \in Nat /\ RowsOf(h) \in SUBSET (1..Len(tasks))
    BY DEF Typed, RowsOf
  <2>2. Max(RowsOf(h)) \in 1..Len(tasks)
    BY <1>2, <2>1, MaxIsIn
  <2>3. tasks[Max(RowsOf(h))].status \in {0, 1, 2}
    <3>1. \A i \in 1..Len(tasks) : tasks[i] \in Rows
      BY DEF Typed
    <3>2. QED
      BY <2>2, <3>1 DEF Rows
  <2>4. QED
    BY <1>2, <2>3 DEF Status, RowsOf
<1>3. QED
  BY <1>1, <1>2

(* Everything that is counted is finite. *)
LEMMA AllCounted ==
    ASSUME Typed, NEW h, NEW a
    PROVE  /\ Cardinality(Callbacks) \in Nat
           /\ IsFiniteSet(RowsOf(h)) /\ Cardinality(RowsOf(h)) \in Nat
           /\ \A S \in SUBSET Callbacks :
                 /\ IsFiniteSet(S) /\ Cardinality(S) \in Nat
                 /\ Cardinality(S) <= Cardinality(Callbacks)
                 /\ \A T \in SUBSET S : Cardinality(T) <= Cardinality(S)
           /\ {Creating(h), Creating(h)', Announcing(h, a), Announcing(h, a)'} \subseteq SUBSET Callbacks
<1>1. IsFiniteSet(Callbacks) /\ Cardinality(Callbacks) \in Nat
  BY FS_CardinalityType, IndexAssumption
<1>2. RowsOf(h) \subseteq 1..Len(tasks) /\ Len(tasks) \in Nat
  BY DEF RowsOf, Typed
<1>3. IsFiniteSet(RowsOf(h)) /\ Cardinality(RowsOf(h)) \in Nat
  <2>1. IsFiniteSet(1..Len(tasks))
    BY <1>2, FS_Interval
  <2>2. QED
    BY <1>2, <2>1, FS_Subset, FS_CardinalityType
<1>4. \A S \in SUBSET Callbacks :
         /\ IsFiniteSet(S) /\ Cardinality(S) \in Nat
         /\ Cardinality(S) <= Cardinality(Callbacks)
  BY <1>1, FS_Subset, FS_CardinalityType
<1>5. \A S \in SUBSET Callbacks : \A T \in SUBSET S : Cardinality(T) <= Cardinality(S)
  BY <1>4, FS_Subset
<1>6. {Creating(h), Creating(h)', Announcing(h, a), Announcing(h, a)'} \subseteq SUBSET Callbacks
  BY DEF Creating, Announcing
<1>7. QED
  BY <1>1, <1>3, <1>4, <1>5, <1>6

-----------------------------------------------------------------------------
(* How the counts change.                                                  *)

LEMMA RowsNoMore ==
    ASSUME IndexInv, NEW h \in Infohashes,
           RowsOf(h)' = RowsOf(h), Creating(h)' \subseteq Creating(h)
    PROVE  RowRoom(h)'
<1>1. Cardinality(Creating(h)') <= Cardinality(Creating(h))
      /\ Cardinality(Creating(h)') \in Nat /\ Cardinality(Creating(h)) \in Nat
      /\ Cardinality(RowsOf(h)) \in Nat /\ Cardinality(Callbacks) \in Nat
  BY AllCounted DEF IndexInv
<1>2. QED
  BY <1>1 DEF IndexInv, Room, RowRoom

(* The first callback to look, or several: there is no row yet. *)
LEMMA NoRowsYet ==
    ASSUME IndexInv, NEW h \in Infohashes, RowsOf(h)' = {}
    PROVE  RowRoom(h)'
<1>1. Cardinality(Creating(h)') \in Nat /\ Cardinality(Creating(h)') <= Cardinality(Callbacks)
  BY AllCounted DEF IndexInv
<1>2. QED
  BY <1>1, FS_EmptySet DEF RowRoom

LEMMA RowForCallback ==
    ASSUME IndexInv, NEW h \in Infohashes, NEW w \in Creating(h), NEW i,
           i \notin RowsOf(h), RowsOf(h)' = RowsOf(h) \cup {i}, Creating(h)' = Creating(h) \ {w}
    PROVE  RowRoom(h)'
<1>1. IsFiniteSet(RowsOf(h)) /\ IsFiniteSet(Creating(h))
      /\ Cardinality(Creating(h)) \in Nat /\ Cardinality(RowsOf(h)) \in Nat
  BY AllCounted DEF IndexInv
<1>2. Cardinality(RowsOf(h)') = Cardinality(RowsOf(h)) + 1
  BY <1>1, FS_AddElement
<1>3. Cardinality(Creating(h)') = Cardinality(Creating(h)) - 1
  BY <1>1, FS_RemoveElement
<1>4. QED
  BY <1>1, <1>2, <1>3 DEF IndexInv, Room, RowRoom

LEMMA PeersNoMore ==
    ASSUME IndexInv, NEW h \in Infohashes, NEW a \in Addresses,
           announced'[h][a] = announced[h][a], Announcing(h, a)' \subseteq Announcing(h, a)
    PROVE  PeerRoom(h, a)'
<1>1. Cardinality(Announcing(h, a)') <= Cardinality(Announcing(h, a))
      /\ Cardinality(Announcing(h, a)') \in Nat /\ Cardinality(Announcing(h, a)) \in Nat
      /\ Cardinality(Callbacks) \in Nat /\ announced[h][a] \in Nat
  BY AllCounted DEF IndexInv, Typed
<1>2. QED
  BY <1>1 DEF IndexInv, Room, PeerRoom

LEMMA NoPeersYet ==
    ASSUME IndexInv, NEW h \in Infohashes, NEW a \in Addresses, announced'[h][a] = 0
    PROVE  PeerRoom(h, a)'
<1>1. Cardinality(Announcing(h, a)') \in Nat
      /\ Cardinality(Announcing(h, a)') <= Cardinality(Callbacks)
  BY AllCounted DEF IndexInv
<1>2. QED
  BY <1>1 DEF PeerRoom

LEMMA PeerForCallback ==
    ASSUME IndexInv, NEW h \in Infohashes, NEW a \in Addresses,
           NEW w \in Announcing(h, a), announced'[h][a] = announced[h][a] + 1,
           Announcing(h, a)' = Announcing(h, a) \ {w}
    PROVE  PeerRoom(h, a)'
<1>1. IsFiniteSet(Announcing(h, a)) /\ Cardinality(Announcing(h, a)) \in Nat
      /\ announced[h][a] \in Nat /\ Cardinality(Callbacks) \in Nat
  BY AllCounted DEF IndexInv, Typed
<1>2. Cardinality(Announcing(h, a)') = Cardinality(Announcing(h, a)) - 1
  BY <1>1, FS_RemoveElement
<1>3. QED
  BY <1>1, <1>2 DEF IndexInv, Room, PeerRoom

-----------------------------------------------------------------------------
(* How the state changes.                                                  *)

LEMMA TaskAppended ==
    ASSUME Typed, NEW h \in Infohashes, tasks' = Append(tasks, [infohash |-> h, status |-> 0])
    PROVE  /\ tasks' \in Seq(Rows)
           /\ \E i : i \notin RowsOf(h) /\ RowsOf(h)' = RowsOf(h) \cup {i}
           /\ \A g : g # h => RowsOf(g)' = RowsOf(g)
<1>1. PICK row : row = [infohash |-> h, status |-> 0]
  OBVIOUS
<1>2. row \in Rows /\ row.infohash = h
  BY <1>1 DEF Rows
<1>3. /\ tasks' \in Seq(Rows) /\ Len(tasks) \in Nat /\ Len(tasks') = Len(tasks) + 1
      /\ tasks'[Len(tasks) + 1] = row /\ \A i \in 1..Len(tasks) : tasks'[i] = tasks[i]
  BY <1>1, <1>2 DEF Typed
<1>4. Len(tasks) + 1 \notin RowsOf(h) /\ RowsOf(h)' = RowsOf(h) \cup {Len(tasks) + 1}
  BY <1>2, <1>3 DEF RowsOf
<1>5. \A g : g # h => RowsOf(g)' = RowsOf(g)
  BY <1>2, <1>3 DEF RowsOf
<1>6. QED
  BY <1>3, <1>4, <1>5

LEMMA TasksUpdated ==
    ASSUME Typed, NEW h, NEW s \in {0, 1, 2}, UpdateStatus(h, s)
    PROVE  tasks' \in Seq(Rows) /\ \A g : RowsOf(g)' = RowsOf(g)
<1>1. Len(tasks) \in Nat /\ \A i \in 1..Len(tasks) : tasks[i] \in Rows
  BY DEF Typed
<1>2. \A i \in 1..Len(tasks) :
         /\ tasks'[i] \in Rows /\ tasks'[i].infohash = tasks[i].infohash
  <2> TAKE i \in 1..Len(tasks)
  <2>1. PICK t \in Rows : t = tasks[i]
    BY <1>1
  <2>2. PICK u : u = [t EXCEPT !.status = s]
    OBVIOUS
  <2>3. u \in Rows /\ u.infohash = t.infohash
    BY <2>2 DEF Rows
  <2>4. tasks'[i] = u \/ tasks'[i] = t
    BY <2>1, <2>2 DEF UpdateStatus
  <2>5. QED
    BY <2>1, <2>3, <2>4
<1>3. Len(tasks') = Len(tasks) /\ tasks' \in Seq(Rows)
  BY <1>1, <1>2 DEF UpdateStatus
<1>4. QED
  BY <1>2, <1>3 DEF RowsOf

(* One process goes on. *)
LEMMA ProcChanged ==
    ASSUME Typed, NEW p \in Processes, NEW r, Fits(r), \E H : r \in Procs(H),
           proc' = [proc EXCEPT ![p] = r]
    PROVE  /\ \E H : 0 \in H /\ proc' \in [Processes -> Procs(H)]
           /\ \A q \in Processes : Fits(proc'[q]) /\ proc'[q] = IF q = p THEN r ELSE proc[q]
<1>1. PICK G : 0 \in G /\ proc \in [Processes -> Procs(G)]
  BY DEF Typed
<1>2. PICK H : r \in Procs(H)
  OBVIOUS
<1>3. proc' \in [Processes -> Procs(G \cup H)]
  BY <1>1, <1>2 DEF Procs
<1>4. QED
  BY <1>1, <1>3 DEF Typed

LEMMA IdleTyped == Fits(Idle) /\ Idle \in Procs({0})
BY DEF Idle, Fits, Procs, Places

LEMMA ProcGoes ==
    ASSUME Typed, NEW p \in Processes, NEW a \in Places \ {"commit"}, proc[p].at # "idle", Goes(p, a)
    PROVE  \E r : /\ Fits(r) /\ r.at = a /\ \E H : r \in Procs(H)
                  /\ proc' = [proc EXCEPT ![p] = r]
<1>1. PICK H : proc[p] \in Procs(H)
  BY DEF Typed
<1>2. PICK r : r = [proc[p] EXCEPT !.at = a]
  OBVIOUS
<1>3. r \in Procs(H) /\ r.at = a /\ r.infohash = proc[p].infohash
  BY <1>1, <1>2 DEF Procs
<1>4. Fits(r)
  BY <1>3 DEF Typed, Fits
<1>5. proc' = [proc EXCEPT ![p] = r]
  BY <1>2 DEF Goes
<1>6. QED
  BY <1>3, <1>4, <1>5

(* A process that is then not about to add a row. *)
LEMMA NotAdding ==
    ASSUME Typed, NEW p \in Processes, NEW r, Fits(r), \E H : r \in Procs(H),
           proc' = [proc EXCEPT ![p] = r], r.at \notin {"create", "commit"}
    PROVE  /\ \A h : Creating(h)' = Creating(h) \ {p}
           /\ \A h, a : Announcing(h, a)' = Announcing(h, a) \ {p}
<1>1. \A q \in Callbacks : q \in Processes /\ proc'[q] = IF q = p THEN r ELSE proc[q]
  BY ProcChanged DEF Processes
<1>2. QED
  BY <1>1 DEF Creating, Announcing, Creates, Announces

-----------------------------------------------------------------------------
(* The steps.  Most add no row and no callback that is about to.           *)
LEMMA NothingAdded ==
    ASSUME IndexInv, tasks' \in Seq(Rows), \A g : RowsOf(g)' = RowsOf(g),
           announced' = announced,
           \E H : 0 \in H /\ proc' \in [Processes -> Procs(H)],
           \A q \in Processes : Fits(proc'[q]),
           \A g : Creating(g)' \subseteq Creating(g),
           \A g, b : Announcing(g, b)' \subseteq Announcing(g, b)
    PROVE  IndexInv'
<1>1. Typed'
  BY DEF IndexInv, Typed
<1>2. \A g \in Infohashes : RowRoom(g)'
  BY RowsNoMore
<1>3. \A g \in Infohashes, b \in Addresses : PeerRoom(g, b)'
  BY PeersNoMore
<1>4. QED
  BY <1>1, <1>2, <1>3 DEF IndexInv, Room

(* A process that goes on with something else than a row. *)
LEMMA GoesOn ==
    ASSUME IndexInv, tasks' \in Seq(Rows), \A g : RowsOf(g)' = RowsOf(g),
           announced' = announced, NEW p \in Processes, NEW r, Fits(r), \E H : r \in Procs(H),
           proc' = [proc EXCEPT ![p] = r], r.at \notin {"create", "commit"}
    PROVE  IndexInv'
<1>1. Typed
  BY DEF IndexInv
<1>2. /\ \E H : 0 \in H /\ proc' \in [Processes -> Procs(H)]
      /\ \A q \in Processes : Fits(proc'[q])
  BY <1>1, ProcChanged
<1>3. \A g : Creating(g)' \subseteq Creating(g)
  BY <1>1, NotAdding
<1>4. \A g, b : Announcing(g, b)' \subseteq Announcing(g, b)
  <2>1. \A g, b : Announcing(g, b)' = Announcing(g, b) \ {p}
    BY <1>1, NotAdding
  <2>2. QED
    BY <2>1
<1>5. QED
  BY <1>2, <1>3, <1>4, NothingAdded

LEMMA EndsOrGoes ==
    ASSUME Typed, NEW p \in Processes, NEW a \in Places \ {"create", "commit"},
           proc[p].at # "idle", Goes(p, a) \/ Ends(p)
    PROVE  \E r : /\ Fits(r) /\ r.at \notin {"create", "commit"} /\ \E H : r \in Procs(H)
                  /\ proc' = [proc EXCEPT ![p] = r]
<1>1. CASE Goes(p, a)
  BY <1>1, ProcGoes
<1>2. CASE Ends(p)
  <2>1. Idle.at = "idle"
    BY DEF Idle
  <2>2. QED
    BY <1>2, <2>1, IdleTyped DEF Ends
<1>3. QED
  BY <1>1, <1>2

LEMMA TasksSame ==
    ASSUME Typed, tasks' = tasks
    PROVE  tasks' \in Seq(Rows) /\ \A g : RowsOf(g)' = RowsOf(g)
BY DEF Typed, RowsOf

LEMMA CreatesRow ==
    ASSUME IndexInv, NEW w \in Callbacks, NEW h \in Infohashes, w \in Creating(h),
           tasks' = Append(tasks, [infohash |-> h, status |-> 0]),
           \A g : Creating(g)' = Creating(g) \ {w}
    PROVE  \A g \in Infohashes : RowRoom(g)'
<1>1. PICK i : i \notin RowsOf(h) /\ RowsOf(h)' = RowsOf(h) \cup {i}
  BY TaskAppended DEF IndexInv
<1>2. RowRoom(h)'
  BY <1>1, RowForCallback
<1>3. \A g \in Infohashes \ {h} : RowsOf(g)' = RowsOf(g)
  BY TaskAppended DEF IndexInv
<1>4. \A g \in Infohashes \ {h} : RowRoom(g)'
  BY <1>3, RowsNoMore
<1>5. QED
  BY <1>2, <1>4

LEMMA BeginGetPeersKeeps ==
    ASSUME IndexInv, NEW w \in Callbacks, BeginGetPeers(w)
    PROVE  IndexInv'
<1>1. PICK h \in Infohashes :
         /\ Status(h) = None
         /\ proc' = [proc EXCEPT ![w] = [Idle EXCEPT !.at = "create", !.infohash = h]]
  BY DEF BeginGetPeers
<1>2. PICK r : r = [Idle EXCEPT !.at = "create", !.infohash = h]
  OBVIOUS
<1>3. r.at = "create" /\ r.infohash = h /\ Fits(r) /\ r \in Procs({0})
  BY <1>2 DEF Idle, Fits, Procs, Places
<1>4. Typed /\ w \in Processes /\ tasks' = tasks /\ announced' = announced
  BY DEF IndexInv, BeginGetPeers, Processes
<1>5. tasks' \in Seq(Rows) /\ \A g : RowsOf(g)' = RowsOf(g)
  BY <1>4, TasksSame
<1>6. /\ \E H : 0 \in H /\ proc' \in [Processes -> Procs(H)]
      /\ \A q \in Processes : Fits(proc'[q]) /\ proc'[q] = IF q = w THEN r ELSE proc[q]
  BY <1>1, <1>2, <1>3, <1>4, ProcChanged
<1>7. Typed'
  BY <1>4, <1>5, <1>6 DEF Typed
<1>8. \A q \in Callbacks : proc'[q] = IF q = w THEN r ELSE proc[q]
  BY <1>6 DEF Processes
<1>9. RowRoom(h)'
  BY <1>1, <1>4, <1>5, NoStatusNoRows, NoRowsYet
<1>10. \A g \in Infohashes \ {h} : RowRoom(g)'
  <2>1. \A g \in Infohashes \ {h} : Creating(g)' \subseteq Creating(g)
    BY <1>3, <1>8 DEF Creating, Creates
  <2>2. QED
    BY <1>5, <2>1, RowsNoMore
<1>11. \A g \in Infohashes, b \in Addresses : PeerRoom(g, b)'
  <2>1. \A g, b : Announcing(g, b)' \subseteq Announcing(g, b)
    BY <1>3, <1>8 DEF Announcing, Announces
  <2>2. QED
    BY <1>4, <2>1, PeersNoMore
<1>12. QED
  BY <1>7, <1>9, <1>10, <1>11 DEF IndexInv, Room

LEMMA CreateTaskKeeps ==
    ASSUME IndexInv, NEW w \in Callbacks, CreateTask(w)
    PROVE  IndexInv'
<1>1. /\ Typed /\ w \in Processes /\ announced' = announced
      /\ proc[w].at = "create" /\ Of(w) \in Infohashes /\ proc' = [proc EXCEPT ![w] = Idle]
  BY DEF IndexInv, CreateTask, Processes, Typed, Fits, Of, Ends
<1>2. Idle.at = "idle"
  BY DEF Idle
<1>3. CASE tasks' = tasks
  BY <1>1, <1>2, <1>3, IdleTyped, TasksSame, GoesOn
<1>4. CASE tasks' = Append(tasks, [infohash |-> Of(w), status |-> 0])
  <2>1. /\ \A g : Creating(g)' = Creating(g) \ {w}
        /\ \A g, b : Announcing(g, b)' = Announcing(g, b) \ {w}
    BY <1>1, <1>2, IdleTyped, NotAdding
  <2>2. w \in Creating(Of(w))
    BY <1>1 DEF Creating, Creates, Of
  <2>3. \A g \in Infohashes : RowRoom(g)'
    BY <1>1, <1>4, <2>1, <2>2, CreatesRow
  <2>4. \A g \in Infohashes, b \in Addresses : PeerRoom(g, b)'
    BY <1>1, <2>1, PeersNoMore
  <2>5. Typed'
    <3>1. tasks' \in Seq(Rows)
      BY <1>1, <1>4, TaskAppended
    <3>2. /\ \E H : 0 \in H /\ proc' \in [Processes -> Procs(H)]
          /\ \A q \in Processes : Fits(proc'[q])
      BY <1>1, IdleTyped, ProcChanged
    <3>3. QED
      BY <1>1, <3>1, <3>2 DEF Typed
  <2>6. QED
    BY <2>3, <2>4, <2>5 DEF IndexInv, Room
<1>5. QED
  BY <1>3, <1>4 DEF CreateTask

(* A callback that has found no row for the address. *)
LEMMA BeginAnnounceKeeps ==
    ASSUME IndexInv, NEW w \in Callbacks, BeginAnnounce(w)
    PROVE  IndexInv'
<1>1. PICK h \in Infohashes, a \in Addresses :
         \E s \in {Status(h), 0}, d \in {TRUE, announced[h][a] > 0} :
            proc' = [proc EXCEPT ![w] = [Idle EXCEPT !.at = "commit", !.infohash = h,
                                            !.address = a, !.status = s, !.dupAddress = d]]
  BY DEF BeginAnnounce
<1>2. PICK s \in {Status(h), 0}, d \in {TRUE, announced[h][a] > 0} :
         \E r : /\ r = [Idle EXCEPT !.at = "commit", !.infohash = h,
                                     !.address = a, !.status = s, !.dupAddress = d]
                /\ proc' = [proc EXCEPT ![w] = r]
  BY <1>1
<1>3. PICK r : /\ r = [Idle EXCEPT !.at = "commit", !.infohash = h,
                                   !.address = a, !.status = s, !.dupAddress = d]
               /\ proc' = [proc EXCEPT ![w] = r]
  BY <1>2
<1>4. Typed /\ w \in Processes /\ tasks' = tasks /\ announced' = announced
  BY DEF IndexInv, BeginAnnounce, Processes
<1>5. s \in {0, 1, 2, None} /\ d \in BOOLEAN /\ (~d => announced[h][a] = 0)
  <2>1. s \in {0, 1, 2, None}
    BY <1>4, StatusTyped
  <2>2. announced[h][a] \in Nat
    BY <1>4 DEF Typed
  <2>3. (announced[h][a] > 0) \in BOOLEAN /\ (~(announced[h][a] > 0) => announced[h][a] = 0)
    BY <2>2
  <2>4. d = TRUE \/ d = (announced[h][a] > 0)
    BY <1>2
  <2>5. QED
    BY <2>1, <2>3, <2>4, Zenon
<1>6. /\ r.at = "commit" /\ r.infohash = h /\ r.address = a /\ r.status = s /\ r.dupAddress = d
      /\ Fits(r) /\ r \in Procs({0})
  BY <1>3, <1>5 DEF Idle, Fits, Procs, Places
<1>7. tasks' \in Seq(Rows) /\ \A g : RowsOf(g)' = RowsOf(g)
  BY <1>4, TasksSame
<1>8. /\ \E H : 0 \in H /\ proc' \in [Processes -> Procs(H)]
      /\ \A q \in Processes : Fits(proc'[q]) /\ proc'[q] = IF q = w THEN r ELSE proc[q]
  BY <1>3, <1>4, <1>6, ProcChanged
<1>9. Typed'
  BY <1>4, <1>7, <1>8 DEF Typed
<1>10. \A q \in Callbacks : proc'[q] = IF q = w THEN r ELSE proc[q]
  BY <1>8 DEF Processes
<1>11. ASSUME NEW g \in Infohashes PROVE RowRoom(g)'
  <2>1. CASE g = h /\ s = None
    <3>1. Status(h) = None
      BY <1>2, <2>1, IndexAssumption
    <3>2. QED
      BY <1>4, <1>7, <2>1, <3>1, NoStatusNoRows, NoRowsYet
  <2>2. CASE ~(g = h /\ s = None)
    <3>1. Creating(g)' \subseteq Creating(g)
      BY <1>6, <1>10, <2>2 DEF Creating, Creates
    <3>2. QED
      BY <1>7, <3>1, RowsNoMore
  <2>3. QED
    BY <2>1, <2>2
<1>12. ASSUME NEW g \in Infohashes, NEW b \in Addresses PROVE PeerRoom(g, b)'
  <2>1. CASE g = h /\ b = a /\ ~d
    <3>1. announced'[g][b] = 0
      BY <1>4, <1>5, <2>1
    <3>2. QED
      BY <3>1, NoPeersYet
  <2>2. CASE ~(g = h /\ b = a /\ ~d)
    <3>1. Announcing(g, b)' \subseteq Announcing(g, b)
      BY <1>6, <1>10, <2>2 DEF Announcing, Announces
    <3>2. QED
      BY <1>4, <3>1, PeersNoMore
  <2>3. QED
    BY <2>1, <2>2
<1>13. QED
  BY <1>9, <1>11, <1>12 DEF IndexInv, Room

LEMMA CommitKeeps ==
    ASSUME IndexInv, NEW w \in Callbacks, Commit(w)
    PROVE  IndexInv'
<1>1. /\ Typed /\ w \in Processes /\ proc[w].at = "commit"
      /\ Of(w) \in Infohashes /\ proc[w].address \in Addresses
  BY DEF IndexInv, Commit, Processes, Typed, Fits, Of
<1>2. PICK r : /\ Fits(r) /\ r.at \notin {"create", "commit"} /\ \E H : r \in Procs(H)
               /\ proc' = [proc EXCEPT ![w] = r]
  <2>1. "count" \in Places \ {"create", "commit"}
    BY DEF Places
  <2>2. Goes(w, "count") \/ Ends(w)
    BY DEF Commit
  <2>3. QED
    BY <1>1, <2>1, <2>2, EndsOrGoes
<1>3. CASE tasks' = tasks /\ announced' = announced
  BY <1>1, <1>2, <1>3, TasksSame, GoesOn
<1>4. CASE /\ tasks' = IF proc[w].status # None THEN tasks
                       ELSE Append(tasks, [infohash |-> Of(w), status |-> 0])
           /\ announced' = IF proc[w].dupAddress THEN announced
                           ELSE [announced EXCEPT ![Of(w)][proc[w].address] = @ + 1]
  <2>1. \A g : Creating(g)' = Creating(g) \ {w}
    BY <1>1, <1>2, NotAdding
  <2>2. \A g, b : Announcing(g, b)' = Announcing(g, b) \ {w}
    BY <1>1, <1>2, NotAdding
  <2>3. tasks' \in Seq(Rows)
    BY <1>1, <1>4, TasksSame, TaskAppended
  <2>4. \A g \in Infohashes : RowRoom(g)'
    <3>1. CASE proc[w].status # None
      <4>1. \A g : RowsOf(g)' = RowsOf(g)
        BY <1>1, <1>4, <3>1, TasksSame
      <4>2. \A g : Creating(g)' \subseteq Creating(g)
        BY <2>1
      <4>3. QED
        BY <4>1, <4>2, RowsNoMore
    <3>2. CASE proc[w].status = None
      <4>1. w \in Creating(Of(w))
        BY <1>1, <3>2 DEF Creating, Creates, Of
      <4>2. QED
        BY <1>1, <1>4, <2>1, <3>2, <4>1, CreatesRow
    <3>3. QED
      BY <3>1, <3>2
  <2>5. announced' \in [Infohashes -> [Addresses -> Nat]]
    <3>1. announced \in [Infohashes -> [Addresses -> Nat]]
      BY <1>1 DEF Typed
    <3>2. QED
      BY <1>1, <1>4, <3>1
  <2>6. ASSUME NEW g \in Infohashes, NEW b \in Addresses PROVE PeerRoom(g, b)'
    <3>1. CASE g = Of(w) /\ b = proc[w].address /\ ~proc[w].dupAddress
      <4>1. w \in Announcing(g, b)
        BY <1>1, <3>1 DEF Announcing, Announces, Of
      <4>2. announced'[g][b] = announced[g][b] + 1
        <5>1. announced \in [Infohashes -> [Addresses -> Nat]]
          BY <1>1 DEF Typed
        <5>2. QED
          BY <1>1, <1>4, <3>1, <5>1
      <4>3. QED
        BY <2>2, <4>1, <4>2, PeerForCallback
    <3>2. CASE ~(g = Of(w) /\ b = proc[w].address /\ ~proc[w].dupAddress)
      <4>1. announced'[g][b] = announced[g][b]
        <5>1. announced \in [Infohashes -> [Addresses -> Nat]]
          BY <1>1 DEF Typed
        <5>2. QED
          BY <1>1, <1>4, <3>2, <5>1
      <4>2. Announcing(g, b)' \subseteq Announcing(g, b)
        BY <2>2
      <4>3. QED
        BY <4>1, <4>2, PeersNoMore
    <3>3. QED
      BY <3>1, <3>2
  <2>7. Typed'
    <3>1. /\ \E H : 0 \in H /\ proc' \in [Processes -> Procs(H)]
          /\ \A q \in Processes : Fits(proc'[q])
      BY <1>1, <1>2, ProcChanged
    <3>2. QED
      BY <2>3, <2>5, <3>1 DEF Typed
  <2>8. QED
    BY <2>4, <2>6, <2>7 DEF IndexInv, Room
<1>5. QED
  BY <1>3, <1>4 DEF Commit

-----------------------------------------------------------------------------
(* The steps that add neither.                                             *)
LEMMA RollbackKeeps ==
    ASSUME IndexInv, NEW w \in Callbacks, Rollback(w)
    PROVE  IndexInv'
<1>1. Typed /\ w \in Processes /\ tasks' = tasks /\ announced' = announced /\ Ends(w)
  BY DEF IndexInv, Rollback, Processes
<1>2. Idle.at = "idle"
  BY DEF Idle
<1>3. QED
  BY <1>1, <1>2, IdleTyped, TasksSame, GoesOn DEF Ends

LEMMA UnchangedKeeps ==
    ASSUME IndexInv, tasks' = tasks, announced' = announced, proc' = proc
    PROVE  IndexInv'
<1>1. Typed
  BY DEF IndexInv
<1>2. tasks' \in Seq(Rows) /\ \A g : RowsOf(g)' = RowsOf(g)
  BY <1>1, TasksSame
<1>3. \A g : Creating(g)' = Creating(g)
  BY DEF Creating
<1>4. \A g, b : Announcing(g, b)' = Announcing(g, b)
  BY DEF Announcing
<1>5. /\ \E H : 0 \in H /\ proc' \in [Processes -> Procs(H)]
      /\ \A q \in Processes : Fits(proc'[q])
  BY <1>1 DEF Typed
<1>6. QED
  BY <1>2, <1>3, <1>4, <1>5, NothingAdded

LEMMA FinishTaskKeeps ==
    ASSUME IndexInv, NEW h \in Infohashes, FinishTask(h)
    PROVE  IndexInv'
<1>1. Typed /\ Loop \in Processes /\ announced' = announced
  BY DEF IndexInv, FinishTask, Processes
<1>2. CASE tasks' = tasks /\ proc' = proc
  BY <1>1, <1>2, UnchangedKeeps
<1>3. CASE /\ UpdateStatus(h, 1)
           /\ proc' = [proc EXCEPT ![Loop] =
                         [Idle EXCEPT !.at = "count", !.infohash = h, !.named = h \notin nameless]]
  <2>1. PICK r : r = [Idle EXCEPT !.at = "count", !.infohash = h, !.named = h \notin nameless]
    OBVIOUS
  <2>2. r.at = "count" /\ Fits(r) /\ r \in Procs({0})
    BY <2>1 DEF Idle, Fits, Procs, Places
  <2>3. tasks' \in Seq(Rows) /\ \A g : RowsOf(g)' = RowsOf(g)
    BY <1>1, <1>3, TasksUpdated
  <2>4. QED
    BY <1>1, <1>3, <2>1, <2>2, <2>3, GoesOn
<1>4. QED
  BY <1>2, <1>3 DEF FinishTask

LEMMA JobKeeps ==
    ASSUME IndexInv, NEW j \in Jobs, Queue(j) \/ DownloadTorrent(j) \/ Mark(j)
    PROVE  IndexInv'
<1>1. Typed /\ j \in Processes /\ announced' = announced
  BY DEF IndexInv, Queue, DownloadTorrent, Mark, Processes
<1>2. CASE Queue(j)
  <2>1. PICK h \in Infohashes :
           proc' = [proc EXCEPT ![j] = [Idle EXCEPT !.at = "download", !.infohash = h, !.named = h \notin nameless]]
    BY <1>2 DEF Queue
  <2>2. PICK r : r = [Idle EXCEPT !.at = "download", !.infohash = h, !.named = h \notin nameless]
    OBVIOUS
  <2>3. r.at = "download" /\ Fits(r) /\ r \in Procs({0})
    BY <2>2 DEF Idle, Fits, Procs, Places
  <2>4. tasks' \in Seq(Rows) /\ \A g : RowsOf(g)' = RowsOf(g)
    BY <1>1, <1>2, TasksSame DEF Queue
  <2>5. QED
    BY <1>1, <2>1, <2>2, <2>3, <2>4, GoesOn
<1>3. CASE DownloadTorrent(j) \/ Mark(j)
  <2>1. tasks' \in Seq(Rows) /\ \A g : RowsOf(g)' = RowsOf(g)
    BY <1>1, <1>3, TasksSame, TasksUpdated DEF DownloadTorrent, Mark
  <2>2. proc[j].at # "idle" /\ (Goes(j, "count") \/ Ends(j))
    BY <1>3 DEF DownloadTorrent, Mark
  <2>3. "count" \in Places \ {"create", "commit"}
    BY DEF Places
  <2>4. PICK r : /\ Fits(r) /\ r.at \notin {"create", "commit"} /\ \E H : r \in Procs(H)
                 /\ proc' = [proc EXCEPT ![j] = r]
    BY <1>1, <2>2, <2>3, EndsOrGoes
  <2>5. QED
    BY <1>1, <2>1, <2>4, GoesOn
<1>4. QED
  BY <1>2, <1>3

(* Counting and posting: hot is whatever the count is. *)
LEMMA ProceedsKeeps ==
    ASSUME IndexInv, NEW p \in Processes, Proceeds(p)
    PROVE  IndexInv'
<1>1. /\ Typed /\ tasks' = tasks /\ announced' = announced
      /\ proc[p].at \in {"count", "post", "write"} /\ Fits(proc[p])
  BY DEF IndexInv, Proceeds, Count, Get, Write, Typed
<1>2. PICK G : proc \in [Processes -> Procs(G)]
  BY <1>1 DEF Typed
<1>3. proc[p] \in Procs(G)
  BY <1>2
<1>4. \E r : /\ Fits(r) /\ r.at \notin {"create", "commit"} /\ \E H : r \in Procs(H)
             /\ proc' = [proc EXCEPT ![p] = r]
  <2>1. CASE proc' = [proc EXCEPT ![p].at = "post", ![p].hot = Hot(Of(p))]
    <3>1. PICK c : c = [proc[p] EXCEPT !.at = "post", !.hot = Hot(Of(p))]
      OBVIOUS
    <3>2. c \in Procs({Hot(Of(p))}) /\ c.at = "post" /\ c.infohash = proc[p].infohash
      BY <1>3, <3>1 DEF Procs, Places
    <3>3. Fits(c)
      BY <1>1, <3>2 DEF Fits
    <3>4. proc' = [proc EXCEPT ![p] = c]
      BY <1>2, <2>1, <3>1
    <3>5. QED
      BY <3>2, <3>3, <3>4
  <2>2. CASE proc' = [proc EXCEPT ![p].at = "write", ![p].found = index[Of(p)] # None]
    <3>1. PICK c : c = [proc[p] EXCEPT !.at = "write", !.found = index[Of(p)] # None]
      OBVIOUS
    <3>2. c \in Procs(G) /\ c.at = "write" /\ c.infohash = proc[p].infohash
      BY <1>3, <3>1 DEF Procs, Places
    <3>3. Fits(c)
      BY <1>1, <3>2 DEF Fits
    <3>4. proc' = [proc EXCEPT ![p] = c]
      BY <1>2, <2>2, <3>1
    <3>5. QED
      BY <3>2, <3>3, <3>4
  <2>3. CASE Goes(p, "write") \/ Goes(p, "mark") \/ Ends(p)
    <3>1. "write" \in Places \ {"create", "commit"} /\ "mark" \in Places \ {"create", "commit"}
      BY DEF Places
    <3>2. QED
      BY <1>1, <2>3, <3>1, EndsOrGoes
  <2>4. QED
    BY <2>1, <2>2, <2>3 DEF Proceeds, Count, Get, Write
<1>5. QED
  BY <1>1, <1>4, TasksSame, GoesOn

LEMMA CrashKeeps ==
    ASSUME IndexInv, Crash
    PROVE  IndexInv'
<1>1. /\ Typed /\ tasks' = tasks /\ announced' = announced
      /\ proc' = [p \in Processes |-> IF p \in Jobs THEN proc[p] ELSE Idle]
  BY DEF IndexInv, Crash
<1>2. PICK H : 0 \in H /\ proc \in [Processes -> Procs(H)]
  BY <1>1 DEF Typed
<1>3. Idle \in Procs(H) /\ Fits(Idle) /\ Idle.at = "idle"
  BY <1>2 DEF Idle, Fits, Procs, Places
<1>4. proc' \in [Processes -> Procs(H)] /\ \A q \in Processes : Fits(proc'[q])
  BY <1>1, <1>2, <1>3 DEF Typed
<1>5. \A q \in Callbacks : proc'[q] \in {proc[q], Idle}
  BY <1>1 DEF Processes
<1>6. \A g : Creating(g)' \subseteq Creating(g)
  BY <1>3, <1>5 DEF Creating, Creates
<1>7. \A g, b : Announcing(g, b)' \subseteq Announcing(g, b)
  BY <1>3, <1>5 DEF Announcing, Announces
<1>8. QED
  BY <1>1, <1>2, <1>4, <1>6, <1>7, TasksSame, NothingAdded

-----------------------------------------------------------------------------
LEMMA InitRoom ==
    ASSUME IndexInit
    PROVE  IndexInv
<1>1. Typed
  <2>1. proc \in [Processes -> Procs({0})] /\ \A p \in Processes : Fits(proc[p])
    BY IdleTyped DEF IndexInit
  <2>2. tasks \in Seq(Rows) /\ announced \in [Infohashes -> [Addresses -> Nat]]
    BY DEF IndexInit
  <2>3. QED
    BY <2>1, <2>2 DEF Typed
<1>2. \A q \in Callbacks : proc[q].at = "idle"
  BY DEF IndexInit, Idle, Processes
<1>3. \A h : RowsOf(h) = {} /\ Creating(h) = {}
  BY <1>2 DEF IndexInit, RowsOf, Creating, Creates
<1>4. \A h, a : Announcing(h, a) = {}
  BY <1>2 DEF Announcing, Announces
<1>5. Cardinality(Callbacks) \in Nat /\ Cardinality({}) = 0
  BY FS_CardinalityType, FS_EmptySet, IndexAssumption
<1>6. \A h \in Infohashes, a \in Addresses : announced[h][a] = 0
  BY DEF IndexInit
<1>7. \A h : RowRoom(h)
  BY <1>3, <1>5 DEF RowRoom
<1>8. \A h \in Infohashes, a \in Addresses : PeerRoom(h, a)
  BY <1>4, <1>5, <1>6 DEF PeerRoom
<1> QED
  BY <1>1, <1>7, <1>8 DEF IndexInv, Room

LEMMA NextKeepsRoom ==
    ASSUME IndexInv, [IndexNext]_indexVars
    PROVE  IndexInv'
<1>1. ASSUME NEW w \in Callbacks,
             BeginGetPeers(w) \/ CreateTask(w) \/ BeginAnnounce(w) \/ Commit(w) \/ Rollback(w)
      PROVE  IndexInv'
  BY <1>1, BeginGetPeersKeeps, CreateTaskKeeps, BeginAnnounceKeeps, CommitKeeps, RollbackKeeps
<1>2. ASSUME NEW h \in Infohashes, NoMetadata(h) \/ FinishTask(h)
      PROVE  IndexInv'
  BY <1>2, FinishTaskKeeps, UnchangedKeeps DEF NoMetadata
<1>3. ASSUME NEW j \in Jobs, Queue(j) \/ DownloadTorrent(j) \/ Mark(j)
      PROVE  IndexInv'
  BY <1>3, JobKeeps
<1>4. ASSUME NEW p \in Processes, Proceeds(p)
      PROVE  IndexInv'
  BY <1>4, ProceedsKeeps
<1>5. CASE Crash
  BY <1>5, CrashKeeps
<1>6. CASE UNCHANGED indexVars
  BY <1>6, UnchangedKeeps DEF indexVars
<1>7. QED
  BY <1>1, <1>2, <1>3, <1>4, <1>5, <1>6 DEF IndexNext

LEMMA RoomBounds ==
    ASSUME IndexInv
    PROVE  RowsBounded
<1>1. ASSUME NEW h \in Infohashes, NEW a \in Addresses
      PROVE  announced[h][a] <= Cardinality(Callbacks)
  <2>1. /\ Cardinality(Announcing(h, a)) \in Nat /\ Cardinality(Callbacks) \in Nat
        /\ announced[h][a] \in Nat
    BY <1>1, AllCounted DEF IndexInv, Typed
  <2>2. QED
    BY <1>1, <2>1 DEF IndexInv, Room, PeerRoom
<1>2. ASSUME NEW h \in Infohashes
      PROVE  Cardinality(RowsOf(h)) <= Cardinality(Callbacks)
  <2>1. /\ Cardinality(RowsOf(h)) \in Nat /\ Cardinality(Creating(h)) \in Nat
        /\ Cardinality(Callbacks) \in Nat
    BY <1>2, AllCounted DEF IndexInv
  <2>2. QED
    BY <1>2, <2>1 DEF IndexInv, Room, RowRoom
<1>3. QED
  BY <1>1, <1>2 DEF RowsBounded, RowsOf

(* However the callbacks interleave and whatever fails, a torrent has no   *)
(* more rows than there are callbacks, nor has an address that announced   *)
(* it: addAnnouncePeerTask looks before it inserts, in one transaction.    *)
THEOREM IndexerRowsBounded == IndexSpec => []RowsBounded
<1>1. IndexInit => IndexInv
  BY InitRoom
<1>2. IndexInv /\ [IndexNext]_indexVars => IndexInv'
  BY NextKeepsRoom
<1>3. IndexInv => RowsBounded
  BY RoomBounds
<1>4. QED
  BY <1>1, <1>2, <1>3, PTL DEF IndexSpec

-----------------------------------------------------------------------------
(* The peers of an infohash.                                               *)

Pushers == {w \in Workers : call[w].at = "pushing"}
Trimmers == {w \in Workers : call[w].at \in {"front", "remove", "read", "delete"}}
(* The length of the list, with the element a Push is about to add.        *)
Held == Len(queue) + Cardinality(Pushers)

PeersTyped ==
    /\ queue \in Seq(Elements) /\ deque \in [Peers -> Elements \cup {NoElement}]
    /\ pushes \in 0..MaxPushes
    /\ call \in [Workers ->
          [at : {"none", "pushed", "front"}, element : {NoElement}]
          \cup [at : {"pushing", "remove", "read", "delete"}, element : Elements]]
(* The deque's lock. *)
OnePusher == \A v, w \in Pushers : v = w
(* Each worker that is to remove the front has seen more than K, and may   *)
(* be the last of them to have done so.                                    *)
EnoughHeld ==
    Trimmers # {} => Held + Cardinality(Workers) >= K + 1 + Cardinality(Trimmers)
PeersInv == PeersTyped /\ OnePusher /\ EnoughHeld

LEMMA ListRemoveTakesOne ==
    ASSUME NEW S, NEW q \in Seq(S), NEW e
    PROVE  /\ ListRemove(q, e) \in Seq(S)
           /\ Len(ListRemove(q, e)) \in {Len(q), Len(q) - 1}
<1>1. CASE \E i \in 1..Len(q) : q[i] = e
  <2>1. PICK i \in 1..Len(q) : ListRemove(q, e) = RemoveAt(q, i)
    BY <1>1, Zenon DEF ListRemove, RemoveAt
  <2>2. QED
    BY <2>1, RemovedAt
<1>2. CASE ~\E i \in 1..Len(q) : q[i] = e
  <2>1. ListRemove(q, e) = q
    BY <1>2 DEF ListRemove
  <2>2. QED
    BY <2>1
<1>3. QED
  BY <1>1, <1>2

LEMMA WorkersCounted ==
    /\ IsFiniteSet(Workers) /\ Cardinality(Workers) \in Nat
    /\ IsFiniteSet(Pushers) /\ IsFiniteSet(Trimmers)
    /\ IsFiniteSet(Pushers') /\ IsFiniteSet(Trimmers')
    /\ Cardinality(Pushers) \in Nat /\ Cardinality(Trimmers) \in Nat
    /\ Cardinality(Pushers') \in Nat /\ Cardinality(Trimmers') \in Nat
    /\ Cardinality(Trimmers') <= Cardinality(Workers)
<1>1. /\ Pushers \in SUBSET Workers /\ Trimmers \in SUBSET Workers
      /\ Pushers' \in SUBSET Workers /\ Trimmers' \in SUBSET Workers
  BY DEF Pushers, Trimmers
<1>2. QED
  BY <1>1, FS_Subset, FS_CardinalityType, PeersAssumption, Zenon

LEMMA PeersAtFirst == PeersInit => PeersInv
<1> SUFFICES ASSUME PeersInit PROVE PeersInv
  OBVIOUS
<1>1. Pushers = {} /\ Trimmers = {}
  BY DEF PeersInit, NoInsert, Pushers, Trimmers
<1>2. PeersTyped
  BY PeersAssumption DEF PeersInit, NoInsert, PeersTyped
<1>3. QED
  BY <1>1, <1>2 DEF PeersInv, OnePusher, EnoughHeld

(* A worker's step moves one worker. *)
LEMMA WorkerGoes ==
    ASSUME PeersInv, NEW w \in Workers, NEW at, NEW element,
           call' = [call EXCEPT ![w] = [at |-> at, element |-> element]]
    PROVE  /\ \A v \in Workers : v # w => call'[v] = call[v]
           /\ call'[w] = [at |-> at, element |-> element] /\ call'[w].at = at
           /\ at = "pushing" => Pushers' = Pushers \cup {w}
           /\ at # "pushing" => Pushers' = Pushers \ {w}
           /\ at \in {"front", "remove", "read", "delete"} => Trimmers' = Trimmers \cup {w}
           /\ at \notin {"front", "remove", "read", "delete"} => Trimmers' = Trimmers \ {w}
<1>1. /\ \A v \in Workers : v # w => call'[v] = call[v]
      /\ call'[w] = [at |-> at, element |-> element] /\ call'[w].at = at
  BY DEF PeersInv, PeersTyped
<1>2. QED
  BY <1>1, Zenon DEF Pushers, Trimmers

(* The steps that only move a worker on, or home. *)
LEMMA OnlyWorkersMove ==
    ASSUME PeersInv, PeersTyped', UNCHANGED queue,
           Pushers' = Pushers, Trimmers' \subseteq Trimmers
    PROVE  PeersInv'
<1>1. Cardinality(Trimmers') <= Cardinality(Trimmers)
  BY WorkersCounted, FS_Subset, Zenon
<1>2. EnoughHeld'
  <2>1. CASE Trimmers' = {}
    BY <2>1 DEF EnoughHeld
  <2>2. CASE Trimmers' # {}
    <3>1. Held + Cardinality(Workers) >= K + 1 + Cardinality(Trimmers)
      BY <2>2 DEF PeersInv, EnoughHeld
    <3>2. Held' = Held
      BY DEF Held
    <3>3. Held \in Nat
      BY WorkersCounted DEF Held, PeersInv, PeersTyped
    <3>4. QED
      BY <1>1, <3>1, <3>2, <3>3, WorkersCounted, PeersAssumption DEF EnoughHeld
  <2>3. QED
    BY <2>1, <2>2
<1>3. OnePusher'
  BY DEF PeersInv, OnePusher
<1>4. QED
  BY <1>2, <1>3 DEF PeersInv

LEMMA NoPusherUnlocked == Unlocked => Pushers = {} /\ Cardinality(Pushers) = 0
BY FS_EmptySet DEF Unlocked, Pushers

LEMMA PushKeepsPeers ==
    ASSUME PeersInv, NEW w \in Workers, Push(w)
    PROVE  PeersInv'
<1> PICK peer \in Peers : /\ queue' = ListRemove(queue, deque[peer])
                          /\ MovesTo(w, "pushing", <<peer, pushes'>>)
  BY DEF Push
<1>1. /\ call[w].at = "none" /\ pushes' \in 1..MaxPushes /\ UNCHANGED deque
      /\ <<peer, pushes'>> \in Elements
  BY PeersAssumption DEF Push, NoInsert, PeersInv, PeersTyped, Elements
<1>2. call' = [call EXCEPT ![w] = [at |-> "pushing", element |-> <<peer, pushes'>>]]
  BY DEF MovesTo
<1>3. Pushers' = Pushers \cup {w} /\ Trimmers' = Trimmers \ {w}
  BY <1>2, WorkerGoes
<1>4. Pushers = {} /\ Pushers' = {w} /\ Cardinality(Pushers) = 0 /\ Cardinality(Pushers') = 1
  BY <1>3, NoPusherUnlocked, FS_Singleton DEF Push
<1>5. Trimmers' = Trimmers
  BY <1>1, <1>3 DEF Trimmers
<1>6. queue' \in Seq(Elements) /\ Len(queue') \in {Len(queue), Len(queue) - 1}
  BY ListRemoveTakesOne DEF PeersInv, PeersTyped
<1>7. PeersTyped'
  BY <1>1, <1>2, <1>6 DEF PeersInv, PeersTyped
<1>8. Held' >= Held /\ Held \in Nat /\ Held' \in Nat
  BY <1>4, <1>6 DEF Held, PeersInv, PeersTyped
<1>9. EnoughHeld'
  BY <1>5, <1>8, WorkersCounted, PeersAssumption DEF EnoughHeld, PeersInv
<1>10. QED
  BY <1>4, <1>7, <1>9 DEF PeersInv, OnePusher

LEMMA PushBackKeepsPeers ==
    ASSUME PeersInv, NEW w \in Workers, PushBack(w)
    PROVE  PeersInv'
<1> DEFINE e == call[w].element
<1>1. w \in Pushers /\ w \notin Trimmers /\ e \in Elements /\ e[1] \in Peers
  BY DEF PushBack, Pushers, Trimmers, PeersInv, PeersTyped, Elements
<1>2. /\ call' = [call EXCEPT ![w] = [at |-> "pushed", element |-> NoElement]]
      /\ queue' = Append(queue, e) /\ deque' = [deque EXCEPT ![e[1]] = e] /\ UNCHANGED pushes
  BY DEF PushBack, MovesTo
<1> HIDE DEF e
<1>3. Pushers' = Pushers \ {w} /\ Trimmers' = Trimmers \ {w}
  <2>1. "pushed" # "pushing" /\ "pushed" \notin {"front", "remove", "read", "delete"}
    OBVIOUS
  <2>2. QED
    BY <1>2, <2>1, WorkerGoes
<1>4. Pushers = {w} /\ Pushers' = {} /\ Trimmers' = Trimmers
  BY <1>1, <1>3 DEF PeersInv, OnePusher
<1>5. Cardinality(Pushers) = 1 /\ Cardinality(Pushers') = 0
  BY <1>4, FS_Singleton, FS_EmptySet
<1>6. queue' \in Seq(Elements) /\ Len(queue') = Len(queue) + 1
  BY <1>1, <1>2 DEF PeersInv, PeersTyped
<1>7. PeersTyped'
  BY <1>1, <1>2, <1>6 DEF PeersInv, PeersTyped
<1>8. Held' = Held
  BY <1>5, <1>6 DEF Held, PeersInv, PeersTyped
<1>9. EnoughHeld'
  BY <1>4, <1>8 DEF EnoughHeld, PeersInv
<1>10. QED
  BY <1>4, <1>7, <1>9 DEF PeersInv, OnePusher

LEMMA TestLenKeepsPeers ==
    ASSUME PeersInv, NEW w \in Workers, TestLen(w)
    PROVE  PeersInv'
<1>1. w \notin Pushers /\ w \notin Trimmers /\ UNCHANGED <<queue, deque, pushes>>
  BY DEF TestLen, Pushers, Trimmers
<1>2. CASE Overfull
  <2>1. call' = [call EXCEPT ![w] = [at |-> "front", element |-> NoElement]]
    BY <1>2 DEF TestLen, MovesTo
  <2>2. Pushers' = Pushers
    <3>1. Pushers' = Pushers \ {w}
      BY <2>1, WorkerGoes
    <3>2. QED
      BY <1>1, <3>1
  <2>6. PeersTyped'
    BY <1>1, <2>1 DEF PeersInv, PeersTyped
  <2>3. Held' = Held /\ Held >= K + 1 /\ Held \in Nat
    BY <1>1, <1>2, <2>2, WorkersCounted, PeersAssumption DEF Held, Overfull, PeersInv, PeersTyped
  <2>4. EnoughHeld'
    BY <2>3, WorkersCounted, PeersAssumption DEF EnoughHeld
  <2>5. QED
    BY <2>2, <2>4, <2>6 DEF PeersInv, OnePusher
<1>3. CASE ~Overfull
  <2>1. call' = [call EXCEPT ![w] = [at |-> "none", element |-> NoElement]]
    BY <1>3 DEF TestLen, Returns, NoInsert
  <2>2. Pushers' = Pushers \ {w} /\ Trimmers' = Trimmers \ {w}
    <3>1. "none" # "pushing" /\ "none" \notin {"front", "remove", "read", "delete"}
      OBVIOUS
    <3>2. QED
      BY <2>1, <3>1, WorkerGoes
  <2>3. PeersTyped'
    BY <1>1, <2>1 DEF PeersInv, PeersTyped
  <2>4. QED
    BY <1>1, <2>2, <2>3, OnlyWorkersMove
<1>4. QED
  BY <1>2, <1>3

LEMMA TrimmerMoves ==
    ASSUME PeersInv, NEW w \in Trimmers, UNCHANGED <<queue, deque, pushes>>,
           NEW at \in {"none", "remove", "read", "delete"}, NEW element,
           at = "none" => element = NoElement, at # "none" => element \in Elements,
           call' = [call EXCEPT ![w] = [at |-> at, element |-> element]]
    PROVE  PeersInv'
<1>1. w \in Workers /\ w \notin Pushers
  BY DEF Trimmers, Pushers
<1>2. Pushers' = Pushers /\ Trimmers' \subseteq Trimmers
  <2>1. Pushers' = Pushers \ {w}
    BY <1>1, WorkerGoes
  <2>2. Trimmers' = Trimmers \cup {w} \/ Trimmers' = Trimmers \ {w}
    BY <1>1, WorkerGoes
  <2>3. QED
    BY <1>1, <2>1, <2>2
<1>3. PeersTyped'
  BY <1>1 DEF PeersInv, PeersTyped
<1>4. QED
  BY <1>2, <1>3, OnlyWorkersMove

LEMMA FrontKeepsPeers ==
    ASSUME PeersInv, NEW w \in Workers, TakeFront(w)
    PROVE  PeersInv'
<1>1. w \in Trimmers /\ UNCHANGED <<queue, deque, pushes>>
  BY DEF TakeFront, Trimmers
<1>2. CASE queue = <<>>
  BY <1>1, <1>2, TrimmerMoves DEF TakeFront, Returns, NoInsert
<1>3. CASE queue # <<>>
  <2>1. Head(queue) \in Elements
    BY <1>3 DEF PeersInv, PeersTyped
  <2>2. QED
    BY <1>1, <1>3, <2>1, TrimmerMoves DEF TakeFront, MovesTo
<1>4. QED
  BY <1>2, <1>3

LEMMA RemoveKeepsPeers ==
    ASSUME PeersInv, NEW w \in Workers, RemoveFront(w)
    PROVE  PeersInv'
<1>1. w \in Trimmers /\ UNCHANGED <<queue, deque, pushes>> /\ call[w].element \in Elements
  BY DEF RemoveFront, Trimmers, PeersInv, PeersTyped
<1>2. CASE call[w].element \in invertedIndex
  BY <1>1, <1>2, TrimmerMoves DEF RemoveFront, MovesTo
<1>3. CASE call[w].element \notin invertedIndex
  BY <1>1, <1>3, TrimmerMoves DEF RemoveFront, Returns, NoInsert
<1>4. QED
  BY <1>2, <1>3

LEMMA ReadIndexKeepsPeers ==
    ASSUME PeersInv, NEW w \in Workers, ReadIndex(w)
    PROVE  PeersInv'
<1> DEFINE e == deque[call[w].element[1]]
<1>1. /\ w \in Trimmers /\ UNCHANGED <<queue, deque, pushes>>
      /\ call[w].element \in Elements
  BY DEF ReadIndex, Trimmers, PeersInv, PeersTyped
<1>2. e \in Elements \cup {NoElement}
  BY <1>1 DEF PeersInv, PeersTyped, Elements
<1>3. call' = [call EXCEPT ![w] = IF e = NoElement THEN NoInsert
                                  ELSE [at |-> "delete", element |-> e]]
  BY DEF ReadIndex, MovesTo, Returns
<1> HIDE DEF e
<1>4. CASE e = NoElement
  BY <1>1, <1>3, <1>4, TrimmerMoves DEF NoInsert
<1>5. CASE e # NoElement
  BY <1>1, <1>2, <1>3, <1>5, TrimmerMoves
<1>6. QED
  BY <1>4, <1>5

(* A removal is one of those that have been counted. *)
LEMMA DeleteKeepsPeers ==
    ASSUME PeersInv, NEW w \in Workers, Delete(w)
    PROVE  /\ PeersInv'
           /\ Len(queue') + Cardinality(Workers) >= K + 1
<1> DEFINE e == call[w].element
<1>1. w \in Trimmers /\ w \notin Pushers /\ e \in Elements /\ e[1] \in Peers
  BY DEF Delete, Pushers, Trimmers, PeersInv, PeersTyped, Elements
<1>2. /\ call' = [call EXCEPT ![w] = [at |-> "none", element |-> NoElement]]
      /\ queue' = ListRemove(queue, e) /\ deque' = [deque EXCEPT ![e[1]] = NoElement]
      /\ UNCHANGED pushes
  BY DEF Delete, Returns, NoInsert
<1> HIDE DEF e
<1>3. Pushers' = Pushers /\ Trimmers' = Trimmers \ {w}
  <2>1. Pushers' = Pushers \ {w} /\ Trimmers' = Trimmers \ {w}
    <3>1. w \in Workers
      OBVIOUS
    <3>2. "none" # "pushing" /\ "none" \notin {"front", "remove", "read", "delete"}
      OBVIOUS
    <3>3. QED
      BY <1>2, <3>1, <3>2, WorkerGoes
  <2>2. QED
    BY <1>1, <2>1
<1>4. Cardinality(Trimmers') = Cardinality(Trimmers) - 1
  BY <1>1, <1>3, WorkersCounted, FS_RemoveElement, Zenon
<1>5. Cardinality(Pushers) = 0 /\ Cardinality(Pushers') = 0
  BY <1>3, NoPusherUnlocked DEF Delete
<1>6. queue' \in Seq(Elements) /\ Len(queue') \in {Len(queue), Len(queue) - 1}
  BY <1>2, ListRemoveTakesOne DEF PeersInv, PeersTyped
<1>7. PeersTyped'
  BY <1>1, <1>2, <1>6 DEF PeersInv, PeersTyped
<1>8. Held + Cardinality(Workers) >= K + 1 + Cardinality(Trimmers)
  BY <1>1 DEF EnoughHeld, PeersInv
<1>9. Held' >= Held - 1 /\ Held = Len(queue) /\ Held' = Len(queue') /\ Held \in Nat /\ Held' \in Nat
  BY <1>5, <1>6 DEF Held, PeersInv, PeersTyped
<1>10. Held' + Cardinality(Workers) >= K + 1 + Cardinality(Trimmers')
  BY <1>4, <1>8, <1>9, WorkersCounted, PeersAssumption
<1>11. QED
  BY <1>3, <1>7, <1>9, <1>10, WorkersCounted, PeersAssumption DEF PeersInv, OnePusher, EnoughHeld

LEMMA PeersStep == PeersInv /\ [PeersNext]_peersVars => PeersInv'
<1> SUFFICES ASSUME PeersInv, [PeersNext]_peersVars PROVE PeersInv'
  OBVIOUS
<1>1. ASSUME NEW w \in Workers, Insert(w) PROVE PeersInv'
  BY <1>1, PushKeepsPeers, PushBackKeepsPeers, TestLenKeepsPeers, FrontKeepsPeers,
     RemoveKeepsPeers, ReadIndexKeepsPeers, DeleteKeepsPeers DEF Insert
<1>2. CASE UNCHANGED peersVars
  BY <1>2 DEF peersVars, PeersInv, PeersTyped, OnePusher, EnoughHeld, Held, Pushers, Trimmers
<1>3. QED
  BY <1>1, <1>2 DEF PeersNext

(* What get_peers answers is as long as the list, or as K. *)
LEMMA LastLength ==
    ASSUME NEW S, NEW q \in Seq(S), NEW length \in Nat
    PROVE  Len(SubSeq(q, IF Len(q) > length THEN Len(q) - length + 1 ELSE 1, Len(q)))
             = IF Len(q) > length THEN length ELSE Len(q)
<1> DEFINE m == IF Len(q) > length THEN Len(q) - length + 1 ELSE 1
<1>1. Len(q) \in Nat /\ m \in 1..(Len(q) + 1)
  OBVIOUS
<1> HIDE DEF m
<1>2. Len(SubSeq(q, m, Len(q))) = Len(q) - m + 1
  BY <1>1
<1>3. Len(q) - m + 1 = IF Len(q) > length THEN length ELSE Len(q)
  BY <1>1 DEF m
<1>4. QED
  BY <1>2, <1>3, Zenon DEF m

(* PeersKept of PeersManager: however many workers insert at once, a       *)
(* removal leaves get_peers with K answers less one for every worker but   *)
(* the one that removes.                                                   *)
THEOREM PeersAreKept == PeersSpec => PeersKept
<1>1. ASSUME PeersInv, PeersNext, Len(queue') < Len(queue), Unlocked'
      PROVE  Len(GetPeers(K))' >= K + 1 - Cardinality(Workers)
  <2>1. PICK w \in Workers : Insert(w)
    BY <1>1 DEF PeersNext
  <2>2. PeersInv'
    BY <1>1, PeersStep
  <2>3. ~Push(w)
    <3>1. SUFFICES ASSUME Push(w) PROVE FALSE
      OBVIOUS
    <3>2. call'[w].at = "pushing"
      BY <1>1, <3>1 DEF Push, MovesTo, PeersInv, PeersTyped
    <3>3. QED
      BY <1>1, <3>2 DEF Unlocked
  <2>4. ~PushBack(w)
    BY <1>1 DEF PushBack, PeersInv, PeersTyped
  <2>5. Delete(w)
    BY <1>1, <2>1, <2>3, <2>4 DEF Insert, TestLen, TakeFront, RemoveFront, ReadIndex
  <2>6. Len(queue') + Cardinality(Workers) >= K + 1
    BY <1>1, <2>5, DeleteKeepsPeers
  <2>7. Cardinality(Workers) >= 1
    BY <2>1, WorkersCounted, FS_EmptySet
  <2>8. Len(GetPeers(K))' = IF Len(queue') > K THEN K ELSE Len(queue')
    BY <2>2, LastLength, PeersAssumption DEF GetPeers, PeersInv, PeersTyped
  <2>9. Len(queue') \in Nat
    BY <2>2 DEF PeersInv, PeersTyped
  <2>10. QED
    BY <2>6, <2>7, <2>8, <2>9, WorkersCounted, PeersAssumption
<1>2. PeersInv /\ [PeersNext]_peersVars
        => [Len(queue') < Len(queue) /\ Unlocked'
              => Len(GetPeers(K))' >= K + 1 - Cardinality(Workers)]_queue
  BY <1>1 DEF peersVars
<1>3. QED
  BY <1>2, PeersAtFirst, PeersStep, PTL DEF PeersSpec, PeersKept
=============================================================================
