--------------------------- MODULE BlackListProofs ---------------------------
(***************************************************************************)
(* Proofs about the blacklist for any number of keys and goroutines.  The  *)
(* bound on its length is not inductive: a goroutine between insert's test *)
(* and its Set will add an item whatever the length is by then.  Counting  *)
(* these goroutines with the items (Room) makes it so: the test leaves     *)
(* less than maxSize items and at most all goroutines about to insert, and *)
(* a Set turns one of them into at most one item.                          *)
(***************************************************************************)
EXTENDS BlackList, FiniteSetTheorems, TLAPS

Pending == {g \in Goroutines : call[g].at = "insert"}
Room == Cardinality(Listed) + Cardinality(Pending) < MaxSize + Cardinality(Goroutines)
IInv == TypeOK /\ Room

(* Everything that is counted is finite. *)
LEMMA Counted ==
    /\ IsFiniteSet(Keys) /\ IsFiniteSet(Goroutines)
    /\ IsFiniteSet(Listed) /\ IsFiniteSet(Listed') 
    /\ IsFiniteSet(Pending) /\ IsFiniteSet(Pending')
    /\ Cardinality(Goroutines) \in Nat \ {0}
    /\ Cardinality(Pending) <= Cardinality(Goroutines)
    /\ Cardinality(Pending') <= Cardinality(Goroutines)
    /\ {Cardinality(Listed), Cardinality(Listed'), Cardinality(Pending),
        Cardinality(Pending'), MaxSize} \subseteq Nat
<1>1. IsFiniteSet(Goroutines) /\ Cardinality(Goroutines) \in Nat \ {0}
  <2>1. IsFiniteSet(Goroutines)
    BY BLConstants, FS_AddElement DEF Goroutines
  <2>2. Goroutines # {}
    BY DEF Goroutines
  <2>3. QED
    BY <2>1, <2>2, FS_EmptySet, FS_CardinalityType
<1>2. Listed \subseteq Keys /\ Listed' \subseteq Keys
  BY DEF Listed
<1>3. Pending \subseteq Goroutines /\ Pending' \subseteq Goroutines
  BY DEF Pending
<1>4. IsFiniteSet(Listed) /\ IsFiniteSet(Listed')
  BY <1>2, BLConstants, FS_Subset
<1>5. IsFiniteSet(Pending) /\ IsFiniteSet(Pending')
       /\ Cardinality(Pending) <= Cardinality(Goroutines)
       /\ Cardinality(Pending') <= Cardinality(Goroutines)
  BY <1>1, <1>3, FS_Subset
<1>6. Cardinality(Listed) \in Nat /\ Cardinality(Listed') \in Nat
       /\ Cardinality(Pending) \in Nat /\ Cardinality(Pending') \in Nat
  BY <1>4, <1>5, FS_CardinalityType
<1>7. QED
  BY <1>1, <1>4, <1>5, <1>6, BLConstants

LEMMA RoomAtFirst == Init => IInv
<1> SUFFICES ASSUME Init PROVE IInv
  OBVIOUS
<1>1. TypeOK
  BY BLConstants DEF Init, TypeOK, NoCall, Keys
<1>2. Pending = {} /\ Listed = BlockedIPs
  BY BLConstants DEF Init, Pending, Listed, NoCall, Keys
<1>3. Room
  BY <1>2, BLConstants, Counted, FS_EmptySet DEF Room
<1>4. QED
  BY <1>1, <1>3 DEF IInv

LEMMA TypeKept == TypeOK /\ [Next]_vars => TypeOK'
<1> SUFFICES ASSUME TypeOK, [Next]_vars PROVE TypeOK'
  OBVIOUS
<1> USE BLConstants DEF TypeOK, Goroutines, Keys, Returns, Goes, NoCall
<1>1. CASE \E w \in Workers : InsertSender(w)
  BY <1>1 DEF InsertSender, Insert
<1>2. CASE \E w \in Workers : Forget(w)
  BY <1>2 DEF Forget
<1>3. CASE \E w \in Workers : AskIP(w)
  BY <1>3 DEF AskIP
<1>4. CASE \E w \in Workers : AskAddr(w)
  BY <1>4 DEF AskAddr
<1>5. CASE \E w \in Workers : DropExpired(w)
  BY <1>5 DEF DropExpired
<1>6. CASE InsertLocal
  BY <1>6 DEF InsertLocal, Insert
<1>7. CASE \E g \in Goroutines : SetItem(g)
  BY <1>7 DEF SetItem
<1>8. CASE Collect
  BY <1>8 DEF Collect, Expired
<1>9. CASE DeleteMulti
  BY <1>9 DEF DeleteMulti
<1>10. CASE Age
  BY <1>10 DEF Age, Listed
<1>11. CASE UNCHANGED vars
  BY <1>11 DEF vars
<1>12. QED
  BY <1>1, <1>2, <1>3, <1>4, <1>5, <1>6, <1>7, <1>8, <1>9, <1>10, <1>11 DEF Next, WorkerStep

(* insert's test: if it passes there were less than maxSize items.         *)
LEMMA InsertLeavesRoom ==
    ASSUME IInv, NEW g \in Goroutines, NEW k \in Keys, Insert(g, k), call[g] = NoCall,
           UNCHANGED list
    PROVE  Room'
<1>1. Listed' = Listed
  BY DEF Listed
<1>2. CASE Cardinality(Listed) < MaxSize
  BY <1>1, <1>2, Counted DEF Room
<1>3. CASE ~(Cardinality(Listed) < MaxSize)
  <2>1. call' = call
    BY <1>3 DEF IInv, TypeOK, Insert, Returns
  <2>2. QED
    BY <1>1, <2>1 DEF Room, Pending, IInv
<1>4. QED
  BY <1>2, <1>3

(* Steps that add neither an item nor a goroutine about to insert one.     *)
LEMMA FewerLeaveRoom ==
    ASSUME IInv, Listed' \subseteq Listed, Pending' \subseteq Pending
    PROVE  Room'
<1>1. Cardinality(Listed') <= Cardinality(Listed) /\ Cardinality(Pending') <= Cardinality(Pending)
  BY Counted, FS_Subset
<1>2. QED
  BY <1>1, Counted DEF IInv, Room

LEMMA SetItemLeavesRoom ==
    ASSUME IInv, NEW g \in Goroutines, SetItem(g)
    PROVE  Room'
<1>1. g \in Pending /\ Pending' = Pending \ {g}
  BY DEF SetItem, Pending, Returns, NoCall, IInv, TypeOK
<1>2. Listed' \subseteq Listed \cup {call[g].key}
  BY DEF SetItem, Listed, IInv, TypeOK
<1>3. Cardinality(Pending') = Cardinality(Pending) - 1
  BY <1>1, Counted, FS_RemoveElement
<1>4. Cardinality(Listed') <= Cardinality(Listed) + 1
  <2>1. IsFiniteSet(Listed \cup {call[g].key})
         /\ Cardinality(Listed \cup {call[g].key}) \in {Cardinality(Listed), Cardinality(Listed) + 1}
    BY Counted, FS_AddElement
  <2>2. Cardinality(Listed') <= Cardinality(Listed \cup {call[g].key})
    BY <1>2, <2>1, FS_Subset
  <2>3. QED
    BY <2>1, <2>2, Counted
<1>5. QED
  BY <1>3, <1>4, Counted DEF IInv, Room

LEMMA RoomKept == IInv /\ [Next]_vars => IInv'
<1> SUFFICES ASSUME IInv, [Next]_vars PROVE Room'
  BY TypeKept DEF IInv
<1>1. CASE \E w \in Workers : InsertSender(w)
  BY <1>1, InsertLeavesRoom DEF InsertSender, Goroutines, Keys
<1>2. CASE InsertLocal
  BY <1>2, InsertLeavesRoom, BLConstants DEF InsertLocal, Goroutines, Keys, IInv, TypeOK
<1>3. CASE \E g \in Goroutines : SetItem(g)
  BY <1>3, SetItemLeavesRoom
<1>4. CASE \E w \in Workers : Forget(w) \/ AskIP(w) \/ AskAddr(w) \/ DropExpired(w)
  <2>1. Listed' \subseteq Listed
    BY <1>4 DEF Forget, AskIP, AskAddr, DropExpired, Listed, IInv, TypeOK
  <2>2. Pending' \subseteq Pending
    BY <1>4 DEF Forget, AskIP, AskAddr, DropExpired, Pending, Goes, Returns, NoCall, IInv, TypeOK
  <2>3. QED
    BY <2>1, <2>2, FewerLeaveRoom
<1>5. CASE Collect \/ DeleteMulti \/ Age \/ UNCHANGED vars
  <2>1. Listed' \subseteq Listed
    BY <1>5 DEF Collect, DeleteMulti, Age, vars, Listed, IInv, TypeOK
  <2>2. Pending' = Pending
    BY <1>5 DEF Collect, DeleteMulti, Age, vars, Pending
  <2>3. QED
    BY <2>1, <2>2, FewerLeaveRoom
<1>6. QED
  BY <1>1, <1>2, <1>3, <1>4, <1>5 DEF Next, WorkerStep

(* The type invariant, for any keys and goroutines. *)
THEOREM BlackListTypeCorrect == Spec => []TypeOK
<1>1. IInv => TypeOK
  BY DEF IInv
<1>2. QED
  BY RoomAtFirst, RoomKept, <1>1, PTL DEF Spec

(* The blacklist outgrows maxSize by less than the number of goroutines    *)
(* that insert, however their tests, Sets, sweeps and drops interleave.    *)
THEOREM BlackListBounded == Spec => []Overshoot
<1>1. IInv => Overshoot
  BY Counted DEF IInv, Room, Overshoot
<1>2. QED
  BY RoomAtFirst, RoomKept, <1>1, PTL DEF Spec
=============================================================================
