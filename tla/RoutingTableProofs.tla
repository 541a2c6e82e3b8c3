------------------------- MODULE RoutingTableProofs -------------------------
(***************************************************************************)
(* Proofs about the routing table for any nodes, ids, k, MaxNodes and      *)
(* number of removals.                                                     *)
(*                                                                         *)
(* The map of nodes implements NodeSet: an Insert tests MaxNodes long      *)
(* before it sets the node, but rt.Lock keeps others out, and removals     *)
(* only make more room meanwhile (RoomForWriter).  Splits alone change the *)
(* shape of the tree (TreeInv).  A bucket's index stays within k because   *)
(* what HasPlace saw still holds when Push runs, whatever removals did in  *)
(* between (WriterHasRoom); a node is in the bucket of its leaf because a  *)
(* split gives each child what is under it (SplitSound).  No leaf is lost  *)
(* to Fresh because a bucket leaves the deque only by a call that pushes   *)
(* it next, or once its children are leaves in its place (ParentSplit).    *)
(***************************************************************************)
EXTENDS RoutingTable, FiniteSetTheorems, SequenceTheorems, WellFoundedInduction,
        TLAPS

Cached == {a \in Addrs : cachedNodes[a] # None}

(* A leaf that Insert found full or is splitting has a bit below it.       *)
Splitting == {"full", "split", "unlist", "left", "right"}
Writers == [node : Nodes, depth : 0..MaxPrefixLength,
            at : {"loop", "bucket", "push", "cache", "touch", "relist"} \cup Splitting,
            isNew : BOOLEAN, inList : BOOLEAN]
BitLeft == writer # None /\ writer.at \in Splitting => writer.depth < MaxPrefixLength
MapTyped ==
    /\ cachedNodes \in [Addrs -> Nodes \cup {None}] /\ IsFiniteSet(Cached)
    /\ writer = None \/ writer \in Writers
HasCached == {"touch", "relist"}
RoomForWriter ==
    writer # None /\ writer.at \notin HasCached => Cardinality(Cached) < MaxNodes
MapInv == MapTyped /\ RoomForWriter /\ BitLeft

(* The leaves on the way down the bits of an id. *)
LeavesOn(id) == {p \in leaves : p = Path(id, Len(p))}
LeavesTyped == leaves \subseteq Seq(Bits) /\ \A p \in leaves : Len(p) <= MaxPrefixLength
OneLeaf == \A n \in Nodes : \E p \in leaves : LeavesOn(n.id) = {p}
AtLeaf == WriterAt("full") => Here \in leaves
TreeInv == MapTyped /\ LeavesTyped /\ OneLeaf /\ AtLeaf

-----------------------------------------------------------------------------
(* Lists.                                                                  *)

LEMMA LeastNumber ==
    ASSUME NEW T \in SUBSET Nat, T # {}
    PROVE  \E k \in T : \A m \in T : k <= m
<1>1. PICK k \in T : \A m \in T : ~(<<m, k>> \in OpToRel(<, Nat))
  BY NatLessThanWellFounded, WFMin, Zenon
<1>2. \A m \in T : ~(m < k)
  BY <1>1, Zenon DEF OpToRel
<1>3. QED
  BY <1>2

LEMMA PlacesFinite ==
    ASSUME NEW l \in Nat, NEW I \in SUBSET (1..l)
    PROVE  IsFiniteSet(I) /\ Cardinality(I) \in Nat
<1>1. IsFiniteSet(1..l)
  BY FS_Interval
<1>2. QED
  BY <1>1, FS_Subset, FS_CardinalityType, Zenon

(* Counting the places up to i goes up by one at a time, from none to all  *)
(* of them: so it passes n at a place of the set.                          *)
LEMMA NthPlaceIsAPlace ==
    ASSUME NEW l \in Nat, NEW I \in SUBSET (1..l), NEW n \in 1..Cardinality(I)
    PROVE  NthPlace(I, n) \in I
<1> DEFINE Upto(i) == {j \in I : j <= i}
           T == {m \in Nat : Cardinality(Upto(m)) >= n}
<1>1. \A j \in I : j \in Nat /\ 1 <= j /\ j <= l
  OBVIOUS
<1>2. \A i \in Nat : IsFiniteSet(Upto(i)) /\ Cardinality(Upto(i)) \in Nat
  BY PlacesFinite, FS_Subset, FS_CardinalityType, Zenon
<1>3. Upto(l) = I
  BY <1>1, Zenon
<1>4. Upto(0) = {}
  <2>1. \A j \in I : ~(j <= 0)
    BY <1>1
  <2>2. QED
    BY <2>1, Zenon
<1>5. Cardinality(I) \in Nat /\ n \in Nat /\ n >= 1 /\ Cardinality(I) >= n
  BY PlacesFinite
<1>6. l \in T
  BY <1>3, <1>5, Zenon
<1>7. PICK i \in T : \A m \in T : i <= m
  BY <1>6, LeastNumber
<1>8. i \in Nat /\ Cardinality(Upto(i)) \in Nat /\ Cardinality(Upto(i)) >= n
  BY <1>2, <1>7, Zenon
<1>9. i # 0
  <2>1. Cardinality(Upto(0)) = 0
    BY <1>4, FS_EmptySet, Zenon
  <2>2. ~(0 >= n)
    BY <1>5
  <2>3. QED
    BY <2>1, <2>2, <1>8, Zenon
<1>10. i - 1 \in Nat /\ ~(i <= i - 1)
  BY <1>8, <1>9
<1>11. Cardinality(Upto(i - 1)) \in Nat /\ ~(Cardinality(Upto(i - 1)) >= n)
  BY <1>2, <1>7, <1>10, Zenon
<1>12. \A j \in I : j <= i <=> j <= i - 1 \/ j = i
  BY <1>1, <1>8
<1>13. CASE i \in I
  <2>1. Upto(i) = Upto(i - 1) \cup {i} /\ i \notin Upto(i - 1)
    BY <1>10, <1>12, <1>13, Zenon
  <2>2. Cardinality(Upto(i - 1) \cup {i}) = Cardinality(Upto(i - 1)) + 1
    BY <2>1, <1>2, <1>10, FS_AddElement, Zenon
  <2> HIDE DEF Upto
  <2>3. Cardinality(Upto(i)) = n
    BY <2>1, <2>2, <1>5, <1>8, <1>11
  <2>4. i \in I /\ Cardinality({j \in I : j <= i}) = n
    BY <2>3, <1>13, Zenon DEF Upto
  <2>5. QED
    BY <2>4, Zenon DEF NthPlace
<1>14. CASE i \notin I
  <2>1. Upto(i) = Upto(i - 1)
    BY <1>12, <1>14, Zenon
  <2>2. QED
    BY <2>1, <1>8, <1>11, Zenon
<1>15. QED
  BY <1>13, <1>14

LEMMA ElementsAtAreElements ==
    ASSUME NEW S, NEW s \in Seq(S), NEW I \in SUBSET (1..Len(s))
    PROVE  /\ ElementsAt(s, I) \in Seq(S)
           /\ \A n \in 1..Len(ElementsAt(s, I)) : \E i \in I : ElementsAt(s, I)[n] = s[i]
<1>1. Len(s) \in Nat
  OBVIOUS
<1>2. Cardinality(I) \in Nat
  BY <1>1, PlacesFinite
<1>3. \A n \in 1..Cardinality(I) : NthPlace(I, n) \in I
  BY <1>1, NthPlaceIsAPlace
<1>4. \A i \in I : i \in 1..Len(s) /\ s[i] \in S
  OBVIOUS
<1>5. \A n \in 1..Cardinality(I) : s[NthPlace(I, n)] \in S
  BY <1>3, <1>4, Zenon
<1>6. ElementsAt(s, I) \in Seq(S) /\ Len(ElementsAt(s, I)) = Cardinality(I)
  BY <1>2, <1>5 DEF ElementsAt
<1>7. QED
  BY <1>3, <1>6 DEF ElementsAt

LEMMA ElementsOfSequence ==
    ASSUME NEW S, NEW s \in Seq(S)
    PROVE  Len(s) \in Nat /\ \A i \in 1..Len(s) : s[i] \in S
OBVIOUS

LEMMA RemovedAt ==
    ASSUME NEW S, NEW s \in Seq(S), NEW i \in 1..Len(s)
    PROVE  /\ RemoveAt(s, i) \in Seq(S) /\ Len(RemoveAt(s, i)) = Len(s) - 1
           /\ \A j \in 1..Len(s) - 1 :
                 RemoveAt(s, i)[j] = IF j < i THEN s[j] ELSE s[j + 1]
<1> DEFINE a == SubSeq(s, 1, i - 1)
           b == SubSeq(s, i + 1, Len(s))
<1>1. /\ a \in Seq(S) /\ Len(a) = i - 1
      /\ \A j \in 1..i - 1 : a[j] = s[j]
  OBVIOUS
<1>2. /\ b \in Seq(S) /\ Len(b) = Len(s) - i
      /\ \A j \in 1..Len(s) - i : b[j] = s[i + j]
  OBVIOUS
<1> HIDE DEF a, b
<1>3. /\ a \o b \in Seq(S) /\ Len(a \o b) = Len(s) - 1
      /\ \A j \in 1..Len(s) - 1 : (a \o b)[j] = IF j < i THEN a[j] ELSE b[j - (i - 1)]
  <2>1. Len(a) + Len(b) = Len(s) - 1 /\ Len(a) \in Nat /\ Len(b) \in Nat
    BY <1>1, <1>2
  <2>2. /\ a \o b \in Seq(S) /\ Len(a \o b) = Len(a) + Len(b)
        /\ \A j \in 1..Len(a) + Len(b) :
              (a \o b)[j] = IF j <= Len(a) THEN a[j] ELSE b[j - Len(a)]
    BY <1>1, <1>2, ConcatProperties
  <2>3. \A j \in 1..Len(s) - 1 : j <= i - 1 <=> j < i
    OBVIOUS
  <2>4. QED
    BY <1>1, <2>1, <2>2, <2>3
<1>4. \A j \in 1..Len(s) - 1 : ~(j < i) => b[j - (i - 1)] = s[j + 1]
  <2> TAKE j \in 1..Len(s) - 1
  <2> HAVE ~(j < i)
  <2>1. j - (i - 1) \in 1..Len(s) - i /\ i + (j - (i - 1)) = j + 1
    OBVIOUS
  <2>2. QED
    BY <2>1, <1>2
<1>5. \A j \in 1..Len(s) - 1 : j < i => a[j] = s[j]
  BY <1>1
<1>6. QED
  BY <1>3, <1>4, <1>5 DEF RemoveAt, a, b

Keyed(deque) == {i \in 1..Len(deque) : deque[i].keyed}
From(deque, new) ==
    \A j \in 1..Len(new) : \E i \in 1..Len(deque) : new[j].node = deque[i].node

LEMMA KeyedFinite ==
    ASSUME NEW d \in Deques
    PROVE  IsFiniteSet(Keyed(d)) /\ Cardinality(Keyed(d)) \in Nat
<1>1. Len(d) \in Nat /\ Keyed(d) \in SUBSET (1..Len(d))
  BY DEF Deques, Keyed
<1>2. QED
  BY <1>1, PlacesFinite

LEMMA KeyedAtMostLen ==
    ASSUME NEW d \in Deques
    PROVE  Cardinality(Keyed(d)) <= Len(d)
<1>1. Len(d) \in Nat /\ Keyed(d) \in SUBSET (1..Len(d))
  BY DEF Deques, Keyed
<1>2. IsFiniteSet(1..Len(d)) /\ Cardinality(1..Len(d)) = Len(d)
  <2>1. /\ IsFiniteSet(1..Len(d))
        /\ Cardinality(1..Len(d)) = IF 1 > Len(d) THEN 0 ELSE Len(d) - 1 + 1
    <3>1. 1 \in Int /\ Len(d) \in Int
      BY <1>1
    <3>2. QED
      BY <3>1, FS_Interval, Zenon
  <2>2. QED
    BY <1>1, <2>1
<1>3. QED
  BY <1>1, <1>2, FS_Subset, Zenon

(* What both ways of taking a key out of a bucket do.                      *)
Drops(d, new, id) ==
    /\ new \in Deques /\ From(d, new)
    /\ IF HasKey(d, id) THEN Cardinality(Keyed(new)) < Cardinality(Keyed(d))
                        ELSE Cardinality(Keyed(new)) <= Cardinality(Keyed(d))
    /\ \A other : other # id /\ HasKey(d, other) => HasKey(new, other)

LEMMA UnlistDrops ==
    ASSUME NEW d \in Deques, NEW id
    PROVE  Drops(d, Unlist(d, id), id)
<1>1. CASE ~HasKey(d, id)
  BY <1>1, KeyedFinite DEF Unlist, Drops, From
<1>2. CASE HasKey(d, id)
  <2>1. PICK i \in 1..Len(d) : KeyAt(d, id, i) /\ Unlist(d, id) = RemoveAt(d, i)
    BY <1>2 DEF HasKey, Unlist
  <2> DEFINE new == RemoveAt(d, i)
  <2>2. /\ new \in Deques /\ Len(new) = Len(d) - 1 /\ Len(d) \in Nat
        /\ \A j \in 1..Len(d) - 1 : new[j] = IF j < i THEN d[j] ELSE d[j + 1]
    BY RemovedAt DEF Deques
  <2> HIDE DEF new
  <2>3. From(d, new)
    BY <2>2 DEF From
  <2>4. Cardinality(Keyed(new)) < Cardinality(Keyed(d))
    <3>1. IsFiniteSet(Keyed(d)) /\ Cardinality(Keyed(d)) \in Nat /\ i \in Keyed(d)
      BY <2>1, KeyedFinite DEF Keyed, KeyAt
    <3>2. /\ IsFiniteSet(Keyed(d) \ {i})
          /\ Cardinality(Keyed(d) \ {i}) = Cardinality(Keyed(d)) - 1
      BY <3>1, FS_RemoveElement
    <3> DEFINE f == [j \in Keyed(new) |-> IF j < i THEN j ELSE j + 1]
    <3>3. f \in Injection(Keyed(new), Keyed(d) \ {i})
      <4>1. \A j \in Keyed(new) : f[j] \in Keyed(d) \ {i}
        BY <2>2 DEF Keyed
      <4>2. \A j, k \in Keyed(new) : f[j] = f[k] => j = k
        BY <2>2 DEF Keyed
      <4>3. QED
        BY <4>1, <4>2 DEF Injection, IsInjective
    <3>4. Cardinality(Keyed(new)) <= Cardinality(Keyed(d) \ {i})
      BY <3>2, <3>3, FS_Injection
    <3>5. QED
      BY <2>2, <3>1, <3>2, <3>4, KeyedFinite
  <2>5. ASSUME NEW other, other # id, HasKey(d, other)
        PROVE  HasKey(new, other)
    <3>1. PICK j \in 1..Len(d) : KeyAt(d, other, j)
      BY <2>5 DEF HasKey
    <3>2. j # i
      BY <2>1, <2>5, <3>1 DEF KeyAt
    <3>3. PICK k \in 1..Len(d) - 1 : new[k] = d[j]
      <4>1. CASE j < i
        BY <4>1, <2>2
      <4>2. CASE j > i
        <5>1. j - 1 \in 1..Len(d) - 1 /\ ~(j - 1 < i) /\ (j - 1) + 1 = j
          BY <4>2, <2>2
        <5>2. QED
          BY <5>1, <2>2
      <4>3. QED
        BY <4>1, <4>2, <3>2, <2>2
    <3>4. QED
      BY <2>2, <3>1, <3>3 DEF HasKey, KeyAt
  <2>6. QED
    BY <1>2, <2>1, <2>2, <2>3, <2>4, <2>5 DEF Drops, new
<1>3. QED
  BY <1>1, <1>2

LEMMA UnindexDrops ==
    ASSUME NEW d \in Deques, NEW id
    PROVE  Drops(d, Unindex(d, id), id)
<1> DEFINE new == Unindex(d, id)
<1>1. /\ Len(new) = Len(d) /\ Len(d) \in Nat
      /\ \A i \in 1..Len(d) : /\ new[i] \in [node : Nodes, keyed : BOOLEAN]
                              /\ new[i].node = d[i].node
                              /\ new[i].keyed <=> d[i].keyed /\ d[i].node.id # id
  <2>1. Len(d) \in Nat /\ \A i \in 1..Len(d) : d[i] \in [node : Nodes, keyed : BOOLEAN]
    BY ElementsOfSequence DEF Deques
  <2>2. /\ Len(new) = Len(d)
        /\ \A i \in 1..Len(d) : new[i] = [d[i] EXCEPT !.keyed = d[i].keyed /\ d[i].node.id # id]
    BY <2>1 DEF Unindex
  <2>3. \A i \in 1..Len(d) : (d[i].keyed /\ d[i].node.id # id) \in BOOLEAN
    BY <2>1
  <2>4. QED
    BY <2>1, <2>2, <2>3
<1>2. new \in Deques
  <2>1. new = [i \in 1..Len(d) |-> new[i]]
    BY DEF Unindex
  <2>2. QED
    BY <1>1, <2>1 DEF Deques
<1> HIDE DEF new
<1>3. From(d, new)
  BY <1>1 DEF From
<1>4. Keyed(new) \subseteq Keyed(d) /\ (HasKey(d, id) => Keyed(new) # Keyed(d))
  BY <1>1 DEF Keyed, HasKey, KeyAt
<1>5. /\ IsFiniteSet(Keyed(d)) /\ Cardinality(Keyed(d)) \in Nat
      /\ Cardinality(Keyed(new)) \in Nat
  BY <1>2, KeyedFinite
<1>6. /\ Cardinality(Keyed(new)) <= Cardinality(Keyed(d))
      /\ HasKey(d, id) => Cardinality(Keyed(new)) # Cardinality(Keyed(d))
  BY <1>4, <1>5, FS_Subset
<1>7. \A other : other # id /\ HasKey(d, other) => HasKey(new, other)
  BY <1>1 DEF HasKey, KeyAt
<1>8. QED
  BY <1>2, <1>3, <1>5, <1>6, <1>7 DEF Drops, new

(* What Push leaves, where Insert has seen a place. *)
LEMMA PushKeepsK ==
    ASSUME NEW d \in Deques, NEW n \in Nodes, Cardinality(Keyed(d)) <= K,
           Cardinality(Keyed(d)) < K \/ HasKey(d, n.id)
    PROVE  /\ KeyedPush(d, n) \in Deques /\ Cardinality(Keyed(KeyedPush(d, n))) <= K
           /\ \A j \in 1..Len(KeyedPush(d, n)) :
                 \/ KeyedPush(d, n)[j].node = n
                 \/ \E i \in 1..Len(d) : KeyedPush(d, n)[j].node = d[i].node
<1> DEFINE mid == Unlist(d, n.id)
           new == Append(mid, [node |-> n, keyed |-> TRUE])
<1>1. mid \in Deques /\ From(d, mid)
  BY UnlistDrops DEF Drops
<1>2. Cardinality(Keyed(mid)) < K
  BY UnlistDrops, KeyedFinite, RTConstants, <1>1 DEF Drops
<1> HIDE DEF mid
<1>3. /\ new \in Deques /\ Len(new) = Len(mid) + 1 /\ Len(mid) \in Nat
      /\ \A j \in 1..Len(mid) : new[j] = mid[j]
      /\ new[Len(mid) + 1].node = n
  BY <1>1 DEF Deques
<1> HIDE DEF new
<1>4. Keyed(new) \subseteq Keyed(mid) \cup {Len(mid) + 1}
  BY <1>3 DEF Keyed
<1>5. IsFiniteSet(Keyed(mid)) /\ Cardinality(Keyed(mid)) \in Nat /\ Cardinality(Keyed(new)) \in Nat
  BY <1>1, <1>3, KeyedFinite
<1>6. Cardinality(Keyed(new)) <= Cardinality(Keyed(mid)) + 1
  <2> DEFINE x == Len(mid) + 1
  <2> HIDE DEF x
  <2>1. /\ IsFiniteSet(Keyed(mid) \cup {x})
        /\ Cardinality(Keyed(mid) \cup {x}) <= Cardinality(Keyed(mid)) + 1
    <3>1. /\ IsFiniteSet(Keyed(mid) \cup {x})
          /\ \/ Cardinality(Keyed(mid) \cup {x}) = Cardinality(Keyed(mid)) + 1
             \/ Cardinality(Keyed(mid) \cup {x}) = Cardinality(Keyed(mid))
      BY <1>5, FS_AddElement, Zenon
    <3>2. QED
      BY <1>5, <3>1
  <2>2. /\ Cardinality(Keyed(new)) <= Cardinality(Keyed(mid) \cup {x})
        /\ Cardinality(Keyed(mid) \cup {x}) \in Nat
    BY <2>1, <1>4, FS_Subset, FS_CardinalityType, Zenon DEF x
  <2>3. QED
    BY <2>1, <2>2, <1>5
<1>7. Cardinality(Keyed(new)) <= K
  BY <1>2, <1>5, <1>6, RTConstants
<1>8. \A j \in 1..Len(new) : new[j].node = n \/ \E i \in 1..Len(d) : new[j].node = d[i].node
  BY <1>1, <1>3 DEF From
<1>9. QED
  BY <1>3, <1>7, <1>8 DEF KeyedPush, new, mid
-----------------------------------------------------------------------------
(* Paths.                                                                  *)

LEMMA IdsAreSequences ==
    ASSUME NEW n \in Nodes
    PROVE  /\ n.addr \in Addrs
           /\ n.id \in [1..MaxPrefixLength -> Bits] /\ n.id \in Seq(Bits)
           /\ Len(n.id) = MaxPrefixLength /\ MaxPrefixLength \in Nat
<1>1. n \in [id : [1..MaxPrefixLength -> Bits], addr : Addrs] /\ MaxPrefixLength \in Nat
  BY RTConstants
<1>2. QED
  BY <1>1

LEMMA PathLength ==
    ASSUME NEW n \in Nodes, NEW d \in 0..MaxPrefixLength
    PROVE  /\ Path(n.id, d) \in Seq(Bits) /\ Len(Path(n.id, d)) = d
           /\ \A i \in 1..d : Path(n.id, d)[i] = n.id[i]
BY IdsAreSequences DEF Path

LEMMA PathGrows ==
    ASSUME NEW n \in Nodes, NEW d \in 0..MaxPrefixLength, d < MaxPrefixLength
    PROVE  /\ n.id[d + 1] \in Bits
           /\ Path(n.id, d + 1) = Append(Path(n.id, d), n.id[d + 1])
<1>1. d + 1 \in 1..MaxPrefixLength /\ d + 1 \in 0..MaxPrefixLength
  BY IdsAreSequences
<1>2. n.id[d + 1] \in Bits
  BY <1>1, IdsAreSequences
<1>3. /\ Path(n.id, d) \in Seq(Bits) /\ Len(Path(n.id, d)) = d
      /\ \A i \in 1..d : Path(n.id, d)[i] = n.id[i]
  BY PathLength
<1>4. /\ Path(n.id, d + 1) \in Seq(Bits) /\ Len(Path(n.id, d + 1)) = d + 1
      /\ \A i \in 1..d + 1 : Path(n.id, d + 1)[i] = n.id[i]
  BY <1>1, PathLength
<1> DEFINE p == Path(n.id, d)
           q == Path(n.id, d + 1)
           b == n.id[d + 1]
           a == Append(p, b)
<1>5. d \in Nat /\ b \in Bits /\ p \in Seq(Bits) /\ q \in Seq(Bits) /\ Len(p) = d /\ Len(q) = d + 1
  BY <1>2, <1>3, <1>4, IdsAreSequences
<1>6. \A i \in 1..d : p[i] = q[i]
  <2>1. \A i \in 1..d : i \in 1..d + 1
    BY <1>5
  <2>2. QED
    BY <2>1, <1>3, <1>4, Zenon
<1>7. q[d + 1] = b
  BY <1>4, <1>5
<1> HIDE DEF p, q, b
<1>8. a \in Seq(Bits) /\ Len(a) = d + 1 /\ a[d + 1] = b /\ \A i \in 1..d : a[i] = p[i]
  BY <1>5
<1> HIDE DEF a
<1>9. \A i \in 1..Len(q) : q[i] = a[i]
  BY <1>5, <1>6, <1>7, <1>8
<1>10. q = a
  BY <1>5, <1>8, <1>9, SeqEqual, Zenon
<1>11. QED
  BY <1>2, <1>10 DEF a, p, q, b

LEMMA AppendTells ==
    ASSUME NEW s \in Seq(Bits), NEW t \in Seq(Bits), NEW b \in Bits, NEW c \in Bits,
           Append(s, b) = Append(t, c)
    PROVE  s = t /\ b = c
<1>1. Len(s) + 1 = Len(t) + 1
  OBVIOUS
<1>2. Len(s) = Len(t) /\ Append(s, b)[Len(s) + 1] = b /\ Append(t, c)[Len(t) + 1] = c
  BY <1>1
<1>3. \A i \in 1..Len(s) : Append(s, b)[i] = s[i] /\ Append(t, c)[i] = t[i]
  BY <1>2
<1>4. QED
  BY <1>2, <1>3

-----------------------------------------------------------------------------
(* The map of nodes.                                                       *)

LEMMA MapAtFirst == Init => MapInv
<1> SUFFICES ASSUME Init PROVE MapInv
  OBVIOUS
<1>1. Cached = {}
  BY DEF Init, Cached
<1>2. QED
  BY <1>1, FS_EmptySet DEF Init, MapInv, MapTyped, RoomForWriter, BitLeft

(* Steps that leave the map alone.  InsertStart tests MaxNodes. *)
LEMMA MapLeftAlone ==
    ASSUME MapInv, UNCHANGED cachedNodes,
           \/ writer' = None
           \/ /\ writer # None /\ writer' \in Writers
              /\ writer.at \notin HasCached \/ writer'.at \in HasCached
              /\ writer'.at \in Splitting => writer'.depth < MaxPrefixLength
           \/ \E n \in Nodes : InsertStart(n)
           \/ writer' = writer
    PROVE  MapInv' /\ Cached' = Cached
<1>1. Cached' = Cached
  BY DEF Cached
<1>2. writer' = None \/ writer' \in Writers
  <2>1. CASE \E n \in Nodes : InsertStart(n)
    <3>1. 0 \in 0..MaxPrefixLength
      BY RTConstants
    <3>2. QED
      BY <2>1, <3>1 DEF InsertStart, Writers, Splitting
  <2>2. CASE writer' = writer
    BY <2>2 DEF MapInv, MapTyped
  <2>3. QED
    BY <2>1, <2>2
<1>3. writer' # None /\ writer'.at \notin HasCached => Cardinality(Cached) < MaxNodes
  BY DEF MapInv, RoomForWriter, InsertStart, Cached
<1>4. BitLeft'
  <2>1. CASE \E n \in Nodes : InsertStart(n)
    BY <2>1 DEF BitLeft, InsertStart, Splitting
  <2>2. CASE writer' = writer
    BY <2>2 DEF MapInv, BitLeft
  <2>3. QED
    BY <2>1, <2>2 DEF BitLeft
<1>5. QED
  BY <1>1, <1>2, <1>3, <1>4 DEF MapInv, MapTyped, RoomForWriter

(* NodeSet counts as RoutingTable does. *)
LEMMA SameCardinality == \A S : Set!Cardinality(S) = Cardinality(S)
BY Zenon DEF Set!Cardinality, Cardinality

LEMMA CacheNodeAdds ==
    ASSUME MapInv, CacheNode
    PROVE  MapInv' /\ \E a \in Addrs : Set!Add(a)
<1>1. writer \in Writers /\ writer # None /\ writer.node \in Nodes
  BY DEF CacheNode, WriterAt, MapInv, MapTyped, Writers, Splitting
<1>2. PICK a \in Addrs : a = writer.node.addr /\ writer.node # None
  BY <1>1, IdsAreSequences, RTConstants
<1>3. Cached' = Cached \cup {a}
  BY <1>2 DEF CacheNode, Cached, MapInv, MapTyped
<1>4. Cardinality(Cached) < MaxNodes
  BY <1>1 DEF MapInv, RoomForWriter, CacheNode, WriterAt, HasCached
<1>5. Set!Add(a)
  BY <1>3, <1>4, SameCardinality DEF Set!Add, Cached
<1>6. MapTyped'
  <2>1. IsFiniteSet(Cached')
    BY <1>3, FS_AddElement DEF MapInv, MapTyped
  <2>2. cachedNodes' \in [Addrs -> Nodes \cup {None}]
    BY <1>1 DEF CacheNode, MapInv, MapTyped
  <2>3. writer' \in Writers
    BY <1>1 DEF CacheNode, WriterGoesTo, Writers, Splitting
  <2>4. QED
    BY <2>1, <2>2, <2>3 DEF MapTyped
<1>7. RoomForWriter'
  BY <1>1 DEF RoomForWriter, CacheNode, WriterGoesTo, Writers, Splitting, HasCached
<1>8. BitLeft'
  BY <1>1 DEF BitLeft, CacheNode, WriterGoesTo, Writers, Splitting
<1>9. QED
  BY <1>5, <1>6, <1>7, <1>8 DEF MapInv

LEMMA UncacheDrops ==
    ASSUME MapInv, NEW r \in Removers, Uncache(r)
    PROVE  MapInv' /\ (Cached' = Cached \/ \E a \in Addrs : Set!Drop(a))
<1>1. PICK a : a = remover[r].node.addr
  OBVIOUS
<1>2. cachedNodes' = [cachedNodes EXCEPT ![a] = None] /\ writer' = writer
  BY <1>1 DEF Uncache
<1>3. Cached' = Cached \ {a}
  BY <1>2 DEF Cached, MapInv, MapTyped
<1>4. Cached' = Cached \/ \E b \in Addrs : Set!Drop(b)
  BY <1>3 DEF Set!Drop, Cached
<1>5. IsFiniteSet(Cached') /\ Cardinality(Cached') <= Cardinality(Cached)
      /\ Cardinality(Cached') \in Nat /\ Cardinality(Cached) \in Nat
  BY <1>3, FS_Subset, FS_CardinalityType DEF MapInv, MapTyped
<1>6. MapTyped'
  BY <1>2, <1>5 DEF MapInv, MapTyped
<1>7. RoomForWriter'
  BY <1>2, <1>5, RTConstants DEF MapInv, RoomForWriter
<1>8. BitLeft'
  BY <1>2 DEF MapInv, BitLeft
<1>9. QED
  BY <1>4, <1>6, <1>7, <1>8 DEF MapInv

OtherInsertStep ==
    \/ Descend \/ ChooseBucket \/ FindKey \/ CheckNew \/ Push \/ CacheBucket \/ Relist
    \/ Full \/ FindCached \/ UnlistParent \/ PushLeft \/ PushRight \/ InsertFails
LEMMA MapStep == MapInv /\ [Next]_vars => MapInv' /\ [Set!Next]_Cached
<1> SUFFICES ASSUME MapInv, [Next]_vars PROVE MapInv' /\ [Set!Next]_Cached
  OBVIOUS
<1>1. CASE CacheNode
  BY <1>1, CacheNodeAdds DEF Set!Next
<1>2. CASE \E r \in Removers : Uncache(r)
  BY <1>2, UncacheDrops DEF Set!Next
<1>3. CASE \E n \in Nodes : InsertStart(n)
  BY <1>3, MapLeftAlone DEF InsertStart, caches
<1>4. CASE OtherInsertStep
  <2>1. UNCHANGED cachedNodes /\ writer # None /\ writer \in Writers
    BY <1>4 DEF MapInv, MapTyped, OtherInsertStep, Descend, ChooseBucket, FindKey, CheckNew, Push,
       CacheBucket, Relist, Full, FindCached, UnlistParent, PushLeft, PushRight, InsertFails,
       InLoop, WriterAt, caches
  <2>2. CASE writer' = None
    BY <2>1, <2>2, MapLeftAlone
  <2>3. CASE (Descend \/ ChooseBucket \/ FindKey \/ Push \/ Full) /\ writer' # None
    <3>1. writer.at \notin HasCached
      BY <2>3 DEF Descend, ChooseBucket, FindKey, Push, Full, InLoop, WriterAt, HasCached
    <3>2. CASE Descend
      <4>1. writer' = [writer EXCEPT !.depth = @ + 1] /\ writer.at = "loop"
            /\ writer.depth < MaxPrefixLength
        BY <3>2 DEF Descend, GoDown, InLoop
      <4>2. writer.depth + 1 \in 0..MaxPrefixLength
        BY <2>1, <4>1, RTConstants DEF Writers
      <4>3. writer' \in Writers /\ writer'.at = "loop"
        BY <2>1, <4>1, <4>2 DEF Writers
      <4>4. QED
        BY <2>1, <3>1, <4>3, MapLeftAlone DEF Splitting
    <3>3. CASE ChooseBucket
      <4>1. writer' \in Writers /\ writer'.depth = writer.depth
        BY <2>1, <3>3 DEF ChooseBucket, WriterGoesTo, Writers, Splitting
      <4>2. writer.depth < MaxPrefixLength
        BY <3>3 DEF ChooseBucket, InLoop
      <4>3. QED
        BY <2>1, <3>1, <4>1, <4>2, MapLeftAlone
    <3>4. CASE FindKey \/ Push
      <4>1. writer' \in Writers /\ writer'.at \notin Splitting
        BY <2>1, <3>4 DEF FindKey, Push, WriterGoesTo, Writers, Splitting
      <4>2. QED
        BY <2>1, <3>1, <4>1, MapLeftAlone
    <3>5. CASE Full
      <4>1. writer.at = "full" /\ writer' = [writer EXCEPT !.at = "split"]
        BY <2>3, <3>5 DEF Full, Split, Candidate, WriterGoesTo, WriterAt
      <4>2. writer' \in Writers /\ writer'.depth = writer.depth
        BY <2>1, <4>1 DEF Writers, Splitting
      <4>3. writer.depth < MaxPrefixLength
        BY <2>1, <4>1 DEF MapInv, BitLeft, Splitting
      <4>4. QED
        BY <2>1, <3>1, <4>2, <4>3, MapLeftAlone
    <3>6. QED
      BY <2>3, <3>2, <3>3, <3>4, <3>5
  <2>4. CASE CheckNew
    <3>1. writer.at \notin HasCached
      BY <2>4 DEF CheckNew, WriterAt, HasCached
    <3>2. HasKey(buckets[Here].nodes, writer.node.id) \in BOOLEAN
      BY DEF HasKey
    <3>3. writer' \in Writers /\ writer'.at \notin Splitting
      BY <2>1, <2>4, <3>2 DEF CheckNew, Writers, Splitting
    <3>4. QED
      BY <2>1, <3>1, <3>3, MapLeftAlone
  <2>5. CASE CacheBucket
    <3>1. writer' \in Writers /\ writer'.at \in HasCached /\ writer'.at \notin Splitting
      BY <2>1, <2>5 DEF CacheBucket, WriterGoesTo, Writers, Splitting, HasCached
    <3>2. QED
      BY <2>1, <3>1, MapLeftAlone
  <2>6. CASE FindCached \/ UnlistParent \/ PushLeft
    <3>1. writer.at \notin HasCached /\ writer.at \in Splitting
      BY <2>6 DEF FindCached, UnlistParent, PushLeft, WriterAt, HasCached, Splitting
    <3>2. writer' \in Writers /\ writer'.depth = writer.depth
      <4>1. CASE FindCached
        BY <2>1, <4>1 DEF FindCached, Writers, Splitting
      <4>2. CASE UnlistParent
        BY <2>1, <4>2 DEF UnlistParent, Writers, Splitting
      <4>3. CASE PushLeft
        BY <2>1, <4>3 DEF PushLeft, WriterGoesTo, Writers, Splitting
      <4>4. QED
        BY <2>6, <4>1, <4>2, <4>3
    <3>3. writer.depth < MaxPrefixLength
      BY <2>1, <3>1 DEF MapInv, BitLeft
    <3>4. QED
      BY <2>1, <3>1, <3>2, <3>3, MapLeftAlone
  <2>7. CASE PushRight
    <3>1. writer.at \notin HasCached /\ writer.at \in Splitting
      BY <2>7 DEF PushRight, WriterAt, HasCached, Splitting
    <3>2. writer.depth + 1 \in 0..MaxPrefixLength
      BY <2>1, <3>1, RTConstants DEF MapInv, BitLeft, Writers
    <3>3. writer' \in Writers /\ writer'.at = "loop"
      BY <2>1, <2>7, <3>2 DEF PushRight, Writers
    <3>4. QED
      BY <2>1, <3>1, <3>3, MapLeftAlone DEF Splitting
  <2>8. QED
    BY <1>4, <2>2, <2>3, <2>4, <2>5, <2>6, <2>7 DEF OtherInsertStep, Relist, InsertFails
<1>5. CASE \E r \in Removers : Find(r) \/ ReadIndex(r) \/ Delete(r) \/ RelistTouched(r)
  BY <1>5, MapLeftAlone DEF Find, ReadIndex, Delete, RelistTouched, caches
<1>6. CASE \E r \in Removers : Touch(r)
  <2>1. UNCHANGED cachedNodes
    BY <1>6 DEF Touch
  <2>2. CASE writer' = writer
    BY <2>1, <2>2, MapLeftAlone
  <2>3. CASE writer' # writer
    <3>1. /\ writer # None /\ writer.at = "unlist"
          /\ writer' = [writer EXCEPT !.inList = FALSE]
      BY <1>6, <2>3 DEF Touch, WriterAt
    <3>2. /\ writer' \in Writers /\ writer.at \notin HasCached
          /\ writer'.depth = writer.depth /\ writer.at \in Splitting
      BY <3>1 DEF MapInv, MapTyped, Writers, Splitting, HasCached
    <3>3. QED
      BY <2>1, <3>1, <3>2, MapLeftAlone DEF MapInv, BitLeft
  <2>4. QED
    BY <2>2, <2>3
<1>7. CASE UNCHANGED vars
  BY <1>7, MapLeftAlone DEF vars
<1>8. QED
  BY <1>1, <1>2, <1>3, <1>4, <1>5, <1>6, <1>7 DEF Next, InsertStep, OtherInsertStep, RemoveStep

(* The table is the set that NodeSet promises, bounded by MaxNodes and     *)
(* changed by one node at a time, however one Insert and any number of     *)
(* removals interleave.                                                    *)
THEOREM TableImplementsNodeSet == Spec => ImplementsNodeSet
<1>1. Init => Set!Init
  BY DEF Init, Set!Init
<1>2. MapInv /\ [Next]_vars => [Set!Next]_Cached
  BY MapStep
<1>3. MapInv /\ [Next]_vars => MapInv'
  BY MapStep
<1>4. QED
  BY MapAtFirst, <1>1, <1>2, <1>3, PTL DEF Spec, ImplementsNodeSet, Set!Spec, Cached

-----------------------------------------------------------------------------
(* The tree.                                                               *)

(* A split puts two children in the place of the leaf Insert stands at,    *)
(* and nothing else touches the leaves.                                    *)
LEMMA LeavesSplit ==
    ASSUME [Next]_vars
    PROVE  \/ leaves' = leaves
           \/ /\ Full /\ Split /\ WriterAt("full")
              /\ leaves' = (leaves \ {Here}) \cup Children
<1>1. CASE Full
  BY <1>1 DEF Full, Split, Candidate
<1>2. CASE \/ \E n \in Nodes : InsertStart(n)
           \/ Descend \/ ChooseBucket \/ FindKey \/ CheckNew \/ Push \/ CacheNode
           \/ CacheBucket \/ Relist \/ FindCached \/ UnlistParent \/ PushLeft \/ PushRight
           \/ InsertFails
  BY <1>2 DEF InsertStart, Descend, ChooseBucket, FindKey, CheckNew, Push, CacheNode,
              CacheBucket, Relist, FindCached, UnlistParent, PushLeft, PushRight,
              InsertFails, tree
<1>3. CASE \E r \in Removers : RemoveStep(r)
  BY <1>3 DEF RemoveStep, Find, ReadIndex, Delete, Uncache, Touch, RelistTouched, tree
<1>4. CASE UNCHANGED vars
  BY <1>4 DEF vars
<1>5. QED
  BY <1>1, <1>2, <1>3, <1>4 DEF Next, InsertStep

(* Insert finds a bucket full at a leaf, and no one else changes the tree. *)
LEMMA AtLeafKept == ASSUME MapInv, AtLeaf, [Next]_vars PROVE AtLeaf'
<1>1. writer # None => writer \in Writers
  BY DEF MapInv, MapTyped
<1>2. CASE ChooseBucket
  <2>1. writer # None /\ Here \in leaves /\ leaves' = leaves
    BY <1>2 DEF ChooseBucket, InLoop, WriterAt, tree
  <2>2. Here' = Here
    BY <1>1, <1>2, <2>1 DEF ChooseBucket, WriterGoesTo, Here, Writers
  <2>3. QED
    BY <2>1, <2>2 DEF AtLeaf
<1>3. CASE \E n \in Nodes : InsertStart(n)
  BY <1>3 DEF InsertStart, AtLeaf, WriterAt
<1>4. CASE Relist \/ InsertFails
  BY <1>4 DEF Relist, InsertFails, AtLeaf, WriterAt
<1>5. CASE FindKey \/ CheckNew \/ Push \/ CacheNode \/ CacheBucket \/ PushLeft
  <2>1. writer # None /\ writer'.at # "full"
    BY <1>1, <1>5 DEF FindKey, CheckNew, Push, CacheNode, CacheBucket, PushLeft, WriterAt,
       WriterGoesTo, Writers
  <2>2. QED
    BY <2>1 DEF AtLeaf, WriterAt
<1>6. CASE Descend
  <2>1. writer'.at # "full"
    BY <1>1, <1>6 DEF Descend, GoDown, InLoop, Writers
  <2>2. QED
    BY <2>1 DEF AtLeaf, WriterAt
<1>7. CASE Full
  <2>1. writer' = None \/ writer'.at # "full"
    BY <1>1, <1>7 DEF Full, Split, Candidate, WriterAt, WriterGoesTo, Writers
  <2>2. QED
    BY <2>1 DEF AtLeaf, WriterAt
<1>8. CASE FindCached \/ UnlistParent \/ PushRight
  <2>1. writer'.at # "full"
    BY <1>1, <1>8 DEF FindCached, UnlistParent, PushRight, WriterAt, Writers
  <2>2. QED
    BY <2>1 DEF AtLeaf, WriterAt
<1>9. CASE \E r \in Removers : RemoveStep(r) /\ ~Touch(r)
  BY <1>9 DEF RemoveStep, Find, ReadIndex, Delete, Uncache, RelistTouched, tree, AtLeaf, WriterAt,
     Here
<1>10. CASE \E r \in Removers : Touch(r)
  <2>1. PICK r \in Removers : Touch(r)
    BY <1>10
  <2>2. CASE writer' = writer
    BY <2>1, <2>2 DEF Touch, tree, AtLeaf, WriterAt, Here
  <2>3. CASE writer' # writer
    <3>1. /\ writer # None /\ writer.at = "unlist"
          /\ writer' = [writer EXCEPT !.inList = FALSE]
      BY <2>1, <2>3 DEF Touch, WriterAt
    <3>2. writer'.at # "full"
      BY <1>1, <3>1 DEF Writers
    <3>3. QED
      BY <3>2 DEF AtLeaf, WriterAt
  <2>4. QED
    BY <2>2, <2>3
<1>11. CASE UNCHANGED vars
  BY <1>11 DEF vars, AtLeaf, WriterAt, Here
<1>12. QED
  BY <1>2, <1>3, <1>4, <1>5, <1>6, <1>7, <1>8, <1>9, <1>10, <1>11 DEF Next, InsertStep, RemoveStep

(* The id of a node that was under the leaf that is split is under exactly *)
(* one of its children, and no other is.                                   *)
LEMMA SplitKeepsOneLeaf ==
    ASSUME MapInv, TreeInv, WriterAt("full"), leaves' = (leaves \ {Here}) \cup Children
    PROVE  LeavesTyped' /\ OneLeaf'
<1>1. PICK m \in Nodes, d \in 0..MaxPrefixLength :
         Here = Path(m.id, d) /\ d < MaxPrefixLength
  BY DEF MapInv, MapTyped, BitLeft, Writers, Splitting, WriterAt, Here
<1>2. Here \in Seq(Bits) /\ Len(Here) = d
  BY <1>1, PathLength
<1>3. \A c \in Children : c \in Seq(Bits) /\ Len(c) = d + 1
  BY <1>2 DEF Children
<1>4. LeavesTyped'
  BY <1>1, <1>3, IdsAreSequences DEF TreeInv, LeavesTyped
<1>5. ASSUME NEW n \in Nodes
      PROVE  \E p \in leaves' : LeavesOn(n.id)' = {p}
  <2>1. PICK q \in leaves : LeavesOn(n.id) = {q}
    BY DEF TreeInv, OneLeaf
  <2>2. n.id[d + 1] \in Bits /\ Path(n.id, d + 1) = Append(Path(n.id, d), n.id[d + 1])
        /\ Path(n.id, d) \in Seq(Bits)
    BY <1>1, PathGrows, PathLength
  <2>3. \A b \in Bits : Append(Here, b) = Path(n.id, d + 1) <=>
                         Here = Path(n.id, d) /\ b = n.id[d + 1]
    BY <1>2, <2>2, AppendTells
  <2>4. \A c \in Children : c = Path(n.id, Len(c)) <=> c = Path(n.id, d + 1)
    BY <1>3
  <2>5. Here \in LeavesOn(n.id) <=> Here = Path(n.id, d)
    BY <1>2 DEF LeavesOn, TreeInv, AtLeaf
  <2>6. CASE q = Here
    <3>1. Append(Here, n.id[d + 1]) \in Children /\ Here = Path(n.id, d)
      BY <2>1, <2>2, <2>5, <2>6 DEF Children
    <3>2. \A c \in Children : c = Path(n.id, Len(c)) <=> c = Append(Here, n.id[d + 1])
      BY <2>2, <2>4, <3>1
    <3>3. \A p \in leaves \ {Here} : p # Path(n.id, Len(p))
      BY <2>1, <2>6 DEF LeavesOn
    <3>4. LeavesOn(n.id)' = {Append(Here, n.id[d + 1])}
      BY <3>1, <3>2, <3>3 DEF LeavesOn
    <3>5. QED
      BY <3>1, <3>4
  <2>7. CASE q # Here
    <3>1. Here # Path(n.id, d)
      BY <2>1, <2>5, <2>7
    <3>2. \A c \in Children : c # Path(n.id, Len(c))
      BY <2>3, <2>4, <3>1 DEF Children
    <3>3. LeavesOn(n.id)' = {q}
      BY <2>1, <2>7, <3>2 DEF LeavesOn
    <3>4. QED
      BY <2>7, <3>3
  <2>8. QED
    BY <2>6, <2>7
<1>6. QED
  BY <1>4, <1>5 DEF OneLeaf

LEMMA TreeKept == MapInv /\ TreeInv /\ [Next]_vars => MapInv' /\ TreeInv'
<1> SUFFICES ASSUME MapInv, TreeInv, [Next]_vars PROVE MapInv' /\ TreeInv'
  OBVIOUS
<1>1. MapInv'
  BY MapStep
<1>2. LeavesTyped' /\ OneLeaf'
  <2>1. CASE leaves' = leaves
    BY <2>1 DEF TreeInv, LeavesTyped, OneLeaf, LeavesOn
  <2>2. CASE leaves' # leaves
    BY <2>2, LeavesSplit, SplitKeepsOneLeaf
  <2>3. QED
    BY <2>1, <2>2
<1>3. AtLeaf'
  BY AtLeafKept DEF TreeInv
<1>4. QED
  BY <1>1, <1>2, <1>3 DEF MapInv, TreeInv

LEMMA TreeAtFirst == Init => MapInv /\ TreeInv
<1> SUFFICES ASSUME Init PROVE MapInv /\ TreeInv
  OBVIOUS
<1>1. \A n \in Nodes : Path(n.id, 0) = <<>>
  BY PathLength, IdsAreSequences DEF Path
<1>2. \A n \in Nodes : LeavesOn(n.id) = {<<>>}
  BY <1>1 DEF Init, LeavesOn
<1>3. <<>> \in Seq(Bits) /\ Len(<<>>) = 0 /\ 0 <= MaxPrefixLength
  BY RTConstants
<1>4. LeavesTyped
  BY <1>3 DEF Init, LeavesTyped
<1>5. OneLeaf
  BY <1>2 DEF Init, OneLeaf
<1>6. AtLeaf
  BY DEF Init, AtLeaf, WriterAt
<1>7. QED
  BY <1>4, <1>5, <1>6, MapAtFirst DEF MapInv, TreeInv

-----------------------------------------------------------------------------
(* The buckets.                                                            *)

Buckets == [prefix : Paths, nodes : Deques, candidates : Deques]
BucketsTyped == buckets \in [Paths -> Buckets]
(* Second part of LeavesPartitionIds. *)
LeavesSound ==
    \A p \in leaves :
        /\ buckets[p].prefix = p
        /\ \A i \in 1..Len(buckets[p].nodes) : Path(buckets[p].nodes[i].node.id, Len(p)) = p
(* What HasPlace saw still holds when Push runs, in the only form that     *)
(* survives the removals in between: not Len(nodes) < K, for the list may  *)
(* grow by elements that have lost their key, nor HasKey, which a Delete   *)
(* ends by making room.                                                    *)
WriterHasRoom ==
    writer # None /\ writer.at \in {"bucket", "push"} =>
        \/ Cardinality(Keyed(buckets[Here].nodes)) < K
        \/ HasKey(buckets[Here].nodes, writer.node.id)
BucketsInv == BucketsTyped /\ IndexedWithinK /\ LeavesSound /\ WriterHasRoom
Places == [at : {"idle", "found", "deleting", "replaced", "uncached", "relist"},
           node : Nodes \cup {None}, path : Paths, inList : BOOLEAN]
RemoversTyped == remover \in [Removers -> Places]
CachedTyped == cachedKBuckets \subseteq [path : Paths, keyed : BOOLEAN]
TableInv == MapInv /\ TreeInv /\ BucketsInv /\ RemoversTyped /\ CachedTyped

LEMMA PathsAreSequences ==
    \A p : p \in Paths <=> p \in Seq(Bits) /\ Len(p) <= MaxPrefixLength
<1>0. MaxPrefixLength \in Nat
  BY RTConstants
<1>1. ASSUME NEW p \in Paths PROVE p \in Seq(Bits) /\ Len(p) <= MaxPrefixLength
  <2>1. PICK n \in 0..MaxPrefixLength : p \in [1..n -> Bits]
    BY DEF Paths
  <2>2. n \in Nat /\ n <= MaxPrefixLength
    BY <1>0
  <2>3. p \in Seq(Bits) /\ Len(p) = n
    BY <2>1, <2>2
  <2>4. QED
    BY <2>2, <2>3
<1>2. ASSUME NEW p \in Seq(Bits), Len(p) <= MaxPrefixLength PROVE p \in Paths
  <2>1. p \in [1..Len(p) -> Bits] /\ Len(p) \in Nat
    OBVIOUS
  <2>2. Len(p) \in 0..MaxPrefixLength
    BY <1>0, <1>2, <2>1
  <2>3. QED
    BY <2>1, <2>2, Zenon DEF Paths
<1>3. QED
  BY <1>1, <1>2

LEMMA RootIsAPath == <<>> \in Paths
<1>1. <<>> \in Seq(Bits) /\ Len(<<>>) = 0
  OBVIOUS
<1>2. Len(<<>>) <= MaxPrefixLength
  BY <1>1, RTConstants
<1>3. QED
  BY <1>1, <1>2, PathsAreSequences, Zenon

LEMMA HereIsAPath ==
    ASSUME writer \in Writers
    PROVE  /\ Here \in Paths /\ Here \in Seq(Bits) /\ Len(Here) = writer.depth
           /\ writer.node \in Nodes /\ writer.depth \in 0..MaxPrefixLength
<1>1. writer.node \in Nodes /\ writer.depth \in 0..MaxPrefixLength
  BY DEF Writers
<1>2. Here \in Seq(Bits) /\ Len(Here) = writer.depth
  BY <1>1, PathLength DEF Here
<1>3. writer.depth <= MaxPrefixLength
  BY <1>1, RTConstants
<1>4. QED
  BY <1>1, <1>2, <1>3, PathsAreSequences

(* A bucket's list is replaced by one with no more than K keys and whose   *)
(* nodes belong there.                                                     *)
LEMMA NodesReplaced ==
    ASSUME BucketsTyped, IndexedWithinK, LeavesSound, LeavesTyped, NEW p \in Paths,
           NEW new \in Deques, Cardinality(Keyed(new)) <= K,
           \A j \in 1..Len(new) :
              \/ Path(new[j].node.id, Len(p)) = p
              \/ \E i \in 1..Len(buckets[p].nodes) : new[j].node = buckets[p].nodes[i].node,
           buckets' = [buckets EXCEPT ![p].nodes = new], leaves' = leaves
    PROVE  BucketsTyped' /\ IndexedWithinK' /\ LeavesSound'
<1>1. /\ buckets' \in [Paths -> Buckets]
      /\ buckets'[p].prefix = buckets[p].prefix /\ buckets'[p].nodes = new
      /\ buckets'[p].candidates = buckets[p].candidates
      /\ \A q \in Paths \ {p} : buckets'[q] = buckets[q]
  BY DEF BucketsTyped, Buckets
<1>2. IndexedWithinK'
  <2> SUFFICES ASSUME NEW q \in Paths
               PROVE  Cardinality(Keyed(buckets'[q].nodes)) <= K /\ buckets'[q].candidates = <<>>
    BY Zenon DEF IndexedWithinK, Keyed
  <2>1. Cardinality(Keyed(buckets[q].nodes)) <= K /\ buckets[q].candidates = <<>>
    BY Zenon DEF IndexedWithinK, Keyed
  <2>2. QED
    BY <1>1, <2>1, Zenon
<1>3. ASSUME NEW q \in leaves
      PROVE  /\ buckets'[q].prefix = q
             /\ \A i \in 1..Len(buckets'[q].nodes) :
                   Path(buckets'[q].nodes[i].node.id, Len(q)) = q
  <2>1. /\ buckets[q].prefix = q
        /\ \A i \in 1..Len(buckets[q].nodes) : Path(buckets[q].nodes[i].node.id, Len(q)) = q
    BY Zenon DEF LeavesSound
  <2>2. q \in Paths
    BY PathsAreSequences DEF LeavesTyped
  <2>3. CASE q # p
    BY <1>1, <2>1, <2>2, <2>3, Zenon
  <2>4. CASE q = p
    <3>1. \A j \in 1..Len(new) : Path(new[j].node.id, Len(p)) = p
      BY <2>1, <2>4, Zenon
    <3>2. QED
      BY <1>1, <2>1, <2>4, <3>1, Zenon
  <2>5. QED
    BY <2>3, <2>4
<1>4. QED
  BY <1>1, <1>2, <1>3, Zenon DEF BucketsTyped, LeavesSound

(* A node that is under a leaf and goes to one of its children is under    *)
(* that child.                                                             *)
LEMMA ChildSound ==
    ASSUME NEW p \in Seq(Bits), NEW b \in Bits, NEW n \in Nodes, Len(p) < MaxPrefixLength,
           Path(n.id, Len(p)) = p, n.id[Len(p) + 1] = b
    PROVE  Path(n.id, Len(p) + 1) = Append(p, b)
<1>1. Len(p) \in 0..MaxPrefixLength
  BY RTConstants
<1>2. QED
  BY <1>1, PathGrows

LEMMA MovedToSound ==
    ASSUME NEW p \in Seq(Bits), NEW b \in Bits, Len(p) < MaxPrefixLength, NEW deque \in Deques,
           \A i \in 1..Len(deque) : Path(deque[i].node.id, Len(p)) = p
    PROVE  LET new == MovedTo(deque, Len(p), b)
           IN  /\ new \in Deques /\ Keyed(new) = {}
               /\ \A i \in 1..Len(new) : Path(new[i].node.id, Len(p) + 1) = Append(p, b)
               /\ deque = <<>> => new = <<>>
<1> DEFINE places == {i \in 1..Len(deque) : deque[i].node.id[Len(p) + 1] = b}
           picked == ElementsAt(deque, places)
           new == Unkeyed(picked)
<1>1. /\ picked \in Deques
      /\ \A n \in 1..Len(picked) : \E i \in places : picked[n] = deque[i]
  <2>1. places \in SUBSET (1..Len(deque)) /\ deque \in Seq([node : Nodes, keyed : BOOLEAN])
    BY DEF Deques
  <2> HIDE DEF places
  <2>2. QED
    BY <2>1, ElementsAtAreElements DEF Deques
<1>2. \A i \in places : /\ deque[i] \in [node : Nodes, keyed : BOOLEAN]
                        /\ Path(deque[i].node.id, Len(p) + 1) = Append(p, b)
  <2> TAKE i \in places
  <2>1. i \in 1..Len(deque) /\ deque[i].node.id[Len(p) + 1] = b
    OBVIOUS
  <2>2. deque \in Seq([node : Nodes, keyed : BOOLEAN])
    BY DEF Deques
  <2>3. deque[i] \in [node : Nodes, keyed : BOOLEAN]
    BY <2>1, <2>2, ElementsOfSequence, Zenon
  <2>4. deque[i].node \in Nodes
    BY <2>3
  <2>5. QED
    BY <2>1, <2>3, <2>4, ChildSound, Zenon
<1>3. deque = <<>> => picked = <<>>
  <2>1. ASSUME deque = <<>> PROVE Len(picked) = 0
    <3>1. \A i \in 1..Len(deque) : FALSE
      BY <2>1
    <3>2. places = {}
      BY <3>1, Zenon
    <3>3. \A n \in 1..Len(picked) : FALSE
      BY <1>1, <3>2, Zenon
    <3>4. Len(picked) \in Nat
      BY <1>1, ElementsOfSequence, Zenon DEF Deques
    <3>5. QED
      BY <3>3, <3>4
  <2>2. QED
    BY <2>1, <1>1 DEF Deques
<1> HIDE DEF places, picked
<1>4. Len(picked) \in Nat /\ \A n \in 1..Len(picked) : picked[n] \in [node : Nodes, keyed : BOOLEAN]
  BY <1>1, ElementsOfSequence DEF Deques
<1>5. /\ new \in Deques /\ Len(new) = Len(picked)
      /\ \A n \in 1..Len(picked) : new[n].node = picked[n].node /\ new[n].keyed = FALSE
  <2>1. /\ new = [n \in 1..Len(picked) |-> new[n]]
        /\ \A n \in 1..Len(picked) : new[n] = [picked[n] EXCEPT !.keyed = FALSE]
    BY DEF Unkeyed
  <2>2. \A n \in 1..Len(picked) : /\ new[n] \in [node : Nodes, keyed : BOOLEAN]
                                  /\ new[n].node = picked[n].node /\ new[n].keyed = FALSE
    BY <1>4, <2>1
  <2> HIDE DEF new
  <2>3. QED
    BY <1>4, <2>1, <2>2 DEF Deques
<1>6. picked = <<>> => new = <<>>
  <2>1. ASSUME picked = <<>> PROVE Len(new) = 0
    BY <1>5, <2>1
  <2>2. QED
    BY <2>1, <1>5 DEF Deques
<1> HIDE DEF new
<1>7. Keyed(new) = {}
  BY <1>5, Zenon DEF Keyed
<1>8. \A n \in 1..Len(new) : Path(new[n].node.id, Len(p) + 1) = Append(p, b)
  <2> TAKE n \in 1..Len(new)
  <2>1. n \in 1..Len(picked) /\ new[n].node = picked[n].node
    BY <1>5
  <2>2. PICK i \in places : picked[n] = deque[i]
    BY <1>1, <2>1, Zenon
  <2>3. Path(deque[i].node.id, Len(p) + 1) = Append(p, b)
    BY <1>2, Zenon
  <2>4. QED
    BY <2>1, <2>2, <2>3, Zenon
<1>9. new = MovedTo(deque, Len(p), b)
  BY DEF MovedTo, new, picked, places
<1>10. QED
  BY <1>3, <1>5, <1>6, <1>7, <1>8, <1>9, Zenon

(* At a leaf the prefix is the path, so a full bucket is split, never      *)
(* given a candidate; each child takes from the leaf what is under it.     *)
LEMMA SplitSound ==
    ASSUME MapInv, TreeInv, BucketsInv, Full
    PROVE  BucketsTyped' /\ IndexedWithinK' /\ LeavesSound'
<1>1. /\ writer \in Writers /\ writer.depth < MaxPrefixLength /\ Here \in leaves
      /\ \A q \in leaves : q \in Paths
  BY PathsAreSequences DEF Full, WriterAt, MapInv, MapTyped, BitLeft, Splitting, TreeInv, AtLeaf,
     LeavesTyped
<1>2. /\ Here \in Paths /\ Here \in Seq(Bits) /\ Len(Here) = writer.depth
      /\ Len(Here) < MaxPrefixLength /\ Len(Here) \in Nat
  BY <1>1, HereIsAPath
<1> DEFINE here == Here
           bucket == buckets[here]
<1>3. /\ bucket.prefix = here /\ bucket.candidates = <<>>
      /\ bucket.nodes \in Deques /\ bucket.candidates \in Deques
      /\ \A i \in 1..Len(bucket.nodes) : Path(bucket.nodes[i].node.id, Len(here)) = here
  <2>1. bucket \in Buckets
    BY <1>2 DEF BucketsInv, BucketsTyped
  <2>2. bucket.candidates = <<>>
    BY <1>2, Zenon DEF BucketsInv, IndexedWithinK
  <2>3. /\ bucket.prefix = here
        /\ \A i \in 1..Len(bucket.nodes) : Path(bucket.nodes[i].node.id, Len(here)) = here
    BY <1>1, Zenon DEF BucketsInv, LeavesSound
  <2>4. bucket.nodes \in Deques /\ bucket.candidates \in Deques
    BY <2>1 DEF Buckets
  <2>5. QED
    BY <2>2, <2>3, <2>4, Zenon
<1>4. SamePrefix
  <2>1. Path(here, Len(here)) = here
    BY <1>2 DEF Path
  <2>2. QED
    BY <1>2, <1>3, <2>1, Zenon DEF SamePrefix
<1>5. Split
  BY <1>4, Zenon DEF Full
<1>6. ASSUME NEW b \in Bits
      PROVE  /\ Append(here, b) \in Paths /\ Last(Append(here, b)) = b
             /\ Child(bucket, b) \in Buckets
             /\ Child(bucket, b).prefix = Append(here, b)
             /\ Keyed(Child(bucket, b).nodes) = {}
             /\ Child(bucket, b).candidates = <<>>
             /\ \A i \in 1..Len(Child(bucket, b).nodes) :
                   Path(Child(bucket, b).nodes[i].node.id, Len(Append(here, b))) = Append(here, b)
  <2> DEFINE c == Append(here, b)
             nodes == MovedTo(bucket.nodes, Len(here), b)
             candidates == MovedTo(bucket.candidates, Len(here), b)
  <2> HIDE DEF here
  <2>1. here \in Seq(Bits) /\ Len(here) < MaxPrefixLength /\ Len(here) \in Nat
    BY <1>2 DEF here
  <2>2. c \in Seq(Bits) /\ Len(c) = Len(here) + 1 /\ Last(c) = b
    BY <2>1 DEF Last
  <2>3. c \in Paths
    <3>1. Len(c) <= MaxPrefixLength
      BY <2>1, <2>2, RTConstants
    <3>2. QED
      BY <2>2, <3>1, PathsAreSequences, Zenon
  <2>4. /\ nodes \in Deques /\ Keyed(nodes) = {}
        /\ \A i \in 1..Len(nodes) : Path(nodes[i].node.id, Len(here) + 1) = c
    BY <1>3, <2>1, MovedToSound, Zenon
  <2>5. candidates \in Deques /\ candidates = <<>>
    <3>1. \A i \in 1..Len(bucket.candidates) :
            Path(bucket.candidates[i].node.id, Len(here)) = here
      BY <1>3
    <3>2. QED
      BY <1>3, <2>1, <3>1, MovedToSound, Zenon
  <2>6. Child(bucket, b) = [prefix |-> c, nodes |-> nodes, candidates |-> candidates]
    BY <1>3, Zenon DEF Child
  <2> HIDE DEF nodes, candidates, c
  <2>7. /\ Child(bucket, b) \in Buckets /\ Child(bucket, b).prefix = c
        /\ Child(bucket, b).nodes = nodes /\ Child(bucket, b).candidates = candidates
    BY <2>3, <2>4, <2>5, <2>6 DEF Buckets
  <2>8. QED
    BY <2>2, <2>3, <2>4, <2>5, <2>7, Zenon DEF c
<1>7. /\ leaves' = (leaves \ {here}) \cup {Append(here, b) : b \in Bits}
      /\ buckets' = [p \in Paths |-> IF p \in {Append(here, b) : b \in Bits}
                                     THEN Child(bucket, Last(p)) ELSE buckets[p]]
  BY <1>5, Zenon DEF Split, Children
<1>8. /\ \A b \in Bits : buckets'[Append(here, b)] = Child(bucket, b)
      /\ \A p \in Paths : p \notin {Append(here, b) : b \in Bits} => buckets'[p] = buckets[p]
  BY <1>6, <1>7, Zenon
<1> HIDE DEF here, bucket
<1>9. BucketsTyped'
  <2>1. \A p \in Paths : buckets[p] \in Buckets
    BY DEF BucketsInv, BucketsTyped
  <2>2. \A p \in Paths : buckets'[p] \in Buckets
    BY <1>6, <1>8, <2>1, Zenon
  <2>3. QED
    BY <1>7, <2>2, Zenon DEF BucketsTyped
<1>10. IndexedWithinK'
  <2>1. \A p \in Paths :
          Cardinality(Keyed(buckets[p].nodes)) <= K /\ buckets[p].candidates = <<>>
    BY Zenon DEF BucketsInv, IndexedWithinK, Keyed
  <2>2. \A b \in Bits : /\ Cardinality(Keyed(buckets'[Append(here, b)].nodes)) = 0
                        /\ buckets'[Append(here, b)].candidates = <<>>
    BY <1>6, <1>8, FS_EmptySet, Zenon
  <2>3. 0 <= K
    BY RTConstants
  <2>4. \A p \in Paths :
          Cardinality(Keyed(buckets'[p].nodes)) <= K /\ buckets'[p].candidates = <<>>
    BY <1>8, <2>1, <2>2, <2>3, Zenon
  <2>5. QED
    BY <2>4, ZenonT(30) DEF IndexedWithinK, Keyed
<1>11. LeavesSound'
  <2>1. ASSUME NEW p \in leaves', p \in {Append(here, b) : b \in Bits}
        PROVE  /\ buckets'[p].prefix = p
               /\ \A i \in 1..Len(buckets'[p].nodes) :
                      Path(buckets'[p].nodes[i].node.id, Len(p)) = p
    <3>1. PICK b \in Bits : p = Append(here, b)
      BY <2>1
    <3>2. /\ buckets'[Append(here, b)].prefix = Append(here, b)
          /\ \A i \in 1..Len(buckets'[Append(here, b)].nodes) :
                Path(buckets'[Append(here, b)].nodes[i].node.id, Len(Append(here, b))) = Append(here, b)
      BY <1>6, <1>8, ZenonT(30)
    <3>3. QED
      BY <3>1, <3>2, Zenon
  <2>2. ASSUME NEW p \in leaves', p \notin {Append(here, b) : b \in Bits}
        PROVE  /\ buckets'[p].prefix = p
               /\ \A i \in 1..Len(buckets'[p].nodes) :
                      Path(buckets'[p].nodes[i].node.id, Len(p)) = p
    BY <1>1, <1>7, <1>8, <2>2, Zenon DEF BucketsInv, LeavesSound
  <2>3. QED
    BY <2>1, <2>2, Zenon DEF LeavesSound
<1>12. QED
  BY <1>9, <1>10, <1>11

(* The three steps that change a bucket's list. *)
LEMMA PushSound ==
    ASSUME MapInv, TreeInv, BucketsInv, Push
    PROVE  BucketsTyped' /\ IndexedWithinK' /\ LeavesSound'
<1>1. writer \in Writers /\ writer # None /\ writer.at = "push"
  BY DEF Push, WriterAt, MapInv, MapTyped
<1>2. /\ Here \in Paths /\ Len(Here) = writer.depth /\ writer.node \in Nodes
      /\ Path(writer.node.id, Len(Here)) = Here
  BY <1>1, HereIsAPath DEF Here
<1> DEFINE d == buckets[Here].nodes
           new == KeyedPush(d, writer.node)
<1>3. d \in Deques
  BY <1>2 DEF BucketsInv, BucketsTyped, Buckets
<1>4. Cardinality(Keyed(d)) <= K
  BY <1>2, Zenon DEF BucketsInv, IndexedWithinK, Keyed
<1>5. Cardinality(Keyed(d)) < K \/ HasKey(d, writer.node.id)
  BY <1>1 DEF BucketsInv, WriterHasRoom
<1>6. /\ new \in Deques /\ Cardinality(Keyed(new)) <= K
      /\ \A j \in 1..Len(new) : \/ new[j].node = writer.node
                               \/ \E i \in 1..Len(d) : new[j].node = d[i].node
  BY <1>2, <1>3, <1>4, <1>5, PushKeepsK, Zenon
<1>7. buckets' = [buckets EXCEPT ![Here].nodes = new] /\ leaves' = leaves
  BY DEF Push
<1>8. \A j \in 1..Len(new) : \/ Path(new[j].node.id, Len(Here)) = Here
                             \/ \E i \in 1..Len(d) : new[j].node = d[i].node
  BY <1>2, <1>6, Zenon
<1> HIDE DEF new
<1>9. QED
  BY <1>2, <1>6, <1>7, <1>8, NodesReplaced, Zenon DEF BucketsInv, TreeInv

LEMMA DeleteSound ==
    ASSUME MapInv, TreeInv, BucketsInv, RemoversTyped, NEW r \in Removers, Delete(r)
    PROVE  BucketsTyped' /\ IndexedWithinK' /\ LeavesSound' /\ WriterHasRoom'
<1> DEFINE p == remover[r].path
           id == remover[r].node.id
           d == buckets[p].nodes
           new == IF remover[r].inList THEN Unlist(d, id) ELSE Unindex(d, id)
<1>1. p \in Paths
  BY DEF RemoversTyped, Places
<1>2. d \in Deques
  BY <1>1 DEF BucketsInv, BucketsTyped, Buckets
<1>3. Drops(d, new, id)
  BY <1>2, UnlistDrops, UnindexDrops, Zenon
<1>4. buckets' = [buckets EXCEPT ![p].nodes = new] /\ leaves' = leaves /\ writer' = writer
  BY DEF Delete, caches
<1>5. Cardinality(Keyed(d)) <= K
  BY <1>1, Zenon DEF BucketsInv, IndexedWithinK, Keyed
<1> HIDE DEF new, p, id
<1>6. /\ new \in Deques
      /\ \A j \in 1..Len(new) : \E i \in 1..Len(d) : new[j].node = d[i].node
      /\ IF HasKey(d, id) THEN Cardinality(Keyed(new)) < Cardinality(Keyed(d))
                          ELSE Cardinality(Keyed(new)) <= Cardinality(Keyed(d))
      /\ \A other : other # id /\ HasKey(d, other) => HasKey(new, other)
      /\ Cardinality(Keyed(new)) \in Nat /\ Cardinality(Keyed(d)) \in Nat
  BY <1>2, <1>3, KeyedFinite, Zenon DEF Drops, From
<1>7. Cardinality(Keyed(new)) <= K
  BY <1>5, <1>6, RTConstants
<1>8. BucketsTyped' /\ IndexedWithinK' /\ LeavesSound'
  BY <1>1, <1>4, <1>6, <1>7, NodesReplaced, Zenon DEF BucketsInv, TreeInv
<1>9. WriterHasRoom'
  <2> SUFFICES ASSUME writer # None, writer.at \in {"bucket", "push"}
               PROVE  \/ Cardinality(Keyed(buckets'[Here].nodes)) < K
                      \/ HasKey(buckets'[Here].nodes, writer.node.id)
    BY <1>4 DEF WriterHasRoom, Here
  <2>1. Here \in Paths
    BY HereIsAPath DEF MapInv, MapTyped
  <2>2. \/ Cardinality(Keyed(buckets[Here].nodes)) < K
        \/ HasKey(buckets[Here].nodes, writer.node.id)
    BY DEF BucketsInv, WriterHasRoom
  <2>3. CASE Here # p
    <3>1. buckets'[Here] = buckets[Here]
      BY <1>4, <2>1, <2>3 DEF BucketsInv, BucketsTyped
    <3>2. QED
      BY <2>2, <3>1
  <2>4. CASE Here = p
    <3>1. buckets'[Here].nodes = new
      BY <1>1, <1>4, <2>4 DEF BucketsInv, BucketsTyped, Buckets
    <3>2. CASE Cardinality(Keyed(d)) < K
      BY <1>6, <2>4, <3>1, <3>2, RTConstants
    <3>3. CASE HasKey(d, writer.node.id) /\ writer.node.id = id
      BY <1>5, <1>6, <2>4, <3>1, <3>3, RTConstants
    <3>4. CASE HasKey(d, writer.node.id) /\ writer.node.id # id
      BY <1>6, <2>4, <3>1, <3>4, Zenon
    <3>5. QED
      BY <2>2, <2>4, <3>2, <3>3, <3>4
  <2>5. QED
    BY <2>3, <2>4
<1>10. QED
  BY <1>8, <1>9

(* Every other step leaves the buckets alone, and brings Insert to its     *)
(* bucket only where HasPlace holds.                                       *)
LEMMA BucketsLeftAlone ==
    ASSUME MapInv, TreeInv, BucketsInv, UNCHANGED tree,
           \/ writer' = writer
           \/ writer' = None
           \/ writer'.at \notin {"bucket", "push"}
           \/ ChooseBucket
           \/ FindKey
           \/ CheckNew
           \/ \E r \in Removers : Touch(r)
    PROVE  BucketsInv'
<1>1. BucketsTyped' /\ IndexedWithinK' /\ LeavesSound'
  BY Zenon DEF tree, BucketsInv, BucketsTyped, IndexedWithinK, LeavesSound
<1>2. WriterHasRoom'
  <2>1. CASE writer' = writer
    BY <2>1 DEF tree, BucketsInv, WriterHasRoom, Here
  <2>2. CASE writer' = None \/ writer'.at \notin {"bucket", "push"}
    BY <2>2 DEF WriterHasRoom
  <2>3. CASE FindKey \/ CheckNew
    <3>1. writer # None /\ writer \in Writers
      BY <2>3 DEF FindKey, CheckNew, WriterAt, MapInv, MapTyped
    <3>2. Here' = Here /\ writer'.node = writer.node /\ buckets' = buckets
      BY <2>3, <3>1 DEF FindKey, CheckNew, WriterGoesTo, Writers, Here, tree
    <3>3. CASE CheckNew
      BY <3>1, <3>2, <3>3 DEF BucketsInv, WriterHasRoom, CheckNew, WriterAt
    <3>4. CASE FindKey
      BY <3>1, <3>2, <3>4 DEF WriterHasRoom, FindKey
    <3>5. QED
      BY <2>3, <3>3, <3>4
  <2>4. CASE ChooseBucket
    <3>1. writer # None /\ writer \in Writers
      BY <2>4 DEF ChooseBucket, InLoop, MapInv, MapTyped
    <3>2. Here' = Here /\ writer'.node = writer.node /\ buckets' = buckets
      BY <2>4, <3>1 DEF ChooseBucket, WriterGoesTo, Writers, Here, tree
    <3>3. CASE HasPlace(Here)
      <4>1. Len(buckets[Here].nodes) < K
        BY <3>3 DEF HasPlace
      <4>2. buckets[Here].nodes \in Deques
        BY <3>1, HereIsAPath DEF BucketsInv, BucketsTyped, Buckets
      <4>3. Cardinality(Keyed(buckets[Here].nodes)) <= Len(buckets[Here].nodes)
        BY <4>2, KeyedAtMostLen
      <4>4. Len(buckets[Here].nodes) \in Nat /\ Cardinality(Keyed(buckets[Here].nodes)) \in Nat
        BY <4>2, KeyedFinite, ElementsOfSequence DEF Deques
      <4>5. Cardinality(Keyed(buckets[Here].nodes)) < K
        BY <4>1, <4>3, <4>4, RTConstants
      <4>6. QED
        BY <3>1, <3>2, <4>5 DEF WriterHasRoom
    <3>4. CASE ~HasPlace(Here)
      <4>1. writer'.at = "full"
        BY <2>4, <3>1, <3>4 DEF ChooseBucket, WriterGoesTo, Writers
      <4>2. QED
        BY <4>1 DEF WriterHasRoom
    <3>5. QED
      BY <3>3, <3>4
  <2>5. CASE \E r \in Removers : Touch(r)
    <3>1. CASE writer' = writer
      BY <3>1 DEF tree, BucketsInv, WriterHasRoom, Here
    <3>2. CASE writer' # writer
      <4>1. /\ writer \in Writers /\ writer.at = "unlist"
            /\ writer' = [writer EXCEPT !.inList = FALSE]
        BY <2>5, <3>2 DEF Touch, WriterAt, MapInv, MapTyped
      <4>2. writer'.at = "unlist"
        BY <4>1 DEF Writers
      <4>3. QED
        BY <4>2 DEF WriterHasRoom
    <3>3. QED
      BY <3>1, <3>2
  <2>6. QED
    BY <2>1, <2>2, <2>3, <2>4, <2>5
<1>3. QED
  BY <1>1, <1>2 DEF BucketsInv

LEMMA BucketsStep == TableInv /\ [Next]_vars => BucketsInv'
<1> SUFFICES ASSUME TableInv, [Next]_vars PROVE BucketsInv'
  OBVIOUS
<1> USE DEF TableInv
<1>1. CASE Push
  <2>1. WriterHasRoom'
    BY <1>1 DEF Push, WriterGoesTo, WriterHasRoom, WriterAt, MapInv, MapTyped, Writers
  <2>2. QED
    BY <1>1, <2>1, PushSound DEF BucketsInv
<1>2. CASE Full
  <2>1. writer' = None \/ writer'.at = "split"
    BY <1>2 DEF Full, Split, Candidate, WriterAt, WriterGoesTo, MapInv, MapTyped, Writers
  <2>2. WriterHasRoom'
    BY <2>1 DEF WriterHasRoom
  <2>3. QED
    BY <1>2, <2>2, SplitSound DEF BucketsInv
<1>3. CASE \E r \in Removers : Delete(r)
  BY <1>3, DeleteSound DEF BucketsInv
<1>4. CASE \/ \E n \in Nodes : InsertStart(n)
           \/ Descend \/ CacheNode \/ CacheBucket \/ Relist \/ FindCached \/ UnlistParent
           \/ PushLeft \/ PushRight \/ InsertFails
  <2>1. writer' = None \/ writer'.at \notin {"bucket", "push"}
    <3>1. CASE Descend \/ CacheNode \/ CacheBucket \/ PushLeft
      <4>1. writer \in Writers
        BY <3>1 DEF Descend, CacheNode, CacheBucket, PushLeft, InLoop, WriterAt, MapInv, MapTyped
      <4>2. QED
        BY <3>1, <4>1 DEF Descend, CacheNode, CacheBucket, PushLeft, InLoop, GoDown, WriterGoesTo,
           WriterAt, Writers
    <3>2. CASE FindCached \/ UnlistParent \/ PushRight
      <4>1. writer \in Writers
        BY <3>2 DEF FindCached, UnlistParent, PushRight, WriterAt, MapInv, MapTyped
      <4>2. QED
        BY <3>2, <4>1 DEF FindCached, UnlistParent, PushRight, Writers
    <3>3. CASE \E n \in Nodes : InsertStart(n)
      BY <3>3 DEF InsertStart
    <3>4. QED
      BY <1>4, <3>1, <3>2, <3>3 DEF Relist, InsertFails
  <2>2. UNCHANGED tree
    BY <1>4 DEF InsertStart, Descend, CacheNode, CacheBucket, Relist, FindCached, UnlistParent,
       PushLeft, PushRight, InsertFails
  <2>3. QED
    BY <2>1, <2>2, BucketsLeftAlone
<1>5. CASE ChooseBucket \/ FindKey \/ CheckNew
  BY <1>5, BucketsLeftAlone DEF ChooseBucket, FindKey, CheckNew
<1>6. CASE \E r \in Removers : Find(r) \/ ReadIndex(r) \/ Uncache(r) \/ RelistTouched(r)
  <2>1. UNCHANGED tree /\ writer' = writer
    BY <1>6 DEF Find, ReadIndex, Uncache, RelistTouched
  <2>2. QED
    BY <2>1, BucketsLeftAlone
<1>7. CASE \E r \in Removers : Touch(r)
  BY <1>7, BucketsLeftAlone DEF Touch
<1>8. CASE UNCHANGED vars
  <2>1. UNCHANGED tree /\ writer' = writer
    BY <1>8 DEF vars, tree
  <2>2. QED
    BY <2>1, BucketsLeftAlone
<1>9. QED
  BY <1>1, <1>2, <1>3, <1>4, <1>5, <1>6, <1>7, <1>8 DEF Next, InsertStep, RemoveStep

(* What is taken off cachedKBuckets or put on it is the bucket of a path. *)
LEMMA CachedChanged ==
    ASSUME CachedTyped, NEW p \in Paths,
           \/ cachedKBuckets' = Unlisted(p)
           \/ cachedKBuckets' = Outdated(p)
           \/ cachedKBuckets' = Listing(p)
    PROVE  CachedTyped'
<1>1. cachedKBuckets \subseteq [path : Paths, keyed : BOOLEAN]
  BY DEF CachedTyped
<1>2. \A b \in BOOLEAN : Element(p, b) \in [path : Paths, keyed : BOOLEAN]
  BY DEF Element
<1>3. CASE cachedKBuckets' = Unlisted(p)
  BY <1>1, <1>3 DEF CachedTyped, Unlisted
<1>4. CASE cachedKBuckets' = Outdated(p)
  <2>1. ASSUME NEW e \in cachedKBuckets'
        PROVE  e \in [path : Paths, keyed : BOOLEAN]
    <3>1. PICK f \in cachedKBuckets : e = IF f = Element(p, TRUE) THEN Element(p, FALSE) ELSE f
      BY <1>4 DEF Outdated
    <3>2. QED
      BY <1>1, <1>2, <3>1
  <2>2. QED
    BY <2>1 DEF CachedTyped
<1>5. CASE cachedKBuckets' = Listing(p)
  BY <1>1, <1>2, <1>5 DEF CachedTyped, Listing
<1>6. QED
  BY <1>3, <1>4, <1>5

LEMMA CachedStep == TableInv /\ [Next]_vars => CachedTyped'
<1> SUFFICES ASSUME TableInv, [Next]_vars PROVE CachedTyped'
  OBVIOUS
<1>1. CASE cachedKBuckets' = cachedKBuckets
  BY <1>1 DEF TableInv, CachedTyped
<1>2. CASE CacheBucket \/ Relist \/ UnlistParent
  <2>1. Here \in Paths
    BY <1>2, HereIsAPath DEF CacheBucket, Relist, UnlistParent, WriterAt, TableInv, MapInv, MapTyped
  <2>2. QED
    BY <1>2, <2>1, CachedChanged DEF CacheBucket, Relist, UnlistParent, TableInv
<1>3. CASE PushLeft \/ PushRight
  <2>1. writer \in Writers /\ writer.depth < MaxPrefixLength
    BY <1>3 DEF PushLeft, PushRight, WriterAt, TableInv, MapInv, MapTyped, BitLeft, Splitting
  <2>2. Here \in Seq(Bits) /\ Len(Here) = writer.depth
    BY <2>1, HereIsAPath
  <2>3. \A b \in Bits : Append(Here, b) \in Paths
    <3> TAKE b \in Bits
    <3>1. Append(Here, b) \in Seq(Bits) /\ Len(Append(Here, b)) = writer.depth + 1
      BY <2>2
    <3>2. Len(Append(Here, b)) <= MaxPrefixLength
      BY <2>1, <3>1, RTConstants DEF Writers
    <3>3. QED
      BY <3>1, <3>2, PathsAreSequences
  <2>4. Append(Here, 0) \in Paths /\ Append(Here, 1) \in Paths
    BY <2>3 DEF Bits
  <2>5. QED
    BY <1>3, <2>4, CachedChanged DEF PushLeft, PushRight, TableInv
<1>4. CASE \E r \in Removers : Touch(r) \/ RelistTouched(r)
  <2>1. PICK r \in Removers : Touch(r) \/ RelistTouched(r)
    BY <1>4
  <2>2. remover[r].path \in Paths
    BY DEF TableInv, RemoversTyped, Places
  <2>3. QED
    BY <2>1, <2>2, CachedChanged DEF Touch, RelistTouched, TableInv
<1>5. CASE \/ \E n \in Nodes : InsertStart(n)
           \/ Descend \/ ChooseBucket \/ FindKey \/ CheckNew \/ Push \/ CacheNode \/ Full
           \/ FindCached \/ InsertFails
  BY <1>1, <1>5 DEF InsertStart, Descend, ChooseBucket, FindKey, CheckNew, Push, CacheNode, Full,
     FindCached, InsertFails, caches
<1>6. CASE \E r \in Removers : Find(r) \/ ReadIndex(r) \/ Delete(r) \/ Uncache(r)
  BY <1>1, <1>6 DEF Find, ReadIndex, Delete, Uncache, caches
<1>7. CASE UNCHANGED vars
  BY <1>1, <1>7 DEF vars
<1>8. QED
  BY <1>2, <1>3, <1>4, <1>5, <1>6, <1>7 DEF Next, InsertStep, RemoveStep

LEMMA OrphanedTyped ==
    ASSUME RemoversTyped, NEW p, NEW id
    PROVE  Orphaned(p, id) \in [Removers -> Places]
BY DEF RemoversTyped, Orphaned, Places

LEMMA RemoversStep == TableInv /\ [Next]_vars => RemoversTyped'
<1> SUFFICES ASSUME TableInv, [Next]_vars PROVE remover' \in [Removers -> Places]
  BY DEF RemoversTyped
<1>0. remover \in [Removers -> Places]
  BY DEF TableInv, RemoversTyped
<1>1. CASE Push
  BY <1>1, OrphanedTyped DEF Push, TableInv
<1>2. ASSUME NEW r \in Removers, Find(r)
      PROVE  remover' \in [Removers -> Places]
  <2>1. PICK n \in Nodes : \E e \in Found(n.id) : remover' =
                      [remover EXCEPT ![r] =
                        [at |-> "found", node |-> e.node, path |-> e.path, inList |-> FALSE]]
    BY <1>2 DEF Find
  <2>2. PICK e \in Found(n.id) :
          remover' = [remover EXCEPT ![r] =
                        [at |-> "found", node |-> e.node, path |-> e.path, inList |-> FALSE]]
    BY <2>1
  <2>3. e.node \in Nodes /\ e.path \in leaves
    BY DEF Found, LeafOf
  <2>4. e.path \in Paths
    BY <2>3, PathsAreSequences DEF TableInv, TreeInv, LeavesTyped
  <2>5. [at |-> "found", node |-> e.node, path |-> e.path, inList |-> FALSE] \in Places
    BY <2>3, <2>4 DEF Places
  <2>6. QED
    BY <1>0, <2>2, <2>5
<1>3. ASSUME NEW r \in Removers, Delete(r)
      PROVE  remover' \in [Removers -> Places]
  <2>1. Orphaned(remover[r].path, remover[r].node.id) \in [Removers -> Places]
    BY OrphanedTyped DEF TableInv
  <2>2. remover' = [Orphaned(remover[r].path, remover[r].node.id)
                      EXCEPT ![r].at = "replaced", ![r].inList = FALSE]
    BY <1>3 DEF Delete
  <2> DEFINE o == Orphaned(remover[r].path, remover[r].node.id)
  <2> HIDE DEF o
  <2>3. o[r] \in Places /\ remover' = [o EXCEPT ![r] = [@ EXCEPT !.at = "replaced", !.inList = FALSE]]
    BY <2>1, <2>2 DEF o
  <2>4. [o[r] EXCEPT !.at = "replaced", !.inList = FALSE] \in Places
    BY <2>3 DEF Places
  <2>5. o \in [Removers -> Places]
    BY <2>1 DEF o
  <2>6. QED
    BY <2>3, <2>4, <2>5
<1>4. ASSUME NEW r \in Removers, ReadIndex(r) \/ Uncache(r) \/ Touch(r)
      PROVE  remover' \in [Removers -> Places]
  BY <1>0, <1>4 DEF ReadIndex, Uncache, Touch, RemoverGoesTo, Places
<1>5. ASSUME NEW r \in Removers, RelistTouched(r)
      PROVE  remover' \in [Removers -> Places]
  <2>1. Idle \in Places
    BY RootIsAPath DEF Idle, Places
  <2>2. QED
    BY <1>0, <1>5, <2>1 DEF RelistTouched
<1>6. CASE \/ \E n \in Nodes : InsertStart(n)
           \/ Descend \/ ChooseBucket \/ FindKey \/ CheckNew \/ CacheNode \/ CacheBucket \/ Relist
           \/ Full \/ FindCached \/ UnlistParent \/ PushLeft \/ PushRight \/ InsertFails
  BY <1>0, <1>6 DEF InsertStart, Descend, ChooseBucket, FindKey, CheckNew, CacheNode, CacheBucket,
     Relist, Full, FindCached, UnlistParent, PushLeft, PushRight, InsertFails
<1>7. CASE UNCHANGED vars
  BY <1>0, <1>7 DEF vars
<1>8. QED
  BY <1>1, <1>2, <1>3, <1>4, <1>5, <1>6, <1>7 DEF Next, InsertStep, RemoveStep

LEMMA TableAtFirst == Init => TableInv
<1> SUFFICES ASSUME Init PROVE TableInv
  OBVIOUS
<1>1. MapInv /\ TreeInv
  BY TreeAtFirst
<1>2. <<>> \in Paths /\ <<>> \in Deques /\ Len(<<>>) = 0
  BY RootIsAPath DEF Deques
<1>3. EmptyBucket \in Buckets
  BY <1>2 DEF EmptyBucket, Buckets
<1>4. BucketsTyped /\ RemoversTyped /\ CachedTyped
  BY <1>2, <1>3 DEF Init, BucketsTyped, RemoversTyped, Places, Idle, CachedTyped, Element
<1>5. \A p \in Paths : buckets[p] = EmptyBucket
  BY DEF Init
<1>6. IndexedWithinK
  <2>1. Keyed(<<>>) = {}
    <3>1. \A i \in 1..Len(<<>>) : FALSE
      BY <1>2
    <3>2. QED
      BY <3>1, Zenon DEF Keyed
  <2>2. Cardinality(Keyed(<<>>)) = 0 /\ 0 <= K
    <3>1. 0 <= K
      BY RTConstants
    <3>2. QED
      BY <2>1, <3>1, FS_EmptySet, Zenon
  <2>3. EmptyBucket.nodes = <<>> /\ EmptyBucket.candidates = <<>>
    BY DEF EmptyBucket
  <2>4. QED
    BY <1>5, <2>2, <2>3, Zenon DEF IndexedWithinK, Keyed
<1>7. LeavesSound
  BY <1>2, <1>5 DEF LeavesSound, EmptyBucket, Init
<1>8. WriterHasRoom
  BY DEF Init, WriterHasRoom
<1>9. QED
  BY <1>1, <1>4, <1>6, <1>7, <1>8 DEF TableInv, BucketsInv

(* TableInv is inductive: what the tree, the map, the buckets, the Insert  *)
(* under way and the removals keep together.                               *)
LEMMA TableInvHolds == Spec => []TableInv
<1>1. TableInv /\ [Next]_vars => TableInv'
  BY TreeKept, BucketsStep, RemoversStep, CachedStep DEF TableInv
<1>2. QED
  BY TableAtFirst, <1>1, PTL DEF Spec

(* Every variable keeps its type, paths and lists of the buckets included. *)
THEOREM TableTypeCorrect == Spec => []TypeOK
<1>1. TableInv => TypeOK
  <2> SUFFICES ASSUME TableInv PROVE TypeOK
    OBVIOUS
  <2>1. leaves \subseteq Paths
    BY PathsAreSequences DEF TableInv, TreeInv, LeavesTyped
  <2>2. QED
    BY <2>1 DEF TypeOK, TableInv, BucketsInv, BucketsTyped, Buckets, RemoversTyped, CachedTyped,
           Places, MapInv, MapTyped, Writers, Splitting, Inserts
<1>2. QED
  BY <1>1, TableInvHolds, PTL

(* No bucket's index ever holds more than k nodes, and none ever keeps a   *)
(* candidate, however many removals meet the test and the Push of Insert.  *)
THEOREM BucketsHoldAtMostK == Spec => []IndexedWithinK
<1>1. TableInv => IndexedWithinK
  BY DEF TableInv, BucketsInv
<1>2. QED
  BY <1>1, TableInvHolds, PTL

(* The way down the bits of an id leads to the only leaf whose bucket may  *)
(* hold it, whose prefix is the way.                                       *)
THEOREM LeavesPartition == Spec => []LeavesPartitionIds
<1>1. TableInv => LeavesPartitionIds
  <2> SUFFICES ASSUME TableInv PROVE LeavesPartitionIds
    OBVIOUS
  <2>1. \A n \in Nodes : Cardinality({p \in leaves : p = Path(n.id, Len(p))}) = 1
    BY FS_Singleton DEF TableInv, TreeInv, OneLeaf, LeavesOn
  <2>2. QED
    BY <2>1, Zenon DEF TableInv, BucketsInv, LeavesSound, LeavesPartitionIds
<1>2. QED
  BY <1>1, TableInvHolds, PTL

-----------------------------------------------------------------------------
(* The buckets Fresh visits.                                               *)

(* The two halves of ToBePushed. *)
RemoverPushes(p) == \E r \in Removers : RemoverAt(r, "relist") /\ remover[r].path = p
WriterPushes(p) ==
    \/ WriterAt("relist") /\ p = Here
    \/ (WriterAt("split") \/ WriterAt("unlist") \/ WriterAt("left")) /\ p \in Children
    \/ WriterAt("right") /\ p = Append(Here, 1)
(* What Insert is about to delete from the deque is no leaf any more. *)
SplitDone == {"split", "unlist", "left", "right"}
ParentSplit == writer # None /\ writer.at \in SplitDone => Here \notin leaves
CacheInv == TableInv /\ ParentSplit /\ LeavesAreCached

LEMMA NoWriter == None \notin Writers
BY RTConstants DEF Inserts, Writers, Splitting

(* A bucket that a call has yet to push stays so until the push lists it.  *)
LEMMA RemoverStillPushes ==
    ASSUME TableInv, [Next]_vars, NEW p, RemoverPushes(p)
    PROVE  RemoverPushes(p)' \/ p \in Listed'
<1>1. PICK r \in Removers : remover[r].at = "relist" /\ remover[r].path = p
  BY DEF RemoverPushes, RemoverAt
<1>2. ASSUME remover'[r] = remover[r] PROVE RemoverPushes(p)'
  BY <1>1, <1>2 DEF RemoverPushes, RemoverAt
<1>3. remover \in [Removers -> Places]
  BY DEF TableInv, RemoversTyped
<1>4. \A q, id : Orphaned(q, id) \in [Removers -> Places] /\ Orphaned(q, id)[r] = remover[r]
  BY <1>1, <1>3, OrphanedTyped DEF Orphaned, TableInv
<1>5. CASE Push
  BY <1>2, <1>4, <1>5 DEF Push
<1>6. ASSUME NEW s \in Removers, s # r, RemoveStep(s) PROVE remover'[r] = remover[r]
  <2>1. CASE Delete(s)
    BY <1>4, <1>6, <2>1 DEF Delete
  <2>2. CASE Find(s) \/ ReadIndex(s) \/ Uncache(s) \/ Touch(s) \/ RelistTouched(s)
    BY <1>3, <1>6, <2>2 DEF Find, ReadIndex, Uncache, Touch, RelistTouched, RemoverGoesTo
  <2>3. QED
    BY <1>6, <2>1, <2>2 DEF RemoveStep
<1>7. CASE RemoveStep(r)
  <2>1. RelistTouched(r)
    BY <1>1, <1>7 DEF RemoveStep, Find, ReadIndex, Delete, Uncache, Touch, RemoverAt
  <2>2. Element(p, TRUE) \in cachedKBuckets'
    BY <1>1, <2>1 DEF RelistTouched, Listing
  <2>3. QED
    BY <2>2 DEF Listed, Element
<1>8. CASE \/ \E n \in Nodes : InsertStart(n)
           \/ InsertStep /\ ~Push
           \/ UNCHANGED vars
  <2>1. remover' = remover
    BY <1>8 DEF InsertStep, InsertStart, Descend, ChooseBucket, FindKey, CheckNew, CacheNode,
       CacheBucket, Relist, Full, FindCached, UnlistParent, PushLeft, PushRight, InsertFails, vars
  <2>2. QED
    BY <1>2, <2>1
<1>9. QED
  BY <1>2, <1>5, <1>6, <1>7, <1>8 DEF Next, InsertStep

LEMMA WriterStillPushes ==
    ASSUME TableInv, [Next]_vars, NEW p, WriterPushes(p)
    PROVE  WriterPushes(p)' \/ p \in Listed'
<1>1. writer \in Writers /\ writer # None /\ writer.at \in {"relist"} \cup SplitDone
  BY DEF WriterPushes, WriterAt, TableInv, MapInv, MapTyped, SplitDone
<1>2. ASSUME writer' # None, writer'.node = writer.node, writer'.depth = writer.depth
      PROVE  Here' = Here /\ Children' = Children
  BY <1>2 DEF Here, Children
<1>3. CASE Relist
  <2>1. p = Here /\ Element(p, TRUE) \in cachedKBuckets'
    BY <1>3 DEF Relist, WriterPushes, WriterAt, Listing
  <2>2. QED
    BY <2>1 DEF Listed, Element
<1>4. CASE FindCached
  <2>1. /\ writer' # None /\ writer'.node = writer.node /\ writer'.depth = writer.depth
        /\ writer'.at \in {"unlist", "left"}
    BY <1>1, <1>4, NoWriter DEF FindCached, Writers, Splitting
  <2>2. p \in Children
    BY <1>4 DEF FindCached, WriterPushes, WriterAt
  <2>3. QED
    BY <1>2, <2>1, <2>2 DEF WriterPushes, WriterAt
<1>5. CASE UnlistParent
  <2>1. /\ writer' # None /\ writer'.node = writer.node /\ writer'.depth = writer.depth
        /\ writer'.at = "left"
    BY <1>1, <1>5, NoWriter DEF UnlistParent, Writers, Splitting
  <2>2. p \in Children
    BY <1>5 DEF UnlistParent, WriterPushes, WriterAt
  <2>3. QED
    BY <1>2, <2>1, <2>2 DEF WriterPushes, WriterAt
<1>6. CASE PushLeft
  <2>1. /\ writer' # None /\ writer'.node = writer.node /\ writer'.depth = writer.depth
        /\ writer'.at = "right"
    BY <1>1, <1>6, NoWriter DEF PushLeft, WriterGoesTo, Writers, Splitting
  <2>2. p = Append(Here, 0) \/ p = Append(Here, 1)
    BY <1>6 DEF PushLeft, WriterPushes, WriterAt, Children, Bits
  <2>3. CASE p = Append(Here, 0)
    <3>1. Element(p, TRUE) \in cachedKBuckets'
      BY <1>6, <2>3 DEF PushLeft, Listing
    <3>2. QED
      BY <3>1 DEF Listed, Element
  <2>4. CASE p = Append(Here, 1)
    BY <1>2, <2>1, <2>4 DEF WriterPushes, WriterAt
  <2>5. QED
    BY <2>2, <2>3, <2>4
<1>7. CASE PushRight
  <2>1. p = Append(Here, 1) /\ Element(p, TRUE) \in cachedKBuckets'
    BY <1>7 DEF PushRight, WriterPushes, WriterAt, Listing
  <2>2. QED
    BY <2>1 DEF Listed, Element
<1>8. CASE \E r \in Removers : Touch(r)
  <2>1. PICK r \in Removers : Touch(r)
    BY <1>8
  <2>2. CASE writer' = writer
    BY <2>2 DEF WriterPushes, WriterAt, Children, Here
  <2>3. CASE writer' # writer
    <3>1. writer.at = "unlist" /\ writer' = [writer EXCEPT !.inList = FALSE]
      BY <2>1, <2>3 DEF Touch, WriterAt
    <3>2. /\ writer' # None /\ writer'.node = writer.node /\ writer'.depth = writer.depth
          /\ writer'.at = "unlist"
      BY <1>1, <3>1, NoWriter DEF Writers, Splitting
    <3>3. p \in Children
      BY <3>1 DEF WriterPushes, WriterAt
    <3>4. QED
      BY <1>2, <3>2, <3>3 DEF WriterPushes, WriterAt
  <2>4. QED
    BY <2>2, <2>3
<1>9. CASE \/ \E r \in Removers : RemoveStep(r) /\ ~Touch(r)
           \/ UNCHANGED vars
  <2>1. writer' = writer
    BY <1>9 DEF RemoveStep, Find, ReadIndex, Delete, Uncache, RelistTouched, vars
  <2>2. QED
    BY <2>1 DEF WriterPushes, WriterAt, Children, Here
<1>10. CASE \/ \E n \in Nodes : InsertStart(n)
            \/ Descend \/ ChooseBucket \/ FindKey \/ CheckNew \/ Push \/ CacheNode \/ CacheBucket
            \/ Full \/ InsertFails
  BY <1>1, <1>10 DEF InsertStart, Descend, ChooseBucket, FindKey, CheckNew, Push, CacheNode,
     CacheBucket, Full, InsertFails, InLoop, WriterAt, SplitDone
<1>11. QED
  BY <1>3, <1>4, <1>5, <1>6, <1>7, <1>8, <1>9, <1>10 DEF Next, InsertStep, RemoveStep

(* What leaves the list is a bucket that the same call pushes next, or the *)
(* parent that is no leaf.                                                 *)
LEMMA ListedStill ==
    ASSUME TableInv, ParentSplit, [Next]_vars, NEW p \in leaves, p \in Listed
    PROVE  p \in Listed' \/ WriterPushes(p)' \/ RemoverPushes(p)'
<1>1. PICK e \in cachedKBuckets : e.path = p
  BY DEF Listed
<1>2. ASSUME e \in cachedKBuckets' PROVE p \in Listed'
  BY <1>1, <1>2 DEF Listed
<1>3. \A q, k : Element(q, k).path = q
  BY DEF Element
<1>4. CASE CacheBucket
  <2>1. writer \in Writers
    BY <1>4 DEF CacheBucket, WriterAt, TableInv, MapInv, MapTyped
  <2>2. /\ writer' # None /\ writer'.node = writer.node /\ writer'.depth = writer.depth
        /\ writer'.at = "relist"
    BY <1>4, <2>1, NoWriter DEF CacheBucket, WriterGoesTo, Writers, Splitting
  <2>3. CASE p = Here
    BY <2>2, <2>3 DEF WriterPushes, WriterAt, Here
  <2>4. CASE p # Here
    BY <1>1, <1>2, <1>3, <1>4, <2>4 DEF CacheBucket, Unlisted
  <2>5. QED
    BY <2>3, <2>4
<1>5. CASE \E r \in Removers : Touch(r)
  <2>1. PICK r \in Removers : Touch(r)
    BY <1>5
  <2>2. CASE p = remover[r].path
    <3>1. remover'[r].at = "relist" /\ remover'[r].path = p
      BY <2>1, <2>2 DEF Touch, RemoverGoesTo, TableInv, RemoversTyped, Places
    <3>2. QED
      BY <3>1 DEF RemoverPushes, RemoverAt
  <2>3. CASE p # remover[r].path
    BY <1>1, <1>2, <1>3, <2>1, <2>3 DEF Touch, Unlisted
  <2>4. QED
    BY <2>2, <2>3
<1>6. CASE UnlistParent
  <2>1. p # Here
    BY <1>6 DEF UnlistParent, WriterAt, ParentSplit, SplitDone
  <2>2. e # Element(Here, TRUE)
    BY <1>1, <1>3, <2>1
  <2>3. e \in cachedKBuckets'
    BY <1>6, <2>2 DEF UnlistParent, Unlisted, Outdated
  <2>4. QED
    BY <1>2, <2>3
<1>7. CASE Relist \/ PushLeft \/ PushRight \/ \E r \in Removers : RelistTouched(r)
  BY <1>2, <1>7 DEF Relist, PushLeft, PushRight, RelistTouched, Listing
<1>8. CASE \/ \E n \in Nodes : InsertStart(n)
           \/ Descend \/ ChooseBucket \/ FindKey \/ CheckNew \/ Push \/ CacheNode \/ Full
           \/ FindCached \/ InsertFails
  BY <1>2, <1>8 DEF InsertStart, Descend, ChooseBucket, FindKey, CheckNew, Push, CacheNode, Full,
     FindCached, InsertFails, caches
<1>9. CASE \E r \in Removers : Find(r) \/ ReadIndex(r) \/ Delete(r) \/ Uncache(r)
  BY <1>2, <1>9 DEF Find, ReadIndex, Delete, Uncache, caches
<1>10. CASE UNCHANGED vars
  BY <1>2, <1>10 DEF vars
<1>11. QED
  BY <1>4, <1>5, <1>6, <1>7, <1>8, <1>9, <1>10 DEF Next, InsertStep, RemoveStep

(* The children of a split take the place of the parent, which is no       *)
(* longer a leaf; the later steps of that Insert stand at that parent.     *)
LEMMA ParentSplitKept ==
    ASSUME TableInv, ParentSplit, [Next]_vars
    PROVE  ParentSplit'
<1>1. writer # None => writer \in Writers
  BY DEF TableInv, MapInv, MapTyped
<1>2. ASSUME writer # None, writer.at \in SplitDone, leaves' = leaves,
             writer'.node = writer.node, writer'.depth = writer.depth
      PROVE  ParentSplit'
  BY <1>2 DEF ParentSplit, Here
<1>3. CASE Full
  <2>1. CASE SamePrefix
    <3>1. /\ writer \in Writers /\ WriterGoesTo("split")
          /\ leaves' = (leaves \ {Here}) \cup Children
      BY <1>1, <1>3, <2>1 DEF Full, WriterAt, Split
    <3>2. writer'.node = writer.node /\ writer'.depth = writer.depth
      BY <3>1 DEF WriterGoesTo, Writers, Splitting
    <3>3. Here' = Here /\ Here \in Seq(Bits)
      BY <3>1, <3>2, HereIsAPath DEF Here
    <3>4. \A b \in Bits : Append(Here, b) # Here
      <4> TAKE b \in Bits
      <4>1. Len(Append(Here, b)) = Len(Here) + 1 /\ Len(Here) \in Nat
        BY <3>3
      <4>2. QED
        BY <4>1
    <3>5. Here \notin leaves'
      BY <3>1, <3>4 DEF Children
    <3>6. QED
      BY <3>3, <3>5 DEF ParentSplit
  <2>2. CASE ~SamePrefix
    BY <1>3, <2>2 DEF Full, Candidate, ParentSplit
  <2>3. QED
    BY <2>1, <2>2
<1>4. CASE FindCached \/ UnlistParent \/ PushLeft
  <2>1. writer \in Writers /\ writer # None /\ writer.at \in SplitDone /\ leaves' = leaves
    BY <1>1, <1>4 DEF FindCached, UnlistParent, PushLeft, WriterAt, SplitDone, tree
  <2>2. writer'.node = writer.node /\ writer'.depth = writer.depth
    BY <1>4, <2>1 DEF FindCached, UnlistParent, PushLeft, WriterGoesTo, Writers, Splitting
  <2>3. QED
    BY <1>2, <2>1, <2>2
<1>5. CASE Descend \/ ChooseBucket \/ FindKey \/ CheckNew \/ Push \/ CacheNode \/ CacheBucket
           \/ PushRight
  <2>1. writer \in Writers
    BY <1>1, <1>5 DEF Descend, ChooseBucket, FindKey, CheckNew, Push, CacheNode, CacheBucket,
       PushRight, InLoop, WriterAt
  <2>2. writer'.at \notin SplitDone
    BY <1>5, <2>1 DEF Descend, ChooseBucket, FindKey, CheckNew, Push, CacheNode, CacheBucket,
       PushRight, InLoop, WriterAt, GoDown, WriterGoesTo, Writers, Splitting, SplitDone
  <2>3. QED
    BY <2>2 DEF ParentSplit
<1>6. CASE Relist \/ InsertFails \/ \E n \in Nodes : InsertStart(n)
  <2>1. writer' = None \/ writer'.at = "loop"
    <3>1. CASE \E n \in Nodes : InsertStart(n)
      <4>1. PICK n \in Nodes : writer' = [node |-> n, depth |-> 0, at |-> "loop",
                                         isNew |-> FALSE, inList |-> FALSE]
        BY <3>1 DEF InsertStart
      <4>2. QED
        BY <4>1
    <3>2. CASE Relist \/ InsertFails
      BY <3>2 DEF Relist, InsertFails
    <3>3. QED
      BY <1>6, <3>1, <3>2
  <2>2. QED
    BY <2>1 DEF ParentSplit, SplitDone
<1>7. CASE \E r \in Removers : Touch(r)
  <2>1. PICK r \in Removers : Touch(r)
    BY <1>7
  <2>2. CASE writer' = writer
    BY <2>1, <2>2 DEF Touch, tree, ParentSplit, Here
  <2>3. CASE writer' # writer
    <3>1. /\ writer \in Writers /\ writer # None /\ writer.at = "unlist" /\ leaves' = leaves
          /\ writer' = [writer EXCEPT !.inList = FALSE]
      BY <1>1, <2>1, <2>3 DEF Touch, WriterAt, tree
    <3>2. writer'.node = writer.node /\ writer'.depth = writer.depth
      BY <3>1 DEF Writers, Splitting
    <3>3. QED
      BY <1>2, <3>1, <3>2 DEF SplitDone
  <2>4. QED
    BY <2>2, <2>3
<1>8. CASE \/ \E r \in Removers : RemoveStep(r) /\ ~Touch(r)
           \/ UNCHANGED vars
  <2>1. writer' = writer /\ leaves' = leaves
    BY <1>8 DEF RemoveStep, Find, ReadIndex, Delete, Uncache, RelistTouched, vars, tree
  <2>2. QED
    BY <2>1 DEF ParentSplit, Here
<1>9. QED
  BY <1>3, <1>4, <1>5, <1>6, <1>7, <1>8 DEF Next, InsertStep, RemoveStep

LEMMA LeavesCachedKept ==
    ASSUME CacheInv, [Next]_vars
    PROVE  LeavesAreCached'
<1> USE DEF CacheInv
<1>1. \A p : ToBePushed(p) <=> RemoverPushes(p) \/ WriterPushes(p)
  BY DEF ToBePushed, RemoverPushes, WriterPushes
<1>2. \A p : ToBePushed(p)' <=> RemoverPushes(p)' \/ WriterPushes(p)'
  BY DEF ToBePushed, RemoverPushes, WriterPushes
<1>3. ASSUME NEW p \in leaves
      PROVE  p \in Listed' \/ ToBePushed(p)'
  <2>1. p \in Listed \/ RemoverPushes(p) \/ WriterPushes(p)
    BY <1>1 DEF LeavesAreCached
  <2>2. p \in Listed' \/ RemoverPushes(p)' \/ WriterPushes(p)'
    BY <2>1, ListedStill, RemoverStillPushes, WriterStillPushes
  <2>3. QED
    BY <1>2, <2>2
<1>4. ASSUME Full, Split, WriterAt("full"), leaves' = (leaves \ {Here}) \cup Children,
             NEW p \in Children
      PROVE  ToBePushed(p)'
  <2>1. writer \in Writers
    BY <1>4 DEF WriterAt, TableInv, MapInv, MapTyped
  <2>2. /\ writer' \in Writers /\ writer'.at = "split"
        /\ writer'.node = writer.node /\ writer'.depth = writer.depth
    BY <1>4, <2>1 DEF Split, WriterGoesTo, Writers, Splitting
  <2>3. Children' = Children
    BY <2>2 DEF Children, Here
  <2>4. QED
    BY <2>2, <2>3, NoWriter DEF ToBePushed, WriterAt
<1>5. QED
  BY <1>3, <1>4, LeavesSplit DEF LeavesAreCached

(* Every leaf's bucket is among those Fresh visits or a call under way has *)
(* yet to push it, however many removals push a bucket anew while Insert   *)
(* deletes it from the deque and pushes its children.                      *)
THEOREM EveryLeafCached == Spec => []LeavesAreCached
<1>1. Init => CacheInv
  <2> SUFFICES ASSUME Init PROVE ParentSplit /\ LeavesAreCached
    BY TableAtFirst DEF CacheInv
  <2>1. <<>> \in Listed
    BY DEF Init, Listed, Element
  <2>2. QED
    BY <2>1 DEF Init, ParentSplit, LeavesAreCached
<1>2. CacheInv /\ [Next]_vars => CacheInv'
  <2>1. TableInv /\ [Next]_vars => TableInv'
    BY TreeKept, BucketsStep, RemoversStep, CachedStep DEF TableInv
  <2>2. QED
    BY <2>1, ParentSplitKept, LeavesCachedKept DEF CacheInv
<1>3. CacheInv => LeavesAreCached
  BY DEF CacheInv
<1>4. QED
  BY <1>1, <1>2, <1>3, PTL DEF Spec
=============================================================================
