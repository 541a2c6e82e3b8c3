----------------------------- MODULE LinkedList ------------------------------
(***************************************************************************)
(* list.c: lists of nodes in rings of two directions.  The nil node of a   *)
(* list is inside the list and stands for it here; a node carries its own  *)
(* data.  A node comes from malloc and goes back to free.                  *)
(***************************************************************************)
EXTENDS Integers, FiniteSets

CONSTANTS
    Lists,    \* the lists, and their nil nodes
    Nodes,    \* the memory of list_insert
    Free      \* the place of a node in no list

ASSUME LLConstants ==
    /\ IsFiniteSet(Nodes)
    /\ Lists \cap Nodes = {}
    /\ Free \notin Lists

Cells == Lists \cup Nodes

VARIABLES
    nxt,      \* _nxt_node
    pre,      \* _pre_node
    size,     \* _list_size
    place     \* the list a caller knows a node to be in

vars == <<nxt, pre, size, place>>

In(l) == {n \in Nodes : place[n] = l}

(* list_init on each list.  A free node points to itself, for no code      *)
(* looks at it.                                                            *)
Init ==
    /\ nxt = [c \in Cells |-> c]
    /\ pre = [c \in Cells |-> c]
    /\ size = [l \in Lists |-> 0]
    /\ place = [n \in Nodes |-> Free]

ListInsert(l, n, before) ==
    /\ place[n] = Free
    /\ before \in In(l) \cup {l}
    /\ nxt' = [nxt EXCEPT ![n] = before, ![pre[before]] = n]
    /\ pre' = [pre EXCEPT ![n] = pre[before], ![before] = n]
    /\ size' = [size EXCEPT ![l] = @ + 1]
    /\ place' = [place EXCEPT ![n] = l]

ListPush(l, n) == ListInsert(l, n, l)

(* Mutant of ListErase: the way back still leads to the node.   *)
ListEraseOneWay(l, n) ==
    /\ place[n] = l
    /\ nxt' = [nxt EXCEPT ![pre[n]] = nxt[n], ![n] = n]
    /\ pre' = [pre EXCEPT ![n] = n]
    /\ size' = [size EXCEPT ![l] = @ - 1]
    /\ place' = [place EXCEPT ![n] = Free]

(* The nil node is refused with INVALID_ITERATOR.                          *)
ListErase(l, n) ==
    /\ place[n] = l
    /\ nxt' = [nxt EXCEPT ![pre[n]] = nxt[n], ![n] = n]
    /\ pre' = [pre EXCEPT ![nxt[n]] = pre[n], ![n] = n]
    /\ size' = [size EXCEPT ![l] = @ - 1]
    /\ place' = [place EXCEPT ![n] = Free]

ListPop(l) == size[l] > 0 /\ ListErase(l, nxt[l])

(* From each node the loop goes to the next, and frees the one before it.  *)
ListClear(l) ==
    LET freed == {pre[nxt[n]] : n \in In(l)}
        after(f) == [c \in Cells |-> IF c \in freed \cup {l} THEN c ELSE f[c]]
    IN /\ size[l] > 0
       /\ nxt' = after(nxt)
       /\ pre' = after(pre)
       /\ size' = [size EXCEPT ![l] = 0]
       /\ place' = [n \in Nodes |-> IF n \in freed THEN Free ELSE place[n]]

(* The nil nodes change places, and the ends of each ring are led to the   *)
(* other nil node; ends(l) is the other end of a list from that of f.      *)
Exchanged(f, ends, l, m) ==
    [c \in Cells |-> IF c = l THEN IF size[m] > 0 THEN f[m] ELSE l
                     ELSE IF c = m THEN IF size[l] > 0 THEN f[l] ELSE m
                     ELSE IF size[m] > 0 /\ c = ends[m] THEN l
                     ELSE IF size[l] > 0 /\ c = ends[l] THEN m
                     ELSE f[c]]

ListSwap(l, m) ==
    /\ l # m
    /\ nxt' = Exchanged(nxt, pre, l, m)
    /\ pre' = Exchanged(pre, nxt, l, m)
    /\ size' = [size EXCEPT ![l] = size[m], ![m] = size[l]]
    /\ place' = [n \in Nodes |-> IF place[n] = l THEN m
                                 ELSE IF place[n] = m THEN l ELSE place[n]]

(* Mutant of ListCatAndClear: the second list is not cleared.   *)
ListCatOnly(l, m) ==
    /\ l # m
    /\ size[m] > 0
    /\ nxt' = [nxt EXCEPT ![pre[l]] = nxt[m], ![pre[m]] = l]
    /\ pre' = [pre EXCEPT ![nxt[m]] = pre[l], ![l] = pre[m]]
    /\ size' = [size EXCEPT ![l] = @ + size[m]]
    /\ place' = [n \in Nodes |-> IF place[n] = m THEN l ELSE place[n]]

ListCatAndClear(l, m) ==
    /\ l # m
    /\ size[m] > 0
    /\ nxt' = [nxt EXCEPT ![pre[l]] = nxt[m], ![pre[m]] = l, ![m] = m]
    /\ pre' = [pre EXCEPT ![nxt[m]] = pre[l], ![l] = pre[m], ![m] = m]
    /\ size' = [size EXCEPT ![l] = @ + size[m], ![m] = 0]
    /\ place' = [n \in Nodes |-> IF place[n] = m THEN l ELSE place[n]]

Next ==
    \/ \E l \in Lists, n \in Nodes, before \in Cells : ListInsert(l, n, before)
    \/ \E l \in Lists, n \in Nodes : ListPush(l, n) \/ ListErase(l, n)
    \/ \E l \in Lists : ListPop(l) \/ ListClear(l)
    \/ \E l, m \in Lists : ListSwap(l, m) \/ ListCatAndClear(l, m)

Spec == Init /\ [][Next]_vars

-----------------------------------------------------------------------------

LLTypeOK ==
    /\ nxt \in [Cells -> Cells]
    /\ pre \in [Cells -> Cells]
    /\ size \in [Lists -> Int]
    /\ place \in [Nodes -> Lists \cup {Free}]

Ring(l) == In(l) \cup {l}

(* Both directions of every ring are the inverse of each other.            *)
BothWays == \A c \in Cells : nxt[pre[c]] = c /\ pre[nxt[c]] = c

(* No pointer of a list leads into another one or to a freed node, and     *)
(* following LIST_NEXT from the nil node passes by every node of the list. *)
Apart ==
    /\ \A l \in Lists : \A c \in Ring(l) : nxt[c] \in Ring(l) /\ pre[c] \in Ring(l)
    /\ \A n \in Nodes : place[n] = Free => nxt[n] = n /\ pre[n] = n
Connected ==
    \A l \in Lists : \A S \in SUBSET Cells :
        l \in S /\ (\A c \in S : nxt[c] \in S) => In(l) \subseteq S

(* _list_size counts the nodes.                                            *)
Counted == \A l \in Lists : size[l] = Cardinality(In(l))

(* After every sequence of the operations of list.c each list is one ring  *)
(* of its own, closed in both directions, with as many nodes as its size   *)
(* says: list_clear frees the node before the next one and relies on it,   *)
(* and list_pop, list_swap and list_cat_and_clear rely on the size.        *)
RingsClosed == BothWays /\ Apart /\ Connected /\ Counted

(* Where LIST_NEXT leads from the nil node in k + 1 steps, or before that  *)
(* back to it.                                                             *)
Steps(l) ==
    LET at[k \in 0..Cardinality(Nodes)] ==
            IF k = 0 THEN nxt[l] ELSE IF at[k - 1] = l THEN l ELSE nxt[at[k - 1]]
    IN at

(* The nodes of a list in the order of LIST_NEXT from LIST_BEGIN on, as    *)
(* far as they can be all different.                                       *)
Walk(l) ==
    LET at   == Steps(l)
        back == {k \in 0..Cardinality(Nodes) : at[k] = l}
        n    == IF back = {} THEN Cardinality(Nodes) + 1
                ELSE CHOOSE k \in back : \A j \in back : k <= j
    IN [i \in 1..n |-> at[i - 1]]

Promised == INSTANCE ListSequences WITH seqs <- [l \in Lists |-> Walk(l)]

(* list.c implements the lists of list.h: whatever the operations do to    *)
(* the pointers, walking a list gives the sequence of what was put in it.  *)
ListsAreSequences == Promised!Spec
=============================================================================
