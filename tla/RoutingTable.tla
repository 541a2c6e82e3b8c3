----------------------------- MODULE RoutingTable -----------------------------
(***************************************************************************)
(* The routing table: src/dht/routingtable.go with the keyed deques of     *)
(* src/dht/container.go it is made of.                                     *)
(*                                                                         *)
(* A tree over the bits of node ids whose leaves hold buckets of at most K *)
(* nodes, a map cachedNodes from address to node, and the keyed deque      *)
(* cachedKBuckets of the buckets Fresh visits.  Insert runs under rt.Lock; *)
(* Remove takes rt.RLock to find the node and then changes bucket and maps *)
(* without it, so its later steps meet inserts, splits and other removals. *)
(* Fresh walks cachedKBuckets without rt.Lock, so it sees a split half     *)
(* done.  Each step here holds one lock of a deque, list or map, but for   *)
(* Split, whose tree nodes and new buckets no one else can reach before    *)
(* rt.Lock is free or the bucket is pushed on cachedKBuckets.  A bucket is *)
(* named by its path in the tree: no path gets a second bucket.            *)
(***************************************************************************)
EXTENDS Naturals, Sequences, FiniteSets, SequencesExt

CONSTANTS
    Nodes,             \* records [id, addr]: ids are sequences of bits
    MaxPrefixLength,   \* maxPrefixLength, the bits of an id
    K,                 \* routingTable.k, Config.KBucketSize
    MaxNodes,          \* Config.MaxNodes
    MaxLength,         \* bound of the model: elements of a bucket's list
    Removers,          \* goroutines that call RemoveByAddr or Remove
    None               \* nil

Bits == {0, 1}
Paths == UNION {[1..n -> Bits] : n \in 0..MaxPrefixLength}
Addrs == {n.addr : n \in Nodes}
(* An Insert that holds rt.Lock: the tree node its loop stands at, and     *)
(* where it is there.                                                      *)
Inserts == [node : Nodes, depth : 0..MaxPrefixLength,
            at : {"loop", "full", "bucket", "push", "cache", "touch", "relist",
                  "split", "unlist", "left", "right"},
            isNew : BOOLEAN, inList : BOOLEAN]

ASSUME RTConstants ==
    /\ MaxPrefixLength \in Nat \ {0}
    /\ Nodes \subseteq [id : [1..MaxPrefixLength -> Bits], addr : Addrs] /\ IsFiniteSet(Nodes)
    /\ {K, MaxNodes, MaxLength} \subseteq Nat \ {0} /\ None \notin Nodes \cup Inserts

VARIABLES
    leaves,          \* paths of the tree's leaves
    buckets,         \* path -> its kbucket; a split leaves the parent's behind
    cachedNodes,     \* routingTable.cachedNodes: address -> node or None
    cachedKBuckets,  \* the list of routingTable.cachedKBuckets, without its order
    writer,          \* the Insert that holds rt.Lock, or None
    remover          \* remover[r]: where r is in Remove, and what it has found

vars == <<leaves, buckets, cachedNodes, cachedKBuckets, writer, remover>>
tree == <<leaves, buckets>>
caches == <<cachedNodes, cachedKBuckets>>

(* kbucket: nodes is a keyedDeque, a list whose elements are in its index  *)
(* (keyed) or not: PushBack, which the deque inherits from syncedList,     *)
(* does not know the index.                                                *)
EmptyBucket == [prefix |-> <<>>, nodes |-> <<>>, candidates |-> <<>>]
(* inList: the element that Delete has read from the index is still        *)
(* listed.                                                                 *)
Idle == [at |-> "idle", node |-> None, path |-> <<>>, inList |-> FALSE]

Path(id, depth) == SubSeq(id, 1, depth)

(* The place of the element the index has for a key. *)
KeyAt(deque, id, i) == deque[i].keyed /\ deque[i].node.id = id
HasKey(deque, id) == \E i \in 1..Len(deque) : KeyAt(deque, id, i)
Unlist(deque, id) ==
    IF HasKey(deque, id) THEN RemoveAt(deque, CHOOSE i \in 1..Len(deque) : KeyAt(deque, id, i))
                         ELSE deque
Unindex(deque, id) ==
    [i \in 1..Len(deque) |-> [deque[i] EXCEPT !.keyed = @ /\ deque[i].node.id # id]]
Unkeyed(deque) == [i \in 1..Len(deque) |-> [deque[i] EXCEPT !.keyed = FALSE]]
PushBack(deque, n) == Append(deque, [node |-> n, keyed |-> FALSE])
(* keyedDeque.Push: the indexed element of that key gives way. *)
KeyedPush(deque, n) == Append(Unlist(deque, n.id), [node |-> n, keyed |-> TRUE])
(* Those that read an element of that key from that bucket's index are     *)
(* left with one that is in no list.                                       *)
Orphaned(p, id) ==
    [r \in Removers |->
        IF remover[r].at = "deleting" /\ remover[r].path = p /\ remover[r].node.id = id
        THEN [remover[r] EXCEPT !.inList = FALSE] ELSE remover[r]]

RemoverAt(r, at) == remover[r].at = at
RemoverGoesTo(r, at) == remover' = [remover EXCEPT ![r].at = at]
WriterAt(at) == writer # None /\ writer.at = at
WriterGoesTo(at) == writer' = [writer EXCEPT !.at = at]

(* cachedKBuckets, a keyedDeque too: an element is a bucket whose key is   *)
(* in the index (keyed) or was taken out of it.  Push holds the deque's    *)
(* lock while it takes the element of that key off the list and appends    *)
(* another; Fresh, which needs the list's lock only, may walk in between.  *)
Element(p, keyed) == [path |-> p, keyed |-> keyed]
DequeFree == ~WriterAt("relist") /\ \A r \in Removers : ~RemoverAt(r, "relist")
Unlisted(p) == cachedKBuckets \ {Element(p, TRUE)}
Outdated(p) == {IF e = Element(p, TRUE) THEN Element(p, FALSE) ELSE e : e \in cachedKBuckets}
Listing(p) == cachedKBuckets \cup {Element(p, TRUE)}

-----------------------------------------------------------------------------
(* routingTable.Insert.  A node the blacklist refuses takes no step. *)

(* MaxLength bounds the model: removals racing inserts lengthen a bucket   *)
(* without end.                                                            *)
(* Mutant of InsertStart: > for >= in the test of MaxNodes. *)
InsertStartOffByOne(n) ==
    /\ writer = None
    /\ Cardinality({a \in Addrs : cachedNodes[a] # None}) <= MaxNodes
    /\ \A p \in Paths : Len(buckets[p].nodes) < MaxLength
    /\ writer' = [node |-> n, depth |-> 0, at |-> "loop", isNew |-> FALSE, inList |-> FALSE]
    /\ UNCHANGED <<tree, caches, remover>>
InsertStart(n) ==
    /\ writer = None
    /\ Cardinality({a \in Addrs : cachedNodes[a] # None}) < MaxNodes
    /\ \A p \in Paths : Len(buckets[p].nodes) < MaxLength
    /\ writer' = [node |-> n, depth |-> 0, at |-> "loop", isNew |-> FALSE, inList |-> FALSE]
    /\ UNCHANGED <<tree, caches, remover>>

(* The loop stands at the tree node of the id's first `depth` bits. *)
Here == Path(writer.node.id, writer.depth)
(* Mutant of InLoop: a turn beyond the last bit. *)
InLoopOffByOne == writer # None /\ writer.at = "loop" /\ writer.depth <= MaxPrefixLength
InLoop == writer # None /\ writer.at = "loop" /\ writer.depth < MaxPrefixLength
(* Mutant of HasPlace: <= for <. *)
HasPlaceOffByOne(p) == Len(buckets[p].nodes) <= K
HasPlace(p) == Len(buckets[p].nodes) < K
GoDown == writer' = [writer EXCEPT !.depth = @ + 1]

Descend ==
    /\ InLoop /\ Here \notin leaves
    /\ GoDown
    /\ UNCHANGED <<tree, caches, remover>>

(* nodes.Len() < k and, if not, nodes.HasKey(id). *)
ChooseBucket ==
    /\ InLoop /\ Here \in leaves
    /\ WriterGoesTo(IF HasPlace(Here) THEN "bucket" ELSE "full")
    /\ UNCHANGED <<tree, caches, remover>>

FindKey ==
    /\ WriterAt("full") /\ HasKey(buckets[Here].nodes, writer.node.id)
    /\ WriterGoesTo("bucket")
    /\ UNCHANGED <<tree, caches, remover>>

(* kbucket.Insert *)
CheckNew ==
    /\ WriterAt("bucket")
    /\ writer' = [writer EXCEPT !.at = "push", !.isNew = ~HasKey(buckets[Here].nodes, writer.node.id)]
    /\ UNCHANGED <<tree, caches, remover>>

Push ==
    /\ WriterAt("push")
    /\ buckets' = [buckets EXCEPT ![Here].nodes = KeyedPush(@, writer.node)]
    /\ remover' = Orphaned(Here, writer.node.id)
    /\ WriterGoesTo("cache")
    /\ UNCHANGED <<leaves, caches>>

CacheNode ==
    /\ WriterAt("cache")
    /\ cachedNodes' = [cachedNodes EXCEPT ![writer.node.addr] = writer.node]
    /\ WriterGoesTo("touch")
    /\ UNCHANGED <<tree, cachedKBuckets, remover>>

(* cachedKBuckets.Push of the bucket. *)
CacheBucket ==
    /\ WriterAt("touch") /\ DequeFree
    /\ cachedKBuckets' = Unlisted(Here)
    /\ WriterGoesTo("relist")
    /\ UNCHANGED <<tree, cachedNodes, remover>>

Relist ==
    /\ WriterAt("relist")
    /\ cachedKBuckets' = Listing(Here)
    /\ writer' = None
    /\ UNCHANGED <<tree, cachedNodes, remover>>

(* prefix.Compare(nd.id, prefixLen-1) == 0 *)
SamePrefix == Path(buckets[Here].prefix, writer.depth) = Here

(* The elements of a list at the given places, in the order of the list. *)
NthPlace(places, n) ==
    CHOOSE i \in places : Cardinality({j \in places : j <= i}) = n
ElementsAt(deque, places) == [n \in 1..Cardinality(places) |-> deque[NthPlace(places, n)]]
(* The walk over the list: each node goes to the child of its bit at d,    *)
(* by PushBack.                                                            *)
MovedTo(deque, d, b) ==
    Unkeyed(ElementsAt(deque, {i \in 1..Len(deque) : deque[i].node.id[d + 1] = b}))

(* Mutant of Child: the right child keeps the bit of the left one. *)
ChildBitNotSet(bucket, b) ==
    LET d == Len(bucket.prefix)
    IN  [prefix |-> Append(bucket.prefix, 0),
         nodes |-> MovedTo(bucket.nodes, d, b), candidates |-> MovedTo(bucket.candidates, d, b)]
(* routingTableNode.Split: two children whose prefixes extend the parent's *)
(* by a bit and that share its nodes and candidates, by PushBack.          *)
Child(bucket, b) ==
    LET d == Len(bucket.prefix)
    IN  [prefix |-> Append(bucket.prefix, b),
         nodes |-> MovedTo(bucket.nodes, d, b), candidates |-> MovedTo(bucket.candidates, d, b)]

Children == {Append(Here, b) : b \in Bits}
Split ==
    /\ leaves' = (leaves \ {Here}) \cup Children
    /\ buckets' = [p \in Paths |-> IF p \in Children THEN Child(buckets[Here], Last(p))
                                                    ELSE buckets[p]]
    /\ WriterGoesTo("split")

(* cachedKBuckets.Delete of the parent: the index is read under the RLock, *)
(* what was read leaves the list under the Lock.  If a removal has pushed  *)
(* the parent anew meanwhile, that element only loses its key.             *)
FindCached ==
    /\ WriterAt("split") /\ DequeFree
    /\ writer' = IF Element(Here, TRUE) \in cachedKBuckets
                 THEN [writer EXCEPT !.at = "unlist", !.inList = TRUE]
                 ELSE [writer EXCEPT !.at = "left"]
    /\ UNCHANGED <<tree, caches, remover>>

UnlistParent ==
    /\ WriterAt("unlist") /\ DequeFree
    /\ cachedKBuckets' = IF writer.inList THEN Unlisted(Here) ELSE Outdated(Here)
    /\ writer' = [writer EXCEPT !.at = "left", !.inList = FALSE]
    /\ UNCHANGED <<tree, cachedNodes, remover>>

(* Mutant of PushLeft: the child is not pushed. *)
PushLeftForgotten ==
    /\ WriterAt("left") /\ DequeFree
    /\ WriterGoesTo("right")
    /\ UNCHANGED <<tree, caches, remover>>
(* The two cachedKBuckets.Push of the children, which no one else can have *)
(* pushed; the loop then goes on at the child of the id's bit.             *)
PushLeft ==
    /\ WriterAt("left") /\ DequeFree
    /\ cachedKBuckets' = Listing(Append(Here, 0))
    /\ WriterGoesTo("right")
    /\ UNCHANGED <<tree, cachedNodes, remover>>

PushRight ==
    /\ WriterAt("right") /\ DequeFree
    /\ cachedKBuckets' = Listing(Append(Here, 1))
    /\ writer' = [writer EXCEPT !.at = "loop", !.depth = @ + 1]
    /\ UNCHANGED <<tree, cachedNodes, remover>>

(* The node becomes a candidate.  The K latest should be kept, but Remove  *)
(* of the deque's Front, which is in no index, takes nothing away.         *)
Candidate ==
    /\ buckets' = [buckets EXCEPT ![Here].candidates = PushBack(@, writer.node)]
    /\ writer' = None
    /\ UNCHANGED leaves

Full ==
    /\ WriterAt("full") /\ ~HasKey(buckets[Here].nodes, writer.node.id)
    /\ IF SamePrefix THEN Split ELSE Candidate
    /\ UNCHANGED <<caches, remover>>

(* The loop is over: a leaf as deep as ids are long takes no node. *)
InsertFails ==
    /\ WriterAt("loop") /\ writer.depth = MaxPrefixLength
    /\ writer' = None
    /\ UNCHANGED <<tree, caches, remover>>

-----------------------------------------------------------------------------
(* routingTable.Remove, called with the id of a node that is or was in the *)
(* table by RemoveByAddr and by Fresh.                                     *)

(* The leaf of an id, unless it is as deep as ids are long, where          *)
(* GetNodeKBucktByID does not look.                                        *)
LeafOf(id) == {p \in leaves : Len(p) < MaxPrefixLength /\ p = Path(id, Len(p))}
Found(id) ==
    {e \in [path : LeafOf(id), node : Nodes] :
        /\ e.node.id = id
        /\ Contains(buckets[e.path].nodes, [node |-> e.node, keyed |-> TRUE])}

(* GetNodeKBucktByID, under rt.RLock. *)
Find(r) ==
    /\ RemoverAt(r, "idle") /\ writer = None
    /\ \E n \in Nodes : \E e \in Found(n.id) :
          remover' = [remover EXCEPT ![r] =
                        [at |-> "found", node |-> e.node, path |-> e.path, inList |-> FALSE]]
    /\ UNCHANGED <<tree, caches, writer>>

(* bucket.Replace, without rt.Lock.  keyedDeque.Delete reads the index     *)
(* under its RLock and removes what it read under its Lock.  With a        *)
(* candidate in the bucket, Replace would go on: see IndexedWithinK.       *)
ReadIndex(r) ==
    /\ RemoverAt(r, "found")
    /\ buckets[remover[r].path].candidates = <<>>
    /\ remover' =
          IF HasKey(buckets[remover[r].path].nodes, remover[r].node.id)
          THEN [remover EXCEPT ![r].at = "deleting", ![r].inList = TRUE]
          ELSE [remover EXCEPT ![r].at = "replaced"]
    /\ UNCHANGED <<tree, caches, writer>>

(* The key leaves the index, whichever element it names by now; the list   *)
(* loses the element that was read, if it is still there.                  *)
Delete(r) ==
    LET p == remover[r].path
        id == remover[r].node.id
    IN  /\ RemoverAt(r, "deleting")
        /\ buckets' = [buckets EXCEPT ![p].nodes =
                          IF remover[r].inList THEN Unlist(@, id) ELSE Unindex(@, id)]
        /\ remover' = [Orphaned(p, id) EXCEPT ![r].at = "replaced", ![r].inList = FALSE]
        /\ UNCHANGED <<leaves, caches, writer>>

Uncache(r) ==
    /\ RemoverAt(r, "replaced")
    /\ cachedNodes' = [cachedNodes EXCEPT ![remover[r].node.addr] = None]
    /\ remover' = [remover EXCEPT ![r].at = "uncached", ![r].node = None]
    /\ UNCHANGED <<tree, cachedKBuckets, writer>>

(* cachedKBuckets.Push of the bucket, which may have been split meanwhile  *)
(* or be in the middle of it.                                              *)
Touch(r) ==
    /\ RemoverAt(r, "uncached") /\ DequeFree
    /\ cachedKBuckets' = Unlisted(remover[r].path)
    /\ writer' = IF WriterAt("unlist") /\ Here = remover[r].path
                 THEN [writer EXCEPT !.inList = FALSE] ELSE writer
    /\ RemoverGoesTo(r, "relist")
    /\ UNCHANGED <<tree, cachedNodes>>

RelistTouched(r) ==
    /\ RemoverAt(r, "relist")
    /\ cachedKBuckets' = Listing(remover[r].path)
    /\ remover' = [remover EXCEPT ![r] = Idle]
    /\ UNCHANGED <<tree, cachedNodes, writer>>

-----------------------------------------------------------------------------
Init ==
    /\ leaves = {<<>>} /\ cachedKBuckets = {Element(<<>>, TRUE)}
    /\ buckets = [p \in Paths |-> EmptyBucket]
    /\ cachedNodes = [a \in Addrs |-> None]
    /\ writer = None
    /\ remover = [r \in Removers |-> Idle]

InsertStep ==
    \/ Descend \/ ChooseBucket \/ FindKey \/ CheckNew \/ Push \/ CacheNode
    \/ CacheBucket \/ Relist
    \/ Full \/ FindCached \/ UnlistParent \/ PushLeft \/ PushRight \/ InsertFails
RemoveStep(r) ==
    Find(r) \/ ReadIndex(r) \/ Delete(r) \/ Uncache(r) \/ Touch(r) \/ RelistTouched(r)

Next ==
    \/ \E n \in Nodes : InsertStart(n)
    \/ InsertStep
    \/ \E r \in Removers : RemoveStep(r)

Spec == Init /\ [][Next]_vars

-----------------------------------------------------------------------------
Deques == Seq([node : Nodes, keyed : BOOLEAN])

(* Every variable holds values of its kind: the type invariant. *)
TypeOK ==
    /\ leaves \subseteq Paths /\ cachedKBuckets \subseteq [path : Paths, keyed : BOOLEAN]
    /\ buckets \in [Paths -> [prefix : Paths, nodes : Deques, candidates : Deques]]
    /\ cachedNodes \in [Addrs -> Nodes \cup {None}]
    /\ writer \in Inserts \cup {None}
    /\ remover \in [Removers -> [at : {"idle", "found", "deleting", "replaced", "uncached",
                                       "relist"},
                                 node : Nodes \cup {None}, path : Paths, inList : BOOLEAN]]

(* A bucket's index never holds more than K nodes, whatever removals meet  *)
(* the test and the Push of an Insert: a Delete in between takes the key   *)
(* that the Push was to replace out of the index, so only the list grows.  *)
(* And no candidate is ever kept, for a full bucket is split: the rest of  *)
(* Replace, which would wait for itself, and bucket.Fresh never run.       *)
IndexedWithinK ==
    \A p \in Paths :
        /\ Cardinality({i \in 1..Len(buckets[p].nodes) : buckets[p].nodes[i].keyed}) <= K
        /\ buckets[p].candidates = <<>>

(* Each id has exactly one leaf on its way, however the tree was split,    *)
(* and every node of a leaf's bucket has the leaf's path as the start of   *)
(* its id: so walking down the bits of an id leads to the only bucket that *)
(* may hold it.  The bucket's prefix, which RandomChildID draws its        *)
(* targets from, is that path.                                             *)
LeavesPartitionIds ==
    /\ \A n \in Nodes : Cardinality({p \in leaves : p = Path(n.id, Len(p))}) = 1
    /\ \A p \in leaves :
        /\ buckets[p].prefix = p
        /\ \A i \in 1..Len(buckets[p].nodes) :
              Path(buckets[p].nodes[i].node.id, Len(p)) = p

(* Every leaf's bucket is among those Fresh visits, or a call that is      *)
(* under way has yet to push it: the Insert that has split its parent, or  *)
(* an Insert or Remove that has just taken it off the list to push it      *)
(* anew.  So a walk of Fresh may miss a leaf, but none is lost: not when   *)
(* several calls push and delete the same bucket, half done, side by side. *)
Listed == {e.path : e \in cachedKBuckets}
ToBePushed(p) ==
    \/ \E r \in Removers : RemoverAt(r, "relist") /\ remover[r].path = p
    \/ WriterAt("relist") /\ p = Here
    \/ (WriterAt("split") \/ WriterAt("unlist") \/ WriterAt("left")) /\ p \in Children
    \/ WriterAt("right") /\ p = Append(Here, 1)
LeavesAreCached == \A p \in leaves : p \in Listed \/ ToBePushed(p)

(* routingtable.go:495 says that RemoveByAddr deletes the node whose       *)
(* address is `ip:port`: so a node known by its address can be found and   *)
(* removed by it, whenever no call is under way.                           *)
Quiet == writer = None /\ \A r \in Removers : remover[r] = Idle
RemovableByAddr ==
    Quiet => \A a \in Addrs : cachedNodes[a] # None => Found(cachedNodes[a].id) # {}

(* The table as the rest of the system sees it is a set bounded by         *)
(* MaxNodes that changes by one node at a time.                            *)
Set == INSTANCE NodeSet WITH Members <- Addrs,
                             members <- {a \in Addrs : cachedNodes[a] # None}
ImplementsNodeSet == Set!Spec
=============================================================================
