------------------------------ MODULE BlackList ------------------------------
(***************************************************************************)
(* The blacklist of the DHT node: src/dht/blacklist.go over the syncedMap  *)
(* of src/dht/container.go, with the goroutines that call it.  Workers     *)
(* insert the senders they find lying, forget those that answer, and ask   *)
(* before they handle a packet; the goroutine of New inserts the local and *)
(* remote addresses; clear sweeps.  A step holds the map's lock once, so   *)
(* two steps of one call have any others in between.                       *)
(***************************************************************************)
EXTENDS Naturals, FiniteSets

CONSTANTS
    IPs, Addrs,        \* keys: an ip, or an ip with a port
    IPOf,              \* the ip of an address
    BlockedIPs,        \* Config.BlockedIPs
    LocalIPs,          \* what getLocalIPs and getRemoteIP return
    Workers, Finder,   \* goroutines of handle; the goroutine of New
    MaxSize,           \* blackList.maxSize, Config.BlackListMaxSize
    None

Keys == IPs \cup Addrs
Goroutines == Workers \cup {Finder}

ASSUME BLConstants ==
    /\ IsFiniteSet(Keys) /\ IsFiniteSet(Workers) /\ Finder \notin Workers
    /\ IPs \cap Addrs = {} /\ IPOf \in [Addrs -> IPs]
    /\ BlockedIPs \subseteq IPs /\ LocalIPs \subseteq IPs
    /\ MaxSize \in Nat \ {0} /\ Cardinality(BlockedIPs) <= MaxSize
    /\ None \notin Keys

VARIABLES
    list,     \* blackList.list: an item's age against expiredAfter, or "absent"
    call,     \* call[g]: where goroutine g is in insert or in, and the key
    local,    \* local and remote addresses the Finder has still to insert
    swept     \* the keys clear has collected, or None

vars == <<list, call, local, swept>>

NoCall == [at |-> "none", key |-> None]
Listed == {k \in Keys : list[k] # "absent"}
(* Mutant of Returns: the call stays where it is. *)
ReturnsInPlace(g) == call' = [call EXCEPT ![g].key = None]

Returns(g) == call' = [call EXCEPT ![g] = NoCall]
Goes(g, at, k) == call' = [call EXCEPT ![g] = [at |-> at, key |-> k]]

(* Mutant of Insert: > for >= in the test of maxSize. *)
InsertOffByOne(g, k) ==
    IF Cardinality(Listed) <= MaxSize THEN Goes(g, "insert", k) ELSE Returns(g)

(* insert: the length first, the item after. *)
Insert(g, k) == IF Cardinality(Listed) < MaxSize THEN Goes(g, "insert", k) ELSE Returns(g)

InsertSender(w) ==
    /\ call[w] = NoCall
    /\ \E a \in Addrs : Insert(w, a)
    /\ UNCHANGED <<list, local, swept>>

InsertLocal ==
    /\ call[Finder] = NoCall
    /\ \E ip \in local : Insert(Finder, ip) /\ local' = local \ {ip}
    /\ UNCHANGED <<list, swept>>

SetItem(g) ==
    /\ call[g].at = "insert"
    /\ list' = [list EXCEPT ![call[g].key] = "fresh"]
    /\ Returns(g)
    /\ UNCHANGED <<local, swept>>

(* delete *)
Forget(w) ==
    /\ call[w] = NoCall
    /\ \E a \in Addrs : list' = [list EXCEPT ![a] = "absent"]
    /\ UNCHANGED <<call, local, swept>>

(* in: the ip, whatever its age; then the address, which leaves when it is *)
(* found expired.                                                          *)
AskIP(w) ==
    /\ call[w] = NoCall
    /\ \E a \in Addrs : list[IPOf[a]] = "absent" /\ Goes(w, "in", a)
    /\ UNCHANGED <<list, local, swept>>

AskAddr(w) ==
    /\ call[w].at = "in"
    /\ IF list[call[w].key] = "expired" THEN Goes(w, "drop", call[w].key) ELSE Returns(w)
    /\ UNCHANGED <<list, local, swept>>

DropExpired(w) ==
    /\ call[w].at = "drop"
    /\ list' = [list EXCEPT ![call[w].key] = "absent"]
    /\ Returns(w)
    /\ UNCHANGED <<local, swept>>

(* Mutant of Expired: the ages of addresses only. *)
ExpiredAddrs == {k \in Addrs : list[k] = "expired"}

(* clear: collects under the RLock of Iter, deletes under the Lock of      *)
(* DeleteMulti.                                                            *)
Expired == {k \in Keys : list[k] = "expired"}

Collect ==
    /\ swept = None
    /\ Expired # {}
    /\ swept' = Expired
    /\ UNCHANGED <<list, call, local>>

DeleteMulti ==
    /\ swept # None
    /\ list' = [k \in Keys |-> IF k \in swept THEN "absent" ELSE list[k]]
    /\ swept' = None
    /\ UNCHANGED <<call, local>>

(* expiredAfter passes for an item. *)
Age ==
    /\ \E k \in Listed : list[k] = "fresh" /\ list' = [list EXCEPT ![k] = "expired"]
    /\ UNCHANGED <<call, local, swept>>

-----------------------------------------------------------------------------
(* New inserts the configured ips before any goroutine runs. *)
Init ==
    /\ list = [k \in Keys |-> IF k \in BlockedIPs THEN "fresh" ELSE "absent"]
    /\ call = [g \in Goroutines |-> NoCall]
    /\ local = LocalIPs
    /\ swept = None

WorkerStep(w) == InsertSender(w) \/ Forget(w) \/ AskIP(w) \/ AskAddr(w) \/ DropExpired(w)

Next ==
    \/ \E w \in Workers : WorkerStep(w)
    \/ InsertLocal
    \/ \E g \in Goroutines : SetItem(g)
    \/ Collect \/ DeleteMulti
    \/ Age

(* clear ticks for ever, and a call once begun goes on. *)
Fairness ==
    /\ WF_vars(Collect) /\ WF_vars(DeleteMulti)
    /\ \A g \in Goroutines : WF_vars(SetItem(g))
    /\ \A w \in Workers : WF_vars(AskAddr(w)) /\ WF_vars(DropExpired(w))

Spec == Init /\ [][Next]_vars

-----------------------------------------------------------------------------
(* Every variable holds values of its kind: the type invariant. *)
TypeOK ==
    /\ list \in [Keys -> {"absent", "fresh", "expired"}]
    /\ call \in [Goroutines -> [at : {"none", "insert", "in", "drop"}, key : Keys \cup {None}]]
    /\ \A g \in Goroutines : call[g].at # "none" => call[g].key \in Keys
    /\ local \subseteq LocalIPs
    /\ swept = None \/ swept \subseteq Keys

(* insert's length and Set are two steps, so the list can outgrow maxSize, *)
(* but by less than one item per goroutine that inserts.                   *)
Overshoot == Cardinality(Listed) < MaxSize + Cardinality(Goroutines)

(* Every expired item leaves the list, or is blocked anew: clear sees to   *)
(* it for ips too, which in never drops.                                   *)
ExpiredItemsGo == \A k \in Keys : list[k] = "expired" ~> list[k] # "expired"
=============================================================================
