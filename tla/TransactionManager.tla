------------------------- MODULE TransactionManager -------------------------
(***************************************************************************)
(* Outgoing KRPC queries of a DHT node: src/dht/krpc.go.                   *)
(*                                                                         *)
(* A caller (the Run loop in join, a Fresh or GetPeers goroutine, or a     *)
(* packet handler following up an answer) passes sendQuery's checks, draws *)
(* a transaction id and pushes the query into queryChan; run takes it out  *)
(* and starts a goroutine `query` that registers the transaction, sends up *)
(* to Try times and waits for an answer or a timer; the handlers of        *)
(* answers, running in goroutines of their own, find the transaction,      *)
(* update the routing table and signal trans.response.                     *)
(*                                                                         *)
(* A node stands for an address and the id it claims.  The routing table   *)
(* is the set of nodes its cachedNodes holds, the blacklist the set of the *)
(* nodes (ip:port entries) and IPs (ip entries) it holds.  Objects are     *)
(* numbered 1, 2, ... in the order of their transaction ids; 0 is nil.     *)
(***************************************************************************)
EXTENDS Naturals, Sequences, FiniteSets

CONSTANTS
    Nodes,             \* remote nodes, and Self
    Ips,               \* their IPs
    IpOf,              \* IpOf[n] is the IP of n: several nodes may share one
    Self,              \* dht.node, which an answer may name too
    PrimeNodes,        \* Config.PrimeNodes
    Main,              \* the goroutine of DHT.Run
    Callers,           \* Fresh and GetPeers goroutines
    Handlers,          \* packet handlers (PacketWorkerLimit of them)
    Try,               \* Config.Try
    ChanSize,          \* capacity of queryChan
    MaxCursor,         \* Config.MaxTransactionCursor
    K,                 \* Config.K, the neighbours a lookup asks
    MaxNodes,          \* Config.MaxNodes
    BlackListMaxSize,  \* Config.BlackListMaxSize
    MaxQueries,        \* bound of the model: transaction ids drawn
    MaxPackets         \* bound of the model: packets handled

Procs == {Main} \cup Callers \cup Handlers
Objects == 1..MaxQueries
QueryTypes == {"find_node", "get_peers"}   \* ping and announce_peer are never sent
Ids == 0..(MaxCursor - 1)
Keys == QueryTypes \X Nodes
QueryRequests == [node : Nodes, type : QueryTypes, hasId : BOOLEAN]
Queries == [id : Ids, node : Nodes, type : QueryTypes, hasId : BOOLEAN]
Frames == [at : {"idle", "checked", "sending"}, req : QueryRequests, q : {0} \cup Objects,
           todo : SUBSET QueryRequests]

ASSUME TMConstants ==
    /\ Self \in Nodes /\ PrimeNodes \subseteq Nodes /\ IpOf \in [Nodes -> Ips]
    /\ Nodes \cap Ips = {} /\ IsFiniteSet(Nodes) /\ IsFiniteSet(Ips)
    /\ Main \notin Callers \cup Handlers /\ Callers \cap Handlers = {}
    /\ {Try, ChanSize, K, MaxNodes, BlackListMaxSize, MaxCursor} \subseteq Nat \ {0}
    /\ MaxQueries \in Nat /\ MaxPackets \in Nat

(* The ids drawn are distinct: MaxTransactionCursor is 2^32 - 1 and the    *)
(* window of one behaviour is shorter than a wrap of the cursor.           *)
ASSUME NoIdWrap == MaxQueries <= MaxCursor

VARIABLES
    cursor,        \* transactionManager.cursor
    queries,       \* queries[o]: the query of object o and its id ("t")
    queryChan,     \* transactionManager.queryChan
    transactions,  \* transactionManager.transactions: id -> object or 0
    index,         \* transactionManager.index: (type, address) -> object or 0
    pc,            \* pc[o]: where the goroutine `query` of o is
    sent,          \* sent[o]: its loop counter i
    success,       \* success[o]: its local of that name
    response,      \* response[o]: answers buffered in trans.response
    frame,         \* frame[p]: p's sendQuery call and the requests p has left
    handler,       \* handler[h]: the packet h handles and where it is
    table,         \* routingTable.cachedNodes
    blackList,     \* blackList.list
    packets        \* packets accepted so far (bound of the model)

goroutineVars == <<pc, sent, success>>
tmVars == <<cursor, queries, queryChan, transactions, index>>
vars == <<tmVars, goroutineVars, response, frame, handler, table, blackList, packets>>

NoRequest == [node |-> Self, type |-> "find_node", hasId |-> TRUE]
IdleFrame == [at |-> "idle", req |-> NoRequest, q |-> 0, todo |-> {}]
IdleHandler == [at |-> "idle", q |-> 0, node |-> Self, kind |-> "request", found |-> {}]
Packets ==
    [at : {"idle", "find", "set found", "neighbors", "push", "unblock", "insert", "set",
           "block", "lookup", "remove"},
     q : {0} \cup Objects, node : Nodes,
     kind : {"request", "error", "wrong id", "values", "nodes"}, found : SUBSET Nodes]

(* The goroutine of o is registered from insert to delete. *)
Registered == {"loop", "wait", "block", "lookup", "remove", "delete"}
Places == {"none", "made", "queued", "started", "done"} \cup Registered

KeyOf(o) == <<queries[o].type, queries[o].node>>
Blocked(n) == n \in blackList \/ IpOf[n] \in blackList
BlackListInsert(b) ==
    blackList' = IF Cardinality(blackList) >= BlackListMaxSize THEN blackList
                                                               ELSE blackList \cup {b}

(* Mutant of TableFree: Insert without rt.Lock. *)
TableAlwaysFree == TRUE

(* routingTable.Insert holds rt.Lock between its check and its last write; *)
(* readers of the tree take rt.RLock.                                      *)
TableFree == \A h \in Handlers : handler[h].at \notin {"set found", "set"}
Refused(n) == Blocked(n) \/ Cardinality(table) >= MaxNodes

-----------------------------------------------------------------------------
(* Callers of sendQuery. *)

(* p starts to send the requests of S, in an order of its own. *)
Start(p, S) == frame' = [frame EXCEPT ![p] = [@ EXCEPT !.todo = S]]
Idle(p) == frame[p].at = "idle" /\ frame[p].todo = {}
SendQueryReturns(p) == frame' = [frame EXCEPT ![p] = [IdleFrame EXCEPT !.todo = frame[p].todo]]

CallerUnchanged == UNCHANGED <<tmVars, goroutineVars, response, handler, table,
                               blackList, packets>>

(* dht.join, from Run: the prime nodes have no id yet. *)
Join ==
    /\ Idle(Main) /\ TableFree /\ table = {}
    /\ Start(Main, [node : PrimeNodes, type : {"find_node"}, hasId : {FALSE}])
    /\ CallerUnchanged

(* A tick of Run with nodes in the table and no transaction: `go Fresh()`, *)
(* which asks the nodes of the buckets that have expired.                  *)
Fresh(c) ==
    /\ Idle(c) /\ Idle(Main) /\ TableFree
    /\ table # {} /\ \A i \in Ids : transactions[i] = 0
    /\ \E S \in SUBSET table \ {{}} :
          Start(c, [node : S, type : {"find_node"}, hasId : {TRUE}])
    /\ CallerUnchanged

(* The K nodes nearest to a target: any K of the table, or all of it. *)
Neighbors == {S \in SUBSET table : Cardinality(S) = IF Cardinality(table) < K
                                                    THEN Cardinality(table) ELSE K}

(* DHT.GetPeers called by the application. *)
GetPeers(c) ==
    /\ Idle(c) /\ TableFree
    /\ \E S \in Neighbors : Start(c, [node : S, type : {"get_peers"}, hasId : {TRUE}])
    /\ CallerUnchanged

(* sendQuery's first two tests: the target is not this node, and no        *)
(* transaction for the same type and address is in the index.              *)
CheckIndex(p) ==
    /\ frame[p].at = "idle"
    /\ \E r \in frame[p].todo :
          LET skip == (r.hasId /\ r.node = Self) \/ index[<<r.type, r.node>>] # 0
              left == [IdleFrame EXCEPT !.todo = frame[p].todo \ {r}]
          IN  frame' = [frame EXCEPT ![p] = IF skip THEN left
                                            ELSE [left EXCEPT !.at = "checked", !.req = r]]
    /\ CallerUnchanged

(* Its third test, the blacklist, and genTransID.  Once the bound of the   *)
(* model is reached a query is skipped.                                    *)
GenTransID(p) ==
    LET r == frame[p].req
        o == Len(queries) + 1
        next == (cursor + 1) % MaxCursor
    IN  /\ frame[p].at = "checked"
        /\ IF Blocked(r.node) \/ Len(queries) >= MaxQueries
           THEN /\ SendQueryReturns(p)
                /\ UNCHANGED <<cursor, queries, pc>>
           ELSE /\ cursor' = next
                /\ queries' = Append(queries, [id |-> next, node |-> r.node, type |-> r.type,
                                               hasId |-> r.hasId])
                /\ pc' = [pc EXCEPT ![o] = "made"]
                /\ frame' = [frame EXCEPT ![p] = [@ EXCEPT !.at = "sending", !.q = o]]
        /\ UNCHANGED <<queryChan, transactions, index, sent, success, response, handler,
                       table, blackList, packets>>

(* Mutant of SendQuery: a channel with no room at all. *)
SendQueryUnbuffered(p) ==
    /\ frame[p].at = "sending" /\ Len(queryChan) < ChanSize - 1
    /\ queryChan' = Append(queryChan, frame[p].q)
    /\ pc' = [pc EXCEPT ![frame[p].q] = "queued"]
    /\ SendQueryReturns(p)
    /\ UNCHANGED <<cursor, queries, transactions, index, sent, success, response, handler,
                   table, blackList, packets>>

(* `tm.queryChan <- q`: blocks while the channel is full. *)
SendQuery(p) ==
    /\ frame[p].at = "sending" /\ Len(queryChan) < ChanSize
    /\ queryChan' = Append(queryChan, frame[p].q)
    /\ pc' = [pc EXCEPT ![frame[p].q] = "queued"]
    /\ SendQueryReturns(p)
    /\ UNCHANGED <<cursor, queries, transactions, index, sent, success, response, handler,
                   table, blackList, packets>>

-----------------------------------------------------------------------------
(* transactionManager.run and the goroutines `query` it starts. *)

Run ==
    /\ queryChan # <<>>
    /\ queryChan' = Tail(queryChan)
    /\ pc' = [pc EXCEPT ![Head(queryChan)] = "started"]
    /\ UNCHANGED <<cursor, queries, transactions, index, sent, success, response, frame,
                   handler, table, blackList, packets>>

Insert(o) ==
    /\ pc[o] = "started"
    /\ pc' = [pc EXCEPT ![o] = "loop"]
    /\ transactions' = [transactions EXCEPT ![queries[o].id] = o]
    /\ index' = [index EXCEPT ![KeyOf(o)] = o]
    /\ UNCHANGED <<cursor, queries, queryChan, sent, success, response, frame, handler,
                   table, blackList, packets>>

(* Where o goes after the loop: an unanswered node with an id is given up. *)
AfterLoop(o, ok) == IF ok \/ ~queries[o].hasId THEN "delete" ELSE "block"

(* Mutant of NextIteration: one try too many. *)
NextIterationOffByOne(o, ok) ==
    pc' = [pc EXCEPT ![o] = IF sent[o] <= Try THEN "loop" ELSE AfterLoop(o, ok)]

(* The end of an iteration, by an answer or by the timer: `break` inside   *)
(* `select` leaves the select only, so the loop goes on either way.        *)
NextIteration(o, ok) ==
    pc' = [pc EXCEPT ![o] = IF sent[o] < Try THEN "loop" ELSE AfterLoop(o, ok)]

GoroutineUnchanged == UNCHANGED <<tmVars, frame, handler, packets>>

Send(o) ==
    /\ pc[o] = "loop"
    /\ sent' = [sent EXCEPT ![o] = @ + 1]
    /\ pc' = [pc EXCEPT ![o] = "wait"]
    /\ GoroutineUnchanged /\ UNCHANGED <<success, response, table, blackList>>

(* WriteToUDP fails: send blocks the IP and the loop ends. *)
SendFails(o) ==
    /\ pc[o] = "loop"
    /\ BlackListInsert(IpOf[queries[o].node])
    /\ pc' = [pc EXCEPT ![o] = AfterLoop(o, success[o])]
    /\ GoroutineUnchanged /\ UNCHANGED <<sent, success, response, table>>

Receive(o) ==
    /\ pc[o] = "wait" /\ response[o] > 0
    /\ response' = [response EXCEPT ![o] = @ - 1]
    /\ success' = [success EXCEPT ![o] = TRUE]
    /\ NextIteration(o, TRUE)
    /\ GoroutineUnchanged /\ UNCHANGED <<sent, table, blackList>>

(* Mutant of Timeout: a wait without a timer. *)
TimeoutNever(o) == FALSE /\ UNCHANGED vars

(* The timer of 15 s; select may choose it although an answer has come. *)
Timeout(o) ==
    /\ pc[o] = "wait"
    /\ NextIteration(o, success[o])
    /\ GoroutineUnchanged /\ UNCHANGED <<sent, success, response, table, blackList>>

GiveUp(o) ==
    /\ pc[o] = "block"
    /\ BlackListInsert(queries[o].node)
    /\ pc' = [pc EXCEPT ![o] = "lookup"]
    /\ GoroutineUnchanged /\ UNCHANGED <<sent, success, response, table>>

(* RemoveByAddr looks the node up, with rt.RLock when it is there ... *)
Lookup(o) ==
    /\ pc[o] = "lookup"
    /\ \/ queries[o].node \notin table /\ pc' = [pc EXCEPT ![o] = "delete"]
       \/ queries[o].node \in table /\ TableFree /\ pc' = [pc EXCEPT ![o] = "remove"]
    /\ GoroutineUnchanged /\ UNCHANGED <<sent, success, response, table, blackList>>

(* ... and deletes it without rt.Lock. *)
Remove(o) ==
    /\ pc[o] = "remove"
    /\ table' = table \ {queries[o].node}
    /\ pc' = [pc EXCEPT ![o] = "delete"]
    /\ GoroutineUnchanged /\ UNCHANGED <<sent, success, response, blackList>>

(* Mutants of Delete: one of the two maps is forgotten. *)
DeleteKeepsIndex(o) ==
    /\ pc[o] = "delete"
    /\ pc' = [pc EXCEPT ![o] = "done"]
    /\ transactions' = [transactions EXCEPT ![queries[o].id] = 0]
    /\ UNCHANGED <<cursor, queries, queryChan, index, sent, success, response, frame, handler,
                   table, blackList, packets>>
DeleteKeepsTransaction(o) ==
    /\ pc[o] = "delete"
    /\ pc' = [pc EXCEPT ![o] = "done"]
    /\ index' = [index EXCEPT ![KeyOf(o)] = 0]
    /\ UNCHANGED <<cursor, queries, queryChan, transactions, sent, success, response, frame,
                   handler, table, blackList, packets>>

(* The deferred delete: the transaction found under o's id leaves both     *)
(* maps, whatever transaction the index holds for its key.                 *)
Delete(o) ==
    LET i == queries[o].id
        t == transactions[i]
    IN  /\ pc[o] = "delete"
        /\ pc' = [pc EXCEPT ![o] = "done"]
        /\ IF t = 0 THEN UNCHANGED <<transactions, index>>
           ELSE /\ transactions' = [transactions EXCEPT ![i] = 0]
                /\ index' = [index EXCEPT ![KeyOf(t)] = 0]
        /\ UNCHANGED <<cursor, queries, queryChan, sent, success, response, frame, handler,
                       table, blackList, packets>>

Goroutine(o) ==
    \/ Insert(o) \/ Send(o) \/ SendFails(o) \/ Receive(o) \/ Timeout(o)
    \/ GiveUp(o) \/ Lookup(o) \/ Remove(o) \/ Delete(o)

-----------------------------------------------------------------------------
(* Packet handlers.  Run hands a packet to a free worker, so not while it  *)
(* is itself in join; the worker drops packets of blocked addresses.       *)

Accept(h, packet) ==
    /\ handler[h].at = "idle" /\ Idle(Main) /\ packets < MaxPackets
    /\ ~Blocked(packet.node)
    /\ handler' = [handler EXCEPT ![h] = packet]
    /\ packets' = packets + 1
    /\ UNCHANGED <<tmVars, goroutineVars, response, frame, table, blackList>>

(* handleRequest: a request of n with the id the table knows (or of a node *)
(* it does not know) ends with Insert; another id gets the node blocked.   *)
(* What the request asks for is answered in the modules of those parts.    *)
HandleRequest(h) ==
    \E n \in Nodes \ {Self}, sameId \in BOOLEAN :
        /\ TableFree
        /\ ~sameId => n \in table
        /\ Accept(h, [at |-> IF sameId THEN "insert" ELSE "block", q |-> 0, node |-> n,
                      kind |-> "request", found |-> {}])

(* handleResponse and handleError up to filterOne: the packet names an id  *)
(* under which a transaction of the sender's address is registered.        *)
(*   error     an error message;                                           *)
(*   wrong id  an answer with another id than the queried node's;          *)
(*   values    an answer to get_peers with peers;                          *)
(*   nodes     an answer naming a node (the model's bound) or none.        *)
Answer(o, kind, found) ==
    [at |-> CASE kind = "wrong id" -> "block"
              [] kind = "nodes" /\ found # {} -> "find"
              [] OTHER -> "push",
     q |-> o, node |-> queries[o].node, kind |-> kind, found |-> found]

HandleAnswer(h) ==
    \E o \in Objects, kind \in {"error", "wrong id", "values", "nodes"},
       found \in {{}} \cup {{n} : n \in Nodes} :
        /\ pc[o] \in Registered /\ sent[o] > 0
        /\ transactions[queries[o].id] = o
        /\ kind = "wrong id" => queries[o].hasId
        /\ kind = "values" => queries[o].type = "get_peers"
        /\ kind # "nodes" => found = {}
        /\ Accept(h, Answer(o, kind, found))

At(h, place) == handler' = [handler EXCEPT ![h] = [@ EXCEPT !.at = place]]
Return(h) == handler' = [handler EXCEPT ![h] = IdleHandler]
HandlerUnchanged == UNCHANGED <<tmVars, goroutineVars, packets>>

(* findOn: insert the node the answer names ... *)
CheckFound(h) ==
    /\ handler[h].at = "find" /\ TableFree
    /\ \E n \in handler[h].found : At(h, IF Refused(n) THEN "push" ELSE "set found")
    /\ HandlerUnchanged /\ UNCHANGED <<response, frame, table, blackList>>

(* ... and stop if the target is found or Insert says that nothing is new  *)
(* in its bucket.  A node may be new there although its address is cached, *)
(* and the other way about; the buckets are in RoutingTable.               *)
SetFound(h) ==
    /\ handler[h].at = "set found"
    /\ table' = table \cup handler[h].found
    /\ At(h, "push") \/ At(h, "neighbors")
    /\ HandlerUnchanged /\ UNCHANGED <<response, frame, blackList>>

(* Otherwise the K nearest nodes are asked, before the transaction hears   *)
(* of the answer.                                                          *)
FollowUp(h) ==
    /\ handler[h].at = "neighbors" /\ TableFree
    /\ \E S \in Neighbors :
          Start(h, [node : S, type : {queries[handler[h].q].type}, hasId : {TRUE}])
    /\ At(h, "push")
    /\ HandlerUnchanged /\ UNCHANGED <<response, table, blackList>>

(* Mutant of Push: a response channel of Try places. *)
PushShort(h) ==
    LET o == handler[h].q
    IN  /\ handler[h].at = "push" /\ Idle(h)
        /\ response[o] < Try
        /\ response' = [response EXCEPT ![o] = @ + 1]
        /\ IF handler[h].kind = "error" THEN Return(h) ELSE At(h, "unblock")
        /\ HandlerUnchanged /\ UNCHANGED <<frame, table, blackList>>

(* `trans.response <- struct{}{}`: blocks while Try+1 answers are buffered. *)
Push(h) ==
    LET o == handler[h].q
    IN  /\ handler[h].at = "push" /\ Idle(h)
        /\ response[o] < Try + 1
        /\ response' = [response EXCEPT ![o] = @ + 1]
        /\ IF handler[h].kind = "error" THEN Return(h) ELSE At(h, "unblock")
        /\ HandlerUnchanged /\ UNCHANGED <<frame, table, blackList>>

Unblock(h) ==
    /\ handler[h].at = "unblock"
    /\ blackList' = blackList \ {handler[h].node}
    /\ At(h, "insert")
    /\ HandlerUnchanged /\ UNCHANGED <<response, frame, table>>

(* routingTable.Insert of the sender. *)
CheckInsert(h) ==
    /\ handler[h].at = "insert" /\ TableFree
    /\ IF Refused(handler[h].node) THEN Return(h) ELSE At(h, "set")
    /\ HandlerUnchanged /\ UNCHANGED <<response, frame, table, blackList>>

SetInsert(h) ==
    /\ handler[h].at = "set"
    /\ table' = table \cup {handler[h].node}
    /\ Return(h)
    /\ HandlerUnchanged /\ UNCHANGED <<response, frame, blackList>>

(* The sender's id is not the one expected: block and RemoveByAddr. *)
BlockSender(h) ==
    /\ handler[h].at = "block"
    /\ BlackListInsert(handler[h].node)
    /\ At(h, "lookup")
    /\ HandlerUnchanged /\ UNCHANGED <<response, frame, table>>

LookupSender(h) ==
    /\ handler[h].at = "lookup"
    /\ \/ handler[h].node \notin table /\ Return(h)
       \/ handler[h].node \in table /\ TableFree /\ At(h, "remove")
    /\ HandlerUnchanged /\ UNCHANGED <<response, frame, table, blackList>>

RemoveSender(h) ==
    /\ handler[h].at = "remove"
    /\ table' = table \ {handler[h].node}
    /\ Return(h)
    /\ HandlerUnchanged /\ UNCHANGED <<response, frame, blackList>>

Handler(h) ==
    \/ CheckFound(h) \/ SetFound(h) \/ FollowUp(h) \/ Push(h) \/ Unblock(h)
    \/ CheckInsert(h) \/ SetInsert(h)
    \/ BlockSender(h) \/ LookupSender(h) \/ RemoveSender(h)

-----------------------------------------------------------------------------
(* Steps of parts modelled elsewhere: a block expires (blackList.in and    *)
(* blackList.clear), Fresh in crawl mode removes the nodes it has asked.   *)
Expire ==
    /\ \E b \in blackList : blackList' = blackList \ {b}
    /\ UNCHANGED <<tmVars, goroutineVars, response, frame, handler, table, packets>>

Evict ==
    /\ \E n \in table : table' = table \ {n}
    /\ UNCHANGED <<tmVars, goroutineVars, response, frame, handler, blackList, packets>>

Init ==
    /\ cursor = 0 /\ queries = <<>> /\ queryChan = <<>>
    /\ transactions = [i \in Ids |-> 0] /\ index = [k \in Keys |-> 0]
    /\ pc = [o \in Objects |-> "none"]
    /\ sent = [o \in Objects |-> 0] /\ success = [o \in Objects |-> FALSE]
    /\ response = [o \in Objects |-> 0]
    /\ frame = [p \in Procs |-> IdleFrame]
    /\ handler = [h \in Handlers |-> IdleHandler]
    /\ table = {} /\ blackList = {} /\ packets = 0

CallerStep(p) == CheckIndex(p) \/ GenTransID(p) \/ SendQuery(p)

Next ==
    \/ Join \/ Run \/ Expire \/ Evict
    \/ \E c \in Callers : Fresh(c) \/ GetPeers(c)
    \/ \E p \in Procs : CallerStep(p)
    \/ \E o \in Objects : Goroutine(o)
    \/ \E h \in Handlers : HandleRequest(h) \/ HandleAnswer(h) \/ Handler(h)

(* Go schedules every goroutine that can run; packets, ticks, calls of the *)
(* application and expiries need not come.                                 *)
Fairness ==
    /\ WF_vars(Run)
    /\ \A p \in Procs : WF_vars(CallerStep(p))
    /\ \A o \in Objects : WF_vars(Goroutine(o))
    /\ \A h \in Handlers : WF_vars(Handler(h))

Spec == Init /\ [][Next]_vars
FairSpec == Spec /\ Fairness

-----------------------------------------------------------------------------
(* Every variable holds values of its kind: the type invariant. *)
TypeOK ==
    /\ cursor \in Ids
    /\ queries \in Seq(Queries)
    /\ Len(queries) <= MaxQueries
    /\ queryChan \in Seq(Objects)
    /\ transactions \in [Ids -> {0} \cup Objects]
    /\ index \in [Keys -> {0} \cup Objects]
    /\ pc \in [Objects -> Places]
    /\ sent \in [Objects -> 0..Try] /\ success \in [Objects -> BOOLEAN]
    /\ response \in [Objects -> 0..(Try + 1)]
    /\ frame \in [Procs -> Frames] /\ handler \in [Handlers -> Packets]
    /\ table \subseteq Nodes /\ blackList \subseteq Nodes \cup Ips
    /\ packets \in 0..MaxPackets

(* The map of transactions (what tm.len() counts, and what filterOne       *)
(* searches) holds exactly the queries whose goroutine is between insert   *)
(* and delete, each under its own id: no answer is matched with a finished *)
(* query, no running one is missed, and Run's test of tm.len() sees every  *)
(* query in flight.                                                        *)
TransactionsMatchGoroutines ==
    \A o \in Objects :
        pc[o] \in Registered <=> \E i \in Ids : transactions[i] = o /\ queries[o].id = i

(* An index entry belongs to a registered query of the same type and node: *)
(* sendQuery, which refuses what the index holds, never refuses a node     *)
(* because of a query that has ended, however queries of one key overlap.  *)
IndexedIsLive ==
    \A k \in Keys : index[k] # 0 => pc[index[k]] \in Registered /\ KeyOf(index[k]) = k

(* The table never exceeds MaxNodes, although the test and the insertion   *)
(* are separate steps of handlers that run side by side.                   *)
TableWithinMaxNodes == Cardinality(table) <= MaxNodes

(* Every query that is made ends, with the queue full, handlers blocked or *)
(* no answer at all.                                                       *)
QueriesEnd == \A o \in Objects : pc[o] = "made" ~> pc[o] = "done"

(* No caller of sendQuery hangs for ever on the full queue, so the Run     *)
(* loop goes back to its packets and ticks.                                *)
CallersReturn == \A p \in Procs : []<>Idle(p)

(* Every (type, node) is free again in the end: a node is never excluded   *)
(* from being queried by an index entry that stays.                        *)
KeysAreFreed == \A k \in Keys : []<>(index[k] = 0)

(* A worker waits for ever on trans.response only when the query is over   *)
(* and its channel holds Try + 1 answers nobody took.                      *)
WorkersLostOnlyToLateAnswers ==
    \A h \in Handlers, o \in Objects :
        (handler[h].at = "push" /\ handler[h].q = o) ~>
            (handler[h].at # "push" \/ (pc[o] = "done" /\ response[o] = Try + 1))

(* krpc.go:278 says that query retries when it times out: once an answer   *)
(* has been received, nothing is sent again.                               *)
NoResendAfterAnswer == [][\A o \in Objects : success[o] => sent'[o] = sent[o]]_vars
=============================================================================
