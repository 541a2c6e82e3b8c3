----------------------- MODULE TransactionManagerProofs -----------------------
(* Proofs about TransactionManager, for every value of its constants.      *)
EXTENDS TransactionManager, FiniteSetTheorems, TLAPS

(* The inductive invariant, one named part per pair of things it relates.  *)

(* The loop counter of a goroutine allows another send where it sends. *)
LoopCounter ==
    \A o \in Objects :
        /\ pc[o] \in {"none", "made", "queued", "started"} => sent[o] = 0
        /\ pc[o] = "loop" => sent[o] < Try

(* A handler that will signal a transaction names an existing query. *)
HandlerNames ==
    \A h \in Handlers :
        handler[h].at \in {"find", "set found", "neighbors", "push"}
            => handler[h].q \in 1..Len(queries)

(* The id of a query is its number, wrapped. *)
IdOf(o) == IF o = MaxCursor THEN 0 ELSE o
IdsAreNumbers ==
    /\ cursor = IdOf(Len(queries))
    /\ \A o \in 1..Len(queries) : queries[o].id = IdOf(o)
    /\ \A o \in Objects : pc[o] = "none" <=> o > Len(queries)

(* A query that is being pushed or is in the queue is there once. *)
FramesHoldMade ==
    /\ \A p \in Procs : frame[p].at = "sending"
          => frame[p].q \in Objects /\ pc[frame[p].q] = "made"
    /\ \A p, r \in Procs : frame[p].at = "sending" /\ frame[r].at = "sending"
          /\ frame[p].q = frame[r].q => p = r
QueueHoldsQueued ==
    /\ \A i \in 1..Len(queryChan) : pc[queryChan[i]] = "queued"
    /\ \A i, j \in 1..Len(queryChan) : queryChan[i] = queryChan[j] => i = j

(* The transactions are the registered goroutines, under their ids. *)
TransactionsAreLive ==
    /\ \A i \in Ids : transactions[i] # 0
          => pc[transactions[i]] \in Registered /\ queries[transactions[i]].id = i
    /\ \A o \in Objects : pc[o] \in Registered => transactions[queries[o].id] = o

IInv ==
    /\ TypeOK /\ LoopCounter /\ HandlerNames
    /\ IdsAreNumbers /\ FramesHoldMade /\ QueueHoldsQueued
    /\ TransactionsAreLive /\ IndexedIsLive

-----------------------------------------------------------------------------
(* genTransID's successor of a cursor, without the remainder. *)
LEMMA NextCursor ==
    ASSUME NEW c \in Ids
    PROVE  (c + 1) % MaxCursor = IF c + 1 = MaxCursor THEN 0 ELSE c + 1
BY TMConstants DEF Ids

(* No two queries of a behaviour have the same id. *)
LEMMA IdOfInjective == \A x, y \in Objects : IdOf(x) = IdOf(y) => x = y
<1>1. MaxQueries \in Nat /\ MaxCursor \in Nat /\ MaxQueries <= MaxCursor
  BY TMConstants, NoIdWrap
<1> QED
  BY <1>1 DEF IdOf, Objects

LEMMA InitIInv == Init => IInv
<1> SUFFICES ASSUME Init PROVE IInv
  OBVIOUS
<1> USE TMConstants, NoIdWrap DEF Init, Objects, Ids, Keys
<1>1. TypeOK
  <2>1. cursor \in Ids /\ packets \in 0..MaxPackets
    OBVIOUS
  <2>2. /\ queries \in Seq(Queries)
        /\ Len(queries) <= MaxQueries /\ queryChan \in Seq(Objects)
    OBVIOUS
  <2>3. frame \in [Procs -> Frames]
    BY DEF Frames, IdleFrame, NoRequest, QueryRequests, QueryTypes
  <2>4. handler \in [Handlers -> Packets]
    BY DEF IdleHandler, Packets
  <2>5. sent \in [Objects -> 0..Try] /\ response \in [Objects -> 0..(Try + 1)]
    OBVIOUS
  <2> QED
    BY <2>1, <2>2, <2>3, <2>4, <2>5 DEF TypeOK, Places
<1>2. LoopCounter /\ IdsAreNumbers
  BY DEF LoopCounter, IdsAreNumbers, IdOf
<1>3. HandlerNames
  BY DEF HandlerNames, IdleHandler
<1>4. FramesHoldMade /\ QueueHoldsQueued
  BY DEF FramesHoldMade, QueueHoldsQueued, IdleFrame
<1>5. TransactionsAreLive /\ IndexedIsLive
  BY DEF TransactionsAreLive, IndexedIsLive, Registered
<1> QED
  BY <1>1, <1>2, <1>3, <1>4, <1>5 DEF IInv

-----------------------------------------------------------------------------
(* The types the proofs use most. *)
LEMMA Types ==
    ASSUME IInv
    PROVE  /\ queries \in Seq(Queries) /\ Len(queries) \in Nat /\ queryChan \in Seq(Objects)
           /\ transactions \in [Ids -> {0} \cup Objects] /\ index \in [Keys -> {0} \cup Objects]
           /\ pc \in [Objects -> Places]
           /\ frame \in [Procs -> Frames] /\ handler \in [Handlers -> Packets]
BY DEF IInv, TypeOK

(* An object that is past "none" has a query, with an id and a key. *)
LEMMA HasQuery ==
    ASSUME IInv, NEW o \in Objects, pc[o] # "none"
    PROVE  /\ o \in 1..Len(queries) /\ queries[o].id \in Ids /\ KeyOf(o) \in Keys
           /\ queries[o].node \in Nodes /\ queries[o].type \in QueryTypes
<1>1. o \in 1..Len(queries)
  BY Types DEF IInv, IdsAreNumbers, Objects
<1>2. queries[o] \in Queries
  BY <1>1, Types
<1> QED
  BY <1>1, <1>2 DEF Queries, KeyOf, Keys

(* What does not move the transactions keeps the parts about them. *)
LEMMA CoreKept ==
    ASSUME IInv, UNCHANGED <<tmVars, pc>>
    PROVE  IdsAreNumbers' /\ QueueHoldsQueued' /\ TransactionsAreLive' /\ IndexedIsLive'
BY DEF IInv, tmVars, IdsAreNumbers, QueueHoldsQueued, TransactionsAreLive, IndexedIsLive,
       KeyOf

(* A goroutine that moves from one registered place to another keeps them. *)
LEMMA RegisteredMove ==
    ASSUME IInv, NEW o \in Objects, NEW place \in Registered,
           pc[o] \in Registered, pc' = [pc EXCEPT ![o] = place],
           UNCHANGED <<tmVars, frame, handler>>
    PROVE  /\ IdsAreNumbers' /\ QueueHoldsQueued' /\ TransactionsAreLive' /\ IndexedIsLive'
           /\ FramesHoldMade' /\ HandlerNames'
<1> USE Types
<1>1. UNCHANGED <<cursor, queries, queryChan, transactions, index, frame, handler>>
  BY DEF tmVars
<1>2. pc[o] \notin {"none", "made", "queued"} /\ place \notin {"none", "made", "queued"}
  BY DEF Registered
<1>3. IdsAreNumbers'
  BY <1>1, <1>2 DEF IInv, IdsAreNumbers
<1>4. QueueHoldsQueued'
  BY <1>1, <1>2 DEF IInv, QueueHoldsQueued
<1>5. FramesHoldMade'
  BY <1>1, <1>2 DEF IInv, FramesHoldMade
<1>6. TransactionsAreLive'
  BY <1>1 DEF IInv, TransactionsAreLive
<1>7. IndexedIsLive'
  BY <1>1 DEF IInv, IndexedIsLive, KeyOf
<1>8. HandlerNames'
  BY <1>1 DEF IInv, HandlerNames
<1> QED
  BY <1>3, <1>4, <1>5, <1>6, <1>7, <1>8

-----------------------------------------------------------------------------
(* Steps of a caller of sendQuery. *)

(* A step that moves frames only, and makes no query in them. *)
LEMMA FrameMove ==
    ASSUME IInv, NEW p \in Procs, NEW f \in Frames, f.at # "sending",
           frame' = [frame EXCEPT ![p] = f],
           UNCHANGED <<tmVars, goroutineVars, response, handler, table, blackList, packets>>
    PROVE  IInv'
<1> USE Types
<1>1. UNCHANGED <<tmVars, pc>> /\ UNCHANGED <<cursor, queries, queryChan, transactions, index,
         pc, sent, success, response, handler, table, blackList, packets>>
  BY DEF tmVars, goroutineVars
<1>2. frame' \in [Procs -> Frames]
  OBVIOUS
<1>3. TypeOK'
  BY <1>1, <1>2 DEF IInv, TypeOK
<1>4. FramesHoldMade'
  BY <1>1 DEF IInv, FramesHoldMade
<1>5. LoopCounter' /\ HandlerNames'
  BY <1>1 DEF IInv, LoopCounter, HandlerNames
<1> QED
  BY <1>1, <1>3, <1>4, <1>5, CoreKept DEF IInv

LEMMA IdleFrameType ==
    ASSUME NEW S \in SUBSET QueryRequests
    PROVE  /\ [IdleFrame EXCEPT !.todo = S] \in Frames
           /\ [IdleFrame EXCEPT !.todo = S].at = "idle"
BY TMConstants DEF IdleFrame, NoRequest, Frames, QueryRequests, QueryTypes

LEMMA CheckIndexKeeps ==
    ASSUME IInv, NEW p \in Procs, CheckIndex(p)
    PROVE  IInv'
<1>1. PICK r \in frame[p].todo :
        LET left == [IdleFrame EXCEPT !.todo = frame[p].todo \ {r}]
        IN  \/ frame' = [frame EXCEPT ![p] = left]
            \/ frame' = [frame EXCEPT ![p] = [left EXCEPT !.at = "checked", !.req = r]]
  BY DEF CheckIndex
<1> DEFINE left == [IdleFrame EXCEPT !.todo = frame[p].todo \ {r}]
           checked == [left EXCEPT !.at = "checked", !.req = r]
<1>2. r \in QueryRequests /\ frame[p].todo \ {r} \in SUBSET QueryRequests
  BY Types DEF Frames
<1>3. left \in Frames /\ left.at = "idle"
  BY <1>2, IdleFrameType
<1>4. checked \in Frames /\ checked.at = "checked"
  BY <1>2, <1>3 DEF Frames
<1>5. UNCHANGED <<tmVars, goroutineVars, response, handler, table, blackList, packets>>
  BY DEF CheckIndex, CallerUnchanged
<1>6. PICK f \in Frames : f.at # "sending" /\ frame' = [frame EXCEPT ![p] = f]
  BY <1>1, <1>3, <1>4
<1> QED
  BY <1>5, <1>6, FrameMove

LEMMA GenTransIDKeeps ==
    ASSUME IInv, NEW p \in Procs, GenTransID(p)
    PROVE  IInv'
<1> USE Types
<1>1. CASE Blocked(frame[p].req.node) \/ Len(queries) >= MaxQueries
  <2>1. frame[p].todo \in SUBSET QueryRequests
    BY DEF Frames
  <2> DEFINE left == [IdleFrame EXCEPT !.todo = frame[p].todo]
  <2>2. left \in Frames /\ left.at = "idle"
    BY <2>1, IdleFrameType
  <2>3. frame' = [frame EXCEPT ![p] = left]
    BY <1>1 DEF GenTransID, SendQueryReturns
  <2>4. UNCHANGED <<tmVars, goroutineVars, response, handler, table, blackList, packets>>
    BY <1>1 DEF GenTransID, tmVars, goroutineVars
  <2> HIDE DEF left
  <2> QED
    BY <2>2, <2>3, <2>4, FrameMove
<1>2. CASE ~(Blocked(frame[p].req.node) \/ Len(queries) >= MaxQueries)
  <2> DEFINE o == Len(queries) + 1
             q == [id |-> cursor', node |-> frame[p].req.node,
                   type |-> frame[p].req.type, hasId |-> frame[p].req.hasId]
             f == [frame[p] EXCEPT !.at = "sending", !.q = o]
  <2>1. /\ cursor' = (cursor + 1) % MaxCursor
        /\ queries' = Append(queries, q)
        /\ pc' = [pc EXCEPT ![o] = "made"]
        /\ frame' = [frame EXCEPT ![p] = f]
        /\ UNCHANGED <<queryChan, transactions, index, sent, success, response, handler,
                       table, blackList, packets>>
    BY <1>2 DEF GenTransID
  <2>2. cursor \in Ids /\ Len(queries) \in Nat /\ Len(queries) < MaxQueries
    BY <1>2, TMConstants DEF IInv, TypeOK
  <2>3. o \in Objects /\ pc[o] = "none" /\ o <= MaxCursor /\ MaxCursor \in Nat \ {0}
    BY <2>2, NoIdWrap, TMConstants DEF Objects, IInv, IdsAreNumbers
  <2>4. cursor' \in Ids /\ cursor' = IdOf(o)
    BY <2>1, <2>2, <2>3, NextCursor DEF Ids, IInv, IdsAreNumbers, IdOf
  <2>5. q \in Queries /\ q.id = IdOf(o)
    BY <2>4 DEF Frames, QueryRequests, Queries
  <2>6. f \in Frames /\ f.at = "sending" /\ f.q = o
    BY <2>3 DEF Frames
  <2> HIDE DEF q, f
  <2>7. /\ queries' \in Seq(Queries) /\ Len(queries') = o /\ queries'[o] = q
        /\ \A i \in 1..Len(queries) : queries'[i] = queries[i]
    BY <2>1, <2>5
  <2>8. \A x \in Objects : pc[x] # "none" => x \in 1..Len(queries) /\ x # o
    BY <2>3, HasQuery
  <2>9. TypeOK'
    <3>1. /\ cursor' \in Ids /\ queries' \in Seq(Queries) /\ Len(queries') <= MaxQueries
          /\ pc' \in [Objects -> Places] /\ frame' \in [Procs -> Frames]
      <4>1. Len(queries') <= MaxQueries
        BY <2>2, <2>7, TMConstants
      <4>2. pc' \in [Objects -> Places]
        BY <2>1, <2>3 DEF Places
      <4>3. frame' \in [Procs -> Frames]
        BY <2>1, <2>6
      <4> QED
        BY <2>4, <2>7, <4>1, <4>2, <4>3
    <3> QED
      BY <2>1, <3>1 DEF IInv, TypeOK
  <2>10. LoopCounter' /\ HandlerNames'
    <3>1. LoopCounter'
      BY <2>1, <2>3 DEF IInv, LoopCounter
    <3>2. 1..Len(queries) \subseteq 1..Len(queries')
      BY <2>2, <2>7
    <3>3. HandlerNames'
      BY <2>1, <3>2 DEF IInv, HandlerNames
    <3> QED
      BY <3>1, <3>3
  <2>11. IdsAreNumbers'
    <3>1. cursor' = IdOf(Len(queries'))
      BY <2>4, <2>7
    <3>2. ASSUME NEW i \in 1..Len(queries') PROVE queries'[i].id = IdOf(i)
      <4>1. CASE i = o
        BY <4>1, <2>5, <2>7
      <4>2. CASE i # o
        <5>1. i \in 1..Len(queries)
          BY <2>2, <2>7, <4>2
        <5> QED
          BY <5>1, <2>7 DEF IInv, IdsAreNumbers
      <4> QED
        BY <4>1, <4>2
    <3>3. ASSUME NEW x \in Objects PROVE pc'[x] = "none" <=> x > Len(queries')
      <4>1. x \in Nat /\ (pc[x] = "none" <=> x > Len(queries))
        BY TMConstants DEF Objects, IInv, IdsAreNumbers
      <4>2. pc'[x] = IF x = o THEN "made" ELSE pc[x]
        BY <2>1, <2>3
      <4> QED
        BY <2>2, <2>7, <4>1, <4>2
    <3> QED
      BY <3>1, <3>2, <3>3 DEF IdsAreNumbers, IdOf
  <2>12. FramesHoldMade'
    BY <2>1, <2>3, <2>6 DEF IInv, FramesHoldMade
  <2>13. QueueHoldsQueued'
    BY <2>1, <2>3 DEF IInv, QueueHoldsQueued
  <2>14. \A x \in Objects : pc[x] \in Registered => x \in 1..Len(queries) /\ x # o
    BY <2>8 DEF Registered
  <2>15. /\ "made" \notin Registered
         /\ \A x \in Objects : x # o => pc'[x] = pc[x]
         /\ pc'[o] = "made"
    BY <2>1, <2>3 DEF Registered
  <2>16. TransactionsAreLive'
    BY <2>1, <2>7, <2>14, <2>15 DEF IInv, TransactionsAreLive
  <2>17. IndexedIsLive'
    BY <2>1, <2>7, <2>14, <2>15 DEF IInv, IndexedIsLive, KeyOf
  <2> QED
    BY <2>9, <2>10, <2>11, <2>12, <2>13, <2>16, <2>17 DEF IInv
<1> QED
  BY <1>1, <1>2

LEMMA SendQueryKeeps ==
    ASSUME IInv, NEW p \in Procs, SendQuery(p)
    PROVE  IInv'
<1> USE Types
<1> DEFINE o == frame[p].q
           f == [IdleFrame EXCEPT !.todo = frame[p].todo]
<1>1. /\ frame[p].at = "sending"
      /\ queryChan' = Append(queryChan, o)
      /\ pc' = [pc EXCEPT ![o] = "queued"]
      /\ frame' = [frame EXCEPT ![p] = f]
      /\ UNCHANGED <<cursor, queries, transactions, index, sent, success, response, handler,
                     table, blackList, packets>>
  BY DEF SendQuery, SendQueryReturns
<1>2. frame[p].todo \in SUBSET QueryRequests
  BY DEF Frames
<1>3. f \in Frames /\ f.at = "idle"
  BY <1>2, IdleFrameType
<1>4. o \in Objects /\ pc[o] = "made"
  BY <1>1 DEF IInv, FramesHoldMade
<1> HIDE DEF f
<1>5. TypeOK'
  BY <1>1, <1>3, <1>4 DEF IInv, TypeOK, Places
<1>6. LoopCounter' /\ HandlerNames'
  BY <1>1, <1>4 DEF IInv, LoopCounter, HandlerNames
<1>7. IdsAreNumbers'
  BY <1>1, <1>4 DEF IInv, IdsAreNumbers
<1>8. FramesHoldMade'
  BY <1>1, <1>3, <1>4 DEF IInv, FramesHoldMade
<1>9. QueueHoldsQueued'
  <2>1. \A i \in 1..Len(queryChan) : queryChan[i] # o
    BY <1>4 DEF IInv, QueueHoldsQueued
  <2>2. /\ Len(queryChan') = Len(queryChan) + 1 /\ queryChan'[Len(queryChan) + 1] = o
        /\ \A i \in 1..Len(queryChan) : queryChan'[i] = queryChan[i] /\ queryChan[i] \in Objects
        /\ Len(queryChan) \in Nat
    BY <1>1, <1>4
  <2> QED
    BY <1>1, <1>4, <2>1, <2>2 DEF IInv, QueueHoldsQueued
<1>10. /\ "queued" \notin Registered /\ "made" \notin Registered
       /\ \A x \in Objects : x # o => pc'[x] = pc[x]
       /\ pc'[o] = "queued"
  BY <1>1, <1>4 DEF Registered
<1>11. TransactionsAreLive'
  BY <1>1, <1>4, <1>10 DEF IInv, TransactionsAreLive
<1>12. IndexedIsLive'
  BY <1>1, <1>4, <1>10 DEF IInv, IndexedIsLive, KeyOf
<1> QED
  BY <1>5, <1>6, <1>7, <1>8, <1>9, <1>11, <1>12 DEF IInv

-----------------------------------------------------------------------------
(* run and the goroutines it starts. *)
LEMMA RunKeeps ==
    ASSUME IInv, Run
    PROVE  IInv'
<1> USE Types
<1> DEFINE o == Head(queryChan)
<1>1. /\ queryChan # <<>> /\ queryChan' = Tail(queryChan)
      /\ pc' = [pc EXCEPT ![o] = "started"]
      /\ UNCHANGED <<cursor, queries, transactions, index, sent, success, response, frame,
                     handler, table, blackList, packets>>
  BY DEF Run
<1>2. /\ 1 \in 1..Len(queryChan) /\ o = queryChan[1] /\ o \in Objects
      /\ queryChan' \in Seq(Objects) /\ Len(queryChan') = Len(queryChan) - 1
      /\ \A i \in 1..Len(queryChan') : queryChan'[i] = queryChan[i + 1]
  BY <1>1
<1>3. pc[o] = "queued"
  BY <1>2 DEF IInv, QueueHoldsQueued
<1>4. TypeOK'
  BY <1>1, <1>2 DEF IInv, TypeOK, Places
<1>5. LoopCounter' /\ HandlerNames'
  BY <1>1, <1>2, <1>3 DEF IInv, LoopCounter, HandlerNames
<1>6. IdsAreNumbers'
  BY <1>1, <1>2, <1>3 DEF IInv, IdsAreNumbers
<1>7. FramesHoldMade'
  BY <1>1, <1>2, <1>3 DEF IInv, FramesHoldMade
<1>8. QueueHoldsQueued'
  <2>1. \A i \in 1..Len(queryChan') : i + 1 \in 1..Len(queryChan) /\ i + 1 # 1
    BY <1>2
  <2>2. ASSUME NEW i \in 1..Len(queryChan')
        PROVE  queryChan'[i] # o /\ pc[queryChan'[i]] = "queued" /\ queryChan'[i] \in Objects
    <3>1. queryChan'[i] = queryChan[i + 1] /\ i + 1 \in 1..Len(queryChan) /\ i + 1 # 1
      BY <1>2, <2>1
    <3> HIDE DEF o
    <3> QED
      BY <1>2, <3>1 DEF IInv, QueueHoldsQueued
  <2>3. \A i, j \in 1..Len(queryChan') : queryChan'[i] = queryChan'[j] => i = j
    BY <1>2, <2>1 DEF IInv, QueueHoldsQueued
  <2> QED
    BY <1>1, <1>2, <2>2, <2>3 DEF QueueHoldsQueued
<1>9. /\ "queued" \notin Registered /\ "started" \notin Registered
      /\ \A x \in Objects : x # o => pc'[x] = pc[x]
      /\ pc'[o] = "started"
  BY <1>1, <1>2 DEF Registered
<1>10. TransactionsAreLive'
  BY <1>1, <1>2, <1>3, <1>9 DEF IInv, TransactionsAreLive
<1>11. IndexedIsLive'
  BY <1>1, <1>2, <1>3, <1>9 DEF IInv, IndexedIsLive, KeyOf
<1> QED
  BY <1>4, <1>5, <1>6, <1>7, <1>8, <1>10, <1>11 DEF IInv

LEMMA InsertKeeps ==
    ASSUME IInv, NEW o \in Objects, Insert(o)
    PROVE  IInv'
<1> USE Types
<1>1. /\ pc[o] = "started" /\ pc' = [pc EXCEPT ![o] = "loop"]
      /\ transactions' = [transactions EXCEPT ![queries[o].id] = o]
      /\ index' = [index EXCEPT ![KeyOf(o)] = o]
      /\ UNCHANGED <<cursor, queries, queryChan, sent, success, response, frame, handler,
                     table, blackList, packets>>
  BY DEF Insert
<1>2. o \in 1..Len(queries) /\ queries[o].id \in Ids /\ KeyOf(o) \in Keys
  BY <1>1, HasQuery
<1>3. /\ "loop" \in Registered /\ "started" \notin Registered
      /\ \A x \in Objects : x # o => pc'[x] = pc[x]
      /\ pc'[o] = "loop"
  BY <1>1 DEF Registered
<1>4. \A x \in Objects : pc[x] \in Registered
        => x \in 1..Len(queries) /\ x # o /\ queries[x].id \in Ids
  BY <1>1, HasQuery DEF Registered
<1>5. ASSUME NEW x \in Objects, pc[x] \in Registered PROVE queries[x].id # queries[o].id
  <2>1. x \in 1..Len(queries) /\ x # o
    BY <1>4, <1>5
  <2>2. queries[x].id = IdOf(x) /\ queries[o].id = IdOf(o)
    BY <2>1, <1>2 DEF IInv, IdsAreNumbers
  <2> QED
    BY <2>1, <2>2, IdOfInjective, Zenon
<1>6. TypeOK'
  BY <1>1, <1>2 DEF IInv, TypeOK, Places, Registered
<1>7. LoopCounter' /\ HandlerNames'
  <2>1. sent[o] = 0 /\ 0 < Try
    BY <1>1, TMConstants DEF IInv, LoopCounter
  <2>2. LoopCounter'
    BY <1>1, <2>1 DEF IInv, LoopCounter
  <2> QED
    BY <1>1, <2>2 DEF IInv, HandlerNames
<1>8. IdsAreNumbers'
  BY <1>1 DEF IInv, IdsAreNumbers
<1>9. FramesHoldMade' /\ QueueHoldsQueued'
  BY <1>1 DEF IInv, FramesHoldMade, QueueHoldsQueued
<1>10. TransactionsAreLive'
  <2>1. ASSUME NEW i \in Ids, transactions'[i] # 0
        PROVE  pc'[transactions'[i]] \in Registered /\ queries[transactions'[i]].id = i
    <3>1. CASE i = queries[o].id
      BY <1>1, <1>2, <1>3, <3>1
    <3>2. CASE i # queries[o].id
      BY <1>1, <1>2, <1>3, <2>1, <3>2 DEF IInv, TransactionsAreLive
    <3> QED
      BY <3>1, <3>2
  <2>2. ASSUME NEW x \in Objects, pc'[x] \in Registered
        PROVE  transactions'[queries[x].id] = x
    <3>1. CASE x = o
      BY <1>1, <1>2, <3>1
    <3>2. CASE x # o
      <4>1. pc[x] \in Registered /\ transactions[queries[x].id] = x
        BY <1>3, <2>2, <3>2 DEF IInv, TransactionsAreLive
      <4> QED
        BY <1>1, <1>4, <1>5, <4>1
    <3> QED
      BY <3>1, <3>2
  <2> QED
    BY <1>1, <2>1, <2>2 DEF TransactionsAreLive
<1>11. IndexedIsLive'
  <2>1. ASSUME NEW k \in Keys, index'[k] # 0
        PROVE  pc'[index'[k]] \in Registered /\ KeyOf(index'[k]) = k
    <3>1. CASE k = KeyOf(o)
      BY <1>1, <1>2, <1>3, <3>1
    <3>2. CASE k # KeyOf(o)
      <4>1. index'[k] = index[k]
        BY <1>1, <3>2
      <4> QED
        BY <1>1, <1>3, <4>1, <2>1 DEF IInv, IndexedIsLive
    <3> QED
      BY <3>1, <3>2
  <2> QED
    BY <1>1, <2>1 DEF IndexedIsLive, KeyOf
<1> QED
  BY <1>6, <1>7, <1>8, <1>9, <1>10, <1>11 DEF IInv

LEMMA DeleteKeeps ==
    ASSUME IInv, NEW o \in Objects, Delete(o)
    PROVE  IInv'
<1> USE Types
<1>1. pc[o] = "delete" /\ pc[o] \in Registered
  BY DEF Delete, Registered
<1>2. o \in 1..Len(queries) /\ queries[o].id \in Ids /\ KeyOf(o) \in Keys
  BY <1>1, HasQuery
<1>3. transactions[queries[o].id] = o /\ o # 0
  BY <1>1, <1>2 DEF IInv, TransactionsAreLive
<1>4. /\ pc' = [pc EXCEPT ![o] = "done"]
      /\ transactions' = [transactions EXCEPT ![queries[o].id] = 0]
      /\ index' = [index EXCEPT ![KeyOf(o)] = 0]
      /\ UNCHANGED <<cursor, queries, queryChan, sent, success, response, frame, handler,
                     table, blackList, packets>>
  BY <1>3 DEF Delete
<1>5. /\ "done" \notin Registered
      /\ \A x \in Objects : x # o => pc'[x] = pc[x]
      /\ pc'[o] = "done"
  BY <1>4 DEF Registered
<1>6. TypeOK'
  BY <1>2, <1>4 DEF IInv, TypeOK, Places
<1>7. LoopCounter' /\ HandlerNames'
  BY <1>4 DEF IInv, LoopCounter, HandlerNames
<1>8. IdsAreNumbers' /\ FramesHoldMade' /\ QueueHoldsQueued'
  BY <1>1, <1>4 DEF IInv, IdsAreNumbers, FramesHoldMade, QueueHoldsQueued
<1>9. TransactionsAreLive'
  <2>1. ASSUME NEW i \in Ids, transactions'[i] # 0
        PROVE  pc'[transactions'[i]] \in Registered /\ queries[transactions'[i]].id = i
    <3>1. i # queries[o].id /\ transactions'[i] = transactions[i]
      BY <1>2, <1>4, <2>1
    <3> QED
      BY <2>1, <3>1, <1>5 DEF IInv, TransactionsAreLive
  <2>2. ASSUME NEW x \in Objects, pc'[x] \in Registered
        PROVE  transactions'[queries[x].id] = x
    <3>1. x # o /\ pc[x] \in Registered /\ transactions[queries[x].id] = x
      BY <1>5, <2>2 DEF IInv, TransactionsAreLive
    <3>2. queries[x].id \in Ids /\ queries[x].id # queries[o].id
      BY <3>1, <1>3, HasQuery DEF Registered
    <3> QED
      BY <1>4, <3>1, <3>2
  <2> QED
    BY <1>4, <2>1, <2>2 DEF TransactionsAreLive
<1>10. IndexedIsLive'
  <2>1. ASSUME NEW k \in Keys, index'[k] # 0
        PROVE  pc'[index'[k]] \in Registered /\ KeyOf(index'[k]) = k
    <3>1. k # KeyOf(o) /\ index'[k] = index[k]
      BY <1>2, <1>4, <2>1
    <3>2. KeyOf(index[k]) = k /\ pc[index[k]] \in Registered /\ index[k] \in Objects
      BY <2>1, <3>1 DEF IInv, IndexedIsLive
    <3> QED
      BY <1>5, <3>1, <3>2
  <2> QED
    BY <1>4, <2>1 DEF IndexedIsLive, KeyOf
<1> QED
  BY <1>6, <1>7, <1>8, <1>9, <1>10 DEF IInv

(* The steps of a goroutine between insert and delete. *)
LEMMA LoopKeeps ==
    ASSUME IInv, NEW o \in Objects,
           \/ Send(o) \/ SendFails(o) \/ Receive(o) \/ Timeout(o)
           \/ GiveUp(o) \/ Lookup(o) \/ Remove(o)
    PROVE  IInv'
<1> USE Types
<1>1. UNCHANGED <<tmVars, frame, handler, packets>>
  BY DEF Send, SendFails, Receive, Timeout, GiveUp, Lookup, Remove, GoroutineUnchanged
<1>2. pc[o] \in Registered
  BY DEF Send, SendFails, Receive, Timeout, GiveUp, Lookup, Remove, Registered
<1>3. PICK place \in Registered : pc' = [pc EXCEPT ![o] = place]
  <2>1. \A ok \in BOOLEAN : AfterLoop(o, ok) \in Registered
    BY DEF AfterLoop, Registered
  <2>2. success[o] \in BOOLEAN
    BY DEF IInv, TypeOK
  <2>3. {"loop", "wait", "block", "lookup", "remove", "delete"} \subseteq Registered
    BY DEF Registered
  <2>4. CASE Send(o) \/ GiveUp(o) \/ Lookup(o) \/ Remove(o)
    BY <2>3, <2>4 DEF Send, GiveUp, Lookup, Remove
  <2>5. CASE SendFails(o)
    BY <2>1, <2>2, <2>5 DEF SendFails
  <2>6. CASE Receive(o) \/ Timeout(o)
    <3>1. PICK ok \in BOOLEAN : NextIteration(o, ok)
      BY <2>2, <2>6 DEF Receive, Timeout
    <3> QED
      BY <2>1, <2>3, <3>1 DEF NextIteration
  <2> QED
    BY <2>4, <2>5, <2>6
<1>4. o \in 1..Len(queries) /\ queries[o].node \in Nodes
  <2>1. o \in 1..Len(queries)
    BY <1>2, HasQuery DEF Registered
  <2>2. queries[o] \in Queries
    BY <2>1
  <2> QED
    BY <2>1, <2>2 DEF Queries
<1>5. LoopCounter'
  <2>1. CASE Send(o)
    BY <2>1 DEF Send, IInv, TypeOK, LoopCounter
  <2>2. CASE Receive(o) \/ Timeout(o)
    <3>1. pc'[o] = "loop" => sent[o] < Try
      BY <2>2 DEF Receive, Timeout, NextIteration, AfterLoop
    <3>2. pc'[o] \in {"loop", "delete", "block"}
      BY <2>2 DEF Receive, Timeout, NextIteration, AfterLoop
    <3>3. sent' = sent
      BY <2>2 DEF Receive, Timeout
    <3> QED
      BY <1>3, <3>1, <3>2, <3>3 DEF IInv, LoopCounter
  <2>3. CASE SendFails(o) \/ GiveUp(o) \/ Lookup(o) \/ Remove(o)
    BY <2>3 DEF SendFails, GiveUp, Lookup, Remove, AfterLoop, IInv, LoopCounter
  <2> QED
    BY <2>1, <2>2, <2>3
<1>6. sent' \in [Objects -> 0..Try] /\ success' \in [Objects -> BOOLEAN]
  <2>1. sent \in [Objects -> 0..Try] /\ success \in [Objects -> BOOLEAN] /\ Try \in Nat
    BY TMConstants DEF IInv, TypeOK
  <2>2. CASE Send(o)
    <3>1. sent[o] < Try /\ sent[o] \in Nat
      BY <2>1, <2>2 DEF Send, IInv, LoopCounter
    <3> QED
      BY <2>1, <2>2, <3>1 DEF Send
  <2>3. CASE ~Send(o)
    BY <2>1, <2>3 DEF SendFails, Receive, Timeout, GiveUp, Lookup, Remove
  <2> QED
    BY <2>2, <2>3
<1>7. response' \in [Objects -> 0..(Try + 1)]
  <2>1. response \in [Objects -> 0..(Try + 1)] /\ Try \in Nat
    BY TMConstants DEF IInv, TypeOK
  <2>2. CASE Receive(o)
    BY <2>1, <2>2 DEF Receive
  <2>3. CASE ~Receive(o)
    BY <2>1, <2>3 DEF Send, SendFails, Timeout, GiveUp, Lookup, Remove
  <2> QED
    BY <2>2, <2>3
<1>8. table' \subseteq Nodes
  BY DEF IInv, TypeOK, Send, SendFails, Receive, Timeout, GiveUp, Lookup, Remove
<1>9. blackList' \subseteq Nodes \cup Ips
  <2>1. \/ blackList' \subseteq blackList
        \/ blackList' = blackList \cup {queries[o].node}
        \/ blackList' = blackList \cup {IpOf[queries[o].node]}
    BY DEF Send, SendFails, Receive, Timeout, GiveUp, Lookup, Remove, BlackListInsert
  <2>2. blackList \subseteq Nodes \cup Ips /\ IpOf[queries[o].node] \in Ips
    BY <1>4, TMConstants DEF IInv, TypeOK
  <2> QED
    BY <1>4, <2>1, <2>2
<1>10. TypeOK'
  <2>1. pc' \in [Objects -> Places]
    BY <1>3 DEF Places
  <2> QED
    BY <1>1, <1>6, <1>7, <1>8, <1>9, <2>1 DEF IInv, TypeOK, tmVars
<1> QED
  BY <1>1, <1>2, <1>3, <1>5, <1>10, RegisteredMove DEF IInv

-----------------------------------------------------------------------------
(* The packet handlers, and the steps of other parts. *)

(* What a step of a handler leaves alone, and what it may do to the rest. *)
LEMMA HandlerMove ==
    ASSUME IInv, NEW h \in Handlers, NEW f \in Packets,
           handler' = [handler EXCEPT ![h] = f],
           f.at \in {"find", "set found", "neighbors", "push"} => f.q \in 1..Len(queries),
           UNCHANGED <<tmVars, goroutineVars, frame>>,
           response' \in [Objects -> 0..(Try + 1)], table' \subseteq Nodes,
           blackList' \subseteq Nodes \cup Ips, packets' \in 0..MaxPackets
    PROVE  IInv'
<1> USE Types
<1>1. UNCHANGED <<tmVars, pc>>
  BY DEF goroutineVars
<1>2. UNCHANGED <<cursor, queries, queryChan, transactions, index, pc, sent, success, frame>>
  BY DEF tmVars, goroutineVars
<1>3. TypeOK'
  BY <1>2 DEF IInv, TypeOK
<1>4. LoopCounter' /\ FramesHoldMade'
  BY <1>2 DEF IInv, LoopCounter, FramesHoldMade
<1>5. HandlerNames'
  BY <1>2 DEF IInv, HandlerNames
<1> QED
  BY <1>1, <1>3, <1>4, <1>5, CoreKept DEF IInv

LEMMA AcceptKeeps ==
    ASSUME IInv, NEW h \in Handlers, HandleRequest(h) \/ HandleAnswer(h)
    PROVE  IInv'
<1>1. PICK f \in Packets :
        /\ Accept(h, f)
        /\ f.at \in {"find", "set found", "neighbors", "push"} => f.q \in 1..Len(queries)
  <2>1. CASE HandleRequest(h)
    <3>1. PICK n \in Nodes, sameId \in BOOLEAN :
            Accept(h, [at |-> IF sameId THEN "insert" ELSE "block", q |-> 0, node |-> n,
                       kind |-> "request", found |-> {}])
      BY <2>1 DEF HandleRequest
    <3> DEFINE f == [at |-> IF sameId THEN "insert" ELSE "block", q |-> 0, node |-> n,
                     kind |-> "request", found |-> {}]
    <3>2. f \in Packets /\ f.at \in {"insert", "block"}
      BY DEF Packets
    <3>3. Accept(h, f)
      BY <3>1
    <3> HIDE DEF f
    <3> QED
      BY <3>2, <3>3
  <2>2. CASE HandleAnswer(h)
    <3>1. PICK o \in Objects, kind \in {"error", "wrong id", "values", "nodes"},
               found \in {{}} \cup {{n} : n \in Nodes} :
            pc[o] \in Registered /\ Accept(h, Answer(o, kind, found))
      BY <2>2 DEF HandleAnswer
    <3> DEFINE place == CASE kind = "wrong id" -> "block"
                          [] kind = "nodes" /\ found # {} -> "find"
                          [] OTHER -> "push"
               f == Answer(o, kind, found)
    <3>2. place \in {"block", "find", "push"}
      OBVIOUS
    <3>3. o \in 1..Len(queries) /\ queries[o].node \in Nodes
      BY <3>1, HasQuery DEF Registered
    <3>4. found \subseteq Nodes
      OBVIOUS
    <3>5. f = [at |-> place, q |-> o, node |-> queries[o].node, kind |-> kind,
               found |-> found]
      BY DEF Answer
    <3> HIDE DEF place, f
    <3>6. f \in Packets /\ f.q = o
      <4>1. ASSUME NEW x, x \subseteq Nodes, NEW n \in Nodes
            PROVE  [at |-> place, q |-> o, node |-> n, kind |-> kind, found |-> x] \in Packets
        BY <3>2, <4>1 DEF Packets
      <4> QED
        BY <3>3, <3>4, <3>5, <4>1
    <3> QED
      BY <3>1, <3>3, <3>6 DEF f
  <2> QED
    BY <2>1, <2>2
<1>2. /\ handler' = [handler EXCEPT ![h] = f]
      /\ packets < MaxPackets /\ packets' = packets + 1
      /\ UNCHANGED <<tmVars, goroutineVars, frame, response, table, blackList>>
  BY <1>1 DEF Accept
<1>3. /\ response' \in [Objects -> 0..(Try + 1)] /\ table' \subseteq Nodes
      /\ blackList' \subseteq Nodes \cup Ips
  BY <1>2 DEF IInv, TypeOK
<1>4. packets' \in 0..MaxPackets
  BY <1>2, TMConstants DEF IInv, TypeOK
<1> QED
  BY <1>1, <1>2, <1>3, <1>4, HandlerMove

LEMMA FollowUpKeeps ==
    ASSUME IInv, NEW h \in Handlers, FollowUp(h)
    PROVE  IInv'
<1> USE Types
<1> DEFINE q == handler[h].q
           f == [handler[h] EXCEPT !.at = "push"]
<1>1. q \in 1..Len(queries)
  BY DEF FollowUp, IInv, HandlerNames
<1>2. queries[q].type \in QueryTypes
  <2>1. queries[q] \in Queries
    <3> HIDE DEF q
    <3> QED
      BY <1>1
  <2> QED
    BY <2>1 DEF Queries
<1>3. PICK S \in Neighbors :
        frame' = [frame EXCEPT ![h] = [@ EXCEPT !.todo =
                    [node : S, type : {queries[q].type}, hasId : {TRUE}]]]
  BY DEF FollowUp, Start
<1> DEFINE g == [frame[h] EXCEPT !.todo =
                    [node : S, type : {queries[q].type}, hasId : {TRUE}]]
<1>4. S \subseteq Nodes
  BY <1>3 DEF Neighbors, IInv, TypeOK
<1>5. h \in Procs /\ frame' = [frame EXCEPT ![h] = g]
  BY <1>3 DEF Procs
<1>6. g \in Frames /\ g.at = frame[h].at /\ g.q = frame[h].q
  <2>1. [node : S, type : {queries[q].type}, hasId : {TRUE}] \in SUBSET QueryRequests
    BY <1>2, <1>4 DEF QueryRequests
  <2> HIDE DEF q
  <2> QED
    BY <1>5, <2>1 DEF Frames
<1> HIDE DEF g
<1>7. /\ handler' = [handler EXCEPT ![h] = f]
      /\ UNCHANGED <<tmVars, goroutineVars, packets, response, table, blackList>>
  BY DEF FollowUp, At, HandlerUnchanged
<1>8. f \in Packets
  BY DEF Packets
<1>9. UNCHANGED <<tmVars, pc>>
  BY <1>7 DEF goroutineVars
<1>10. UNCHANGED <<cursor, queries, queryChan, transactions, index, pc, sent, success,
                  response, table, blackList, packets>>
  BY <1>7 DEF tmVars, goroutineVars
<1>11. TypeOK'
  BY <1>5, <1>6, <1>7, <1>8, <1>10 DEF IInv, TypeOK
<1>12. FramesHoldMade'
  BY <1>5, <1>6, <1>10 DEF IInv, FramesHoldMade
<1>13. HandlerNames'
  <2>1. f.q = q
    BY DEF Packets
  <2> HIDE DEF f
  <2> QED
    BY <1>1, <1>7, <1>8, <1>10, <2>1 DEF IInv, HandlerNames
<1>14. LoopCounter'
  BY <1>10 DEF IInv, LoopCounter
<1> QED
  BY <1>9, <1>11, <1>12, <1>13, <1>14, CoreKept DEF IInv

LEMMA HandlerKeeps ==
    ASSUME IInv, NEW h \in Handlers, Handler(h)
    PROVE  IInv'
<1> USE Types
<1> DEFINE Others == \/ CheckFound(h) \/ SetFound(h) \/ Push(h) \/ Unblock(h)
                     \/ CheckInsert(h) \/ SetInsert(h) \/ BlockSender(h)
                     \/ LookupSender(h) \/ RemoveSender(h)
<1>1. CASE FollowUp(h)
  BY <1>1, FollowUpKeeps
<1>2. CASE Others
  <2>1. UNCHANGED <<tmVars, goroutineVars, frame>> /\ packets' = packets
    BY <1>2 DEF CheckFound, SetFound, Push, Unblock, CheckInsert, SetInsert, BlockSender,
       LookupSender, RemoveSender, HandlerUnchanged
  <2>2. /\ handler[h].node \in Nodes /\ handler[h].found \subseteq Nodes
        /\ handler[h].q \in {0} \cup Objects
    BY DEF Packets
  <2>3. table' \subseteq Nodes
    BY <1>2, <2>2 DEF IInv, TypeOK, CheckFound, SetFound, Push, Unblock, CheckInsert,
       SetInsert, BlockSender, LookupSender, RemoveSender
  <2>4. blackList' \subseteq Nodes \cup Ips
    BY <1>2, <2>2 DEF IInv, TypeOK, CheckFound, SetFound, Push, Unblock, CheckInsert,
       SetInsert, BlockSender, LookupSender, RemoveSender, BlackListInsert
  <2>5. response' \in [Objects -> 0..(Try + 1)]
    <3>1. response \in [Objects -> 0..(Try + 1)] /\ Try \in Nat
      BY TMConstants DEF IInv, TypeOK
    <3>2. CASE Push(h)
      <4>1. handler[h].q \in Objects
        <5>1. handler[h].q \in 1..Len(queries)
          BY <3>2 DEF Push, IInv, HandlerNames
        <5> QED
          BY <2>2, <5>1
      <4> QED
        BY <3>1, <3>2, <4>1 DEF Push
    <3>3. CASE ~Push(h)
      BY <1>2, <3>1, <3>3 DEF CheckFound, SetFound, Unblock, CheckInsert, SetInsert,
         BlockSender, LookupSender, RemoveSender
    <3> QED
      BY <3>2, <3>3
  <2>6. packets' \in 0..MaxPackets
    BY <2>1 DEF IInv, TypeOK
  <2>7. IdleHandler \in Packets /\ IdleHandler.at = "idle"
    BY TMConstants DEF IdleHandler, Packets
  <2>8. PICK f \in Packets :
          /\ handler' = [handler EXCEPT ![h] = f]
          /\ f.at \in {"find", "set found", "neighbors", "push"} => f.q \in 1..Len(queries)
    <3>1. CASE Return(h)
      BY <3>1, <2>7 DEF Return
    <3>2. CASE CheckFound(h) \/ SetFound(h)
      <4>1. handler[h].q \in 1..Len(queries)
        BY <3>2 DEF CheckFound, SetFound, IInv, HandlerNames
      <4>2. PICK place \in {"push", "set found", "neighbors"} : At(h, place)
        BY <3>2 DEF CheckFound, SetFound
      <4> DEFINE f == [handler[h] EXCEPT !.at = place]
      <4>3. f \in Packets /\ f.q = handler[h].q /\ handler' = [handler EXCEPT ![h] = f]
        BY <4>2 DEF At, Packets
      <4> HIDE DEF f
      <4> QED
        BY <4>1, <4>3
    <3>3. CASE ~Return(h) /\ ~CheckFound(h) /\ ~SetFound(h)
      <4>1. PICK place \in {"unblock", "insert", "set", "lookup", "remove"} : At(h, place)
        BY <1>2, <3>3 DEF Push, Unblock, CheckInsert, SetInsert, BlockSender, LookupSender,
           RemoveSender
      <4> DEFINE f == [handler[h] EXCEPT !.at = place]
      <4>2. f \in Packets /\ f.at = place /\ handler' = [handler EXCEPT ![h] = f]
        BY <4>1 DEF At, Packets
      <4> HIDE DEF f
      <4> QED
        BY <4>2
    <3> QED
      BY <3>1, <3>2, <3>3
  <2> QED
    BY <2>1, <2>3, <2>4, <2>5, <2>6, <2>8, HandlerMove
<1> QED
  BY <1>1, <1>2 DEF Handler

LEMMA EnvironmentKeeps ==
    ASSUME IInv,
           Expire \/ Evict \/ Join \/ \E c \in Callers : Fresh(c) \/ GetPeers(c)
    PROVE  IInv'
<1> USE Types
<1>1. CASE Expire \/ Evict
  <2>1. /\ UNCHANGED <<tmVars, pc>>
        /\ UNCHANGED <<cursor, queries, queryChan, transactions, index, pc, sent, success,
                       response, frame, handler, packets>>
    BY <1>1 DEF Expire, Evict, tmVars, goroutineVars
  <2>2. table' \subseteq table /\ blackList' \subseteq blackList
    BY <1>1 DEF Expire, Evict
  <2>3. TypeOK'
    BY <2>1, <2>2 DEF IInv, TypeOK
  <2>4. LoopCounter' /\ FramesHoldMade' /\ HandlerNames'
    BY <2>1 DEF IInv, LoopCounter, FramesHoldMade, HandlerNames
  <2> QED
    BY <2>1, <2>3, <2>4, CoreKept DEF IInv
<1>2. CASE Join \/ \E c \in Callers : Fresh(c) \/ GetPeers(c)
  <2>1. table \subseteq Nodes
    BY DEF IInv, TypeOK
  <2>2. PICK p \in Procs, S \in SUBSET QueryRequests : Idle(p) /\ Start(p, S)
    <3>1. CASE Join
      <4>1. [node : PrimeNodes, type : {"find_node"}, hasId : {FALSE}] \subseteq QueryRequests
        BY TMConstants DEF QueryRequests, QueryTypes
      <4> QED
        BY <3>1, <4>1 DEF Join, Procs
    <3>2. ASSUME NEW c \in Callers, Fresh(c) \/ GetPeers(c)
          PROVE  \E T \in SUBSET QueryRequests : Idle(c) /\ Start(c, T)
      <4>1. PICK S \in SUBSET table, t \in QueryTypes :
              Idle(c) /\ Start(c, [node : S, type : {t}, hasId : {TRUE}])
        BY <3>2 DEF Fresh, GetPeers, Neighbors, QueryTypes
      <4>2. [node : S, type : {t}, hasId : {TRUE}] \subseteq QueryRequests
        BY <2>1 DEF QueryRequests
      <4> QED
        BY <4>1, <4>2
    <3> QED
      BY <1>2, <3>1, <3>2 DEF Procs
  <2> DEFINE f == [frame[p] EXCEPT !.todo = S]
  <2>3. frame' = [frame EXCEPT ![p] = f]
    BY <2>2 DEF Start
  <2>4. f \in Frames /\ f.at # "sending"
    BY <2>2 DEF Frames, Idle
  <2>5. UNCHANGED <<tmVars, goroutineVars, response, handler, table, blackList, packets>>
    BY <1>2 DEF Join, Fresh, GetPeers, CallerUnchanged
  <2> HIDE DEF f
  <2> QED
    BY <2>3, <2>4, <2>5, FrameMove
<1> QED
  BY <1>1, <1>2

-----------------------------------------------------------------------------
(* The invariant is inductive. *)
LEMMA NextIInv ==
    ASSUME IInv, [Next]_vars
    PROVE  IInv'
<1>1. CASE Join \/ Expire \/ Evict \/ \E c \in Callers : Fresh(c) \/ GetPeers(c)
  BY <1>1, EnvironmentKeeps
<1>2. CASE Run
  BY <1>2, RunKeeps
<1>3. ASSUME NEW p \in Procs, CallerStep(p) PROVE IInv'
  BY <1>3, CheckIndexKeeps, GenTransIDKeeps, SendQueryKeeps DEF CallerStep
<1>4. ASSUME NEW o \in Objects, Goroutine(o) PROVE IInv'
  BY <1>4, InsertKeeps, LoopKeeps, DeleteKeeps DEF Goroutine
<1>5. ASSUME NEW h \in Handlers, HandleRequest(h) \/ HandleAnswer(h) \/ Handler(h)
      PROVE  IInv'
  BY <1>5, AcceptKeeps, HandlerKeeps
<1>6. CASE UNCHANGED vars
  <2>1. /\ UNCHANGED <<tmVars, pc>>
        /\ UNCHANGED <<cursor, queries, queryChan, transactions, index, pc, sent, success,
                       response, frame, handler, table, blackList, packets>>
    BY <1>6 DEF vars, tmVars, goroutineVars
  <2>2. TypeOK'
    BY <2>1 DEF IInv, TypeOK
  <2>3. LoopCounter' /\ FramesHoldMade' /\ HandlerNames'
    BY <2>1 DEF IInv, LoopCounter, FramesHoldMade, HandlerNames
  <2> QED
    BY <2>1, <2>2, <2>3, CoreKept DEF IInv
<1> QED
  BY <1>1, <1>2, <1>3, <1>4, <1>5, <1>6 DEF Next

(* The type invariant, for any number of nodes, callers and workers. *)
THEOREM TypeCorrect == Spec => []TypeOK
<1>1. IInv => TypeOK
  BY DEF IInv
<1> QED
  BY <1>1, InitIInv, NextIInv, PTL DEF Spec

(* krpc.go:207-229: the transactions map is exactly the set of queries     *)
(* whose goroutine is between insert and delete, each under its own id.    *)
THEOREM TransactionsCorrect == Spec => []TransactionsMatchGoroutines
<1>1. IInv => TransactionsMatchGoroutines
  <2> SUFFICES ASSUME IInv PROVE TransactionsMatchGoroutines
    OBVIOUS
  <2>1. ASSUME NEW o \in Objects, pc[o] \in Registered
        PROVE  \E i \in Ids : transactions[i] = o /\ queries[o].id = i
    BY <2>1, HasQuery DEF IInv, TransactionsAreLive, Registered
  <2>2. ASSUME NEW o \in Objects, NEW i \in Ids, transactions[i] = o
        PROVE  pc[o] \in Registered
    BY <2>2 DEF IInv, TransactionsAreLive, Objects
  <2> QED
    BY <2>1, <2>2 DEF TransactionsMatchGoroutines
<1> QED
  BY <1>1, InitIInv, NextIInv, PTL DEF Spec

(* krpc.go:216-229 and 324-328: no node is refused for ever because of an  *)
(* index entry that outlives its query.                                    *)
THEOREM IndexCorrect == Spec => []IndexedIsLive
<1>1. IInv => IndexedIsLive
  BY DEF IInv
<1> QED
  BY <1>1, InitIInv, NextIInv, PTL DEF Spec

-----------------------------------------------------------------------------
(* The bound of the table: whoever may write has seen room, and is alone.  *)
Setting == {"set found", "set"}
Room ==
    /\ Cardinality(table) <= MaxNodes
    /\ \A h \in Handlers : handler[h].at \in Setting => Cardinality(table) < MaxNodes
    /\ \A h, g \in Handlers :
          handler[h].at \in Setting /\ handler[g].at \in Setting => h = g
    /\ \A h \in Handlers : handler[h].at \in {"find", "set found"}
          => \E n \in Nodes : handler[h].found = {n}

LEMMA TableIsFinite ==
    ASSUME IInv
    PROVE  /\ IsFiniteSet(table) /\ Cardinality(table) \in Nat
           /\ \A n : Cardinality(table \cup {n}) <= Cardinality(table) + 1
           /\ \A T : T \subseteq table => Cardinality(T) <= Cardinality(table)
                                        /\ Cardinality(T) \in Nat
<1>1. IsFiniteSet(table)
  BY TMConstants, FS_Subset DEF IInv, TypeOK
<1>2. Cardinality(table) \in Nat
  BY <1>1, FS_CardinalityType
<1>3. ASSUME NEW n PROVE Cardinality(table \cup {n}) <= Cardinality(table) + 1
  BY <1>1, <1>2, FS_AddElement
<1>4. ASSUME NEW T, T \subseteq table
      PROVE  Cardinality(T) <= Cardinality(table) /\ Cardinality(T) \in Nat
  BY <1>1, <1>4, FS_Subset, FS_CardinalityType
<1> QED
  BY <1>1, <1>2, <1>3, <1>4

LEMMA LeqTransitive ==
    \A a, b, c \in Nat : a <= b => (b <= c => a <= c) /\ (b < c => a < c)
OBVIOUS

(* A step that shrinks the table and lets no handler start to write. *)
LEMMA RoomShrinks ==
    ASSUME IInv, Room, table' \subseteq table,
           \A h \in Handlers : handler'[h].at \in Setting => handler[h].at \in Setting,
           \A h \in Handlers : handler'[h].at \in {"find", "set found"}
              => \E n \in Nodes : handler'[h].found = {n}
    PROVE  Room'
<1>1. Cardinality(table') <= Cardinality(table) /\ Cardinality(table') \in Nat
      /\ Cardinality(table) \in Nat /\ MaxNodes \in Nat
  BY TableIsFinite, TMConstants
<1>5. Cardinality(table) <= MaxNodes
  BY DEF Room
<1>3. Cardinality(table') <= MaxNodes
  BY <1>1, <1>5, LeqTransitive, Zenon
<1>2. ASSUME NEW h \in Handlers, handler'[h].at \in Setting
      PROVE  Cardinality(table') < MaxNodes
  <2>1. Cardinality(table) < MaxNodes
    BY <1>2 DEF Room
  <2> QED
    BY <1>1, <2>1, LeqTransitive, Zenon
<1>4. \A h, g \in Handlers :
          handler'[h].at \in Setting /\ handler'[g].at \in Setting => h = g
  BY DEF Room
<1> QED
  BY <1>2, <1>3, <1>4 DEF Room, Setting

LEMMA RoomHandler ==
    ASSUME IInv, Room, NEW h \in Handlers, Handler(h)
    PROVE  Room'
<1> USE Types
<1>1. handler[h] \in Packets
  OBVIOUS
<1>2. ASSUME NEW place, At(h, place)
      PROVE  /\ handler'[h].at = place /\ handler'[h].found = handler[h].found
             /\ \A g \in Handlers : g # h => handler'[g] = handler[g]
  BY <1>1, <1>2 DEF At, Packets
<1>3. ASSUME Return(h)
      PROVE  /\ handler'[h].at = "idle"
             /\ \A g \in Handlers : g # h => handler'[g] = handler[g]
  BY <1>3 DEF Return, IdleHandler
<1>8. \A g \in Handlers : g # h => handler'[g] = handler[g]
  BY <1>2, <1>3 DEF Handler, CheckFound, SetFound, FollowUp, Push, Unblock, CheckInsert,
     SetInsert, BlockSender, LookupSender, RemoveSender
<1>4. CASE CheckFound(h) \/ CheckInsert(h)
  <2>1. table' = table /\ TableFree
    BY <1>4 DEF CheckFound, CheckInsert
  <2>2. \A g \in Handlers : handler[g].at \notin Setting
    BY <2>1 DEF TableFree, Setting
  <2>7. Cardinality(table) \in Nat /\ MaxNodes \in Nat
    BY TableIsFinite, TMConstants
  <2>3. \/ Cardinality(table) < MaxNodes
        \/ handler'[h].at \notin Setting
    <3>1. CASE CheckFound(h)
      <4>1. PICK n \in handler[h].found : At(h, IF Refused(n) THEN "push" ELSE "set found")
        BY <3>1 DEF CheckFound
      <4>2. Refused(n) => handler'[h].at = "push"
        BY <1>2, <4>1
      <4>3. ~Refused(n) => Cardinality(table) < MaxNodes
        BY <2>7 DEF Refused
      <4> QED
        BY <4>2, <4>3 DEF Setting
    <3>2. CASE CheckInsert(h)
      <4>1. Refused(handler[h].node) => handler'[h].at = "idle"
        BY <1>3, <3>2 DEF CheckInsert
      <4>2. ~Refused(handler[h].node) => Cardinality(table) < MaxNodes
        BY <2>7 DEF Refused
      <4> QED
        BY <4>1, <4>2 DEF Setting
    <3> QED
      BY <1>4, <3>1, <3>2
  <2>4. handler'[h].at \in {"find", "set found"} => \E n \in Nodes : handler'[h].found = {n}
    <3>1. CASE CheckFound(h)
      <4>1. handler'[h].found = handler[h].found /\ handler[h].at = "find"
        BY <1>2, <3>1 DEF CheckFound
      <4> QED
        BY <4>1 DEF Room
    <3>2. CASE CheckInsert(h)
      <4>1. Return(h) \/ At(h, "set")
        BY <3>2 DEF CheckInsert
      <4>2. handler'[h].at \in {"idle", "set"}
        BY <1>2, <1>3, <4>1
      <4> QED
        BY <4>2
    <3> QED
      BY <1>4, <3>1, <3>2
  <2>5. \A g \in Handlers : handler'[g].at \in Setting => g = h
    BY <1>8, <2>2
  <2>6. \A g \in Handlers : handler'[g].at \in {"find", "set found"}
          => \E n \in Nodes : handler'[g].found = {n}
    BY <1>8, <2>4 DEF Room
  <2> QED
    BY <2>1, <2>3, <2>5, <2>6 DEF Room
<1>5. CASE SetFound(h) \/ SetInsert(h)
  <2>1. handler[h].at \in Setting
    BY <1>5 DEF SetFound, SetInsert, Setting
  <2>2. PICK n : table' = table \cup {n}
    <3>1. CASE SetFound(h)
      BY <3>1 DEF SetFound, Room
    <3>2. CASE SetInsert(h)
      BY <3>2 DEF SetInsert
    <3> QED
      BY <1>5, <3>1, <3>2
  <2>3. Cardinality(table') <= MaxNodes
    <3>1. Cardinality(table) < MaxNodes
      BY <2>1 DEF Room
    <3>2. Cardinality(table') <= Cardinality(table) + 1 /\ Cardinality(table) \in Nat
      BY <2>2, TableIsFinite
    <3>3. Cardinality(table') \in Nat
      BY <2>2, TableIsFinite, FS_AddElement, FS_CardinalityType
    <3> QED
      BY <3>1, <3>2, <3>3, TMConstants
  <2>4. handler'[h].at \notin Setting \cup {"find"}
    <3>1. Return(h) \/ At(h, "push") \/ At(h, "neighbors")
      BY <1>5 DEF SetFound, SetInsert
    <3>2. handler'[h].at \in {"idle", "push", "neighbors"}
      BY <1>2, <1>3, <3>1
    <3> QED
      BY <3>2 DEF Setting
  <2>5. \A g \in Handlers : handler'[g].at \notin Setting
    BY <1>8, <2>1, <2>4 DEF Room
  <2>6. \A g \in Handlers : handler'[g].at \in {"find", "set found"}
          => \E m \in Nodes : handler'[g].found = {m}
    BY <1>8, <2>4 DEF Room, Setting
  <2> QED
    BY <2>3, <2>5, <2>6 DEF Room
<1>6. CASE \/ FollowUp(h) \/ Push(h) \/ Unblock(h) \/ BlockSender(h) \/ LookupSender(h)
           \/ RemoveSender(h)
  <2>1. table' \subseteq table
    BY <1>6 DEF FollowUp, Push, Unblock, BlockSender, LookupSender, RemoveSender
  <2>2. handler'[h].at \notin Setting \cup {"find"}
    <3>1. PICK place \in {"push", "unblock", "insert", "lookup", "remove"} :
            Return(h) \/ At(h, place)
      BY <1>6 DEF FollowUp, Push, Unblock, BlockSender, LookupSender, RemoveSender
    <3>2. handler'[h].at \in {"idle", "push", "unblock", "insert", "lookup", "remove"}
      BY <1>2, <1>3, <3>1
    <3> QED
      BY <3>2 DEF Setting
  <2>3. \A g \in Handlers : handler'[g].at \in Setting => handler[g].at \in Setting
    BY <1>8, <2>2
  <2>4. \A g \in Handlers : handler'[g].at \in {"find", "set found"}
          => \E m \in Nodes : handler'[g].found = {m}
    BY <1>8, <2>2 DEF Room, Setting
  <2> QED
    BY <2>1, <2>3, <2>4, RoomShrinks
<1> QED
  BY <1>4, <1>5, <1>6 DEF Handler

LEMMA RoomAccept ==
    ASSUME IInv, Room, NEW h \in Handlers, HandleRequest(h) \/ HandleAnswer(h)
    PROVE  Room'
<1> USE Types
<1>1. PICK f : /\ Accept(h, f)
               /\ f.at \notin Setting
               /\ f.at = "find" => \E n \in Nodes : f.found = {n}
  <2>1. CASE HandleRequest(h)
    <3>1. PICK n \in Nodes, sameId \in BOOLEAN :
            Accept(h, [at |-> IF sameId THEN "insert" ELSE "block", q |-> 0, node |-> n,
                       kind |-> "request", found |-> {}])
      BY <2>1 DEF HandleRequest
    <3> DEFINE f == [at |-> IF sameId THEN "insert" ELSE "block", q |-> 0, node |-> n,
                     kind |-> "request", found |-> {}]
    <3>2. f.at \in {"insert", "block"} /\ Accept(h, f)
      BY <3>1
    <3> HIDE DEF f
    <3> QED
      BY <3>2 DEF Setting
  <2>2. CASE HandleAnswer(h)
    <3>1. PICK o \in Objects, kind \in {"error", "wrong id", "values", "nodes"},
               found \in {{}} \cup {{n} : n \in Nodes} : Accept(h, Answer(o, kind, found))
      BY <2>2 DEF HandleAnswer
    <3>2. Answer(o, kind, found).at \in {"block", "find", "push"}
      BY DEF Answer
    <3>3. Answer(o, kind, found).at = "find"
            => \E n \in Nodes : Answer(o, kind, found).found = {n}
      BY DEF Answer
    <3> QED
      BY <3>1, <3>2, <3>3 DEF Setting
  <2> QED
    BY <2>1, <2>2
<1>2. table' = table /\ handler' = [handler EXCEPT ![h] = f]
  BY <1>1 DEF Accept
<1>3. \A g \in Handlers : g # h => handler'[g] = handler[g]
  BY <1>2
<1>4. handler'[h] = f
  BY <1>2
<1>5. \A g \in Handlers : handler'[g].at \in Setting => handler[g].at \in Setting
  BY <1>1, <1>3, <1>4
<1>6. \A g \in Handlers : handler'[g].at \in {"find", "set found"}
        => \E m \in Nodes : handler'[g].found = {m}
  BY <1>1, <1>3, <1>4 DEF Room, Setting
<1> QED
  BY <1>2, <1>5, <1>6, RoomShrinks

LEMMA RoomKept ==
    ASSUME IInv, Room, [Next]_vars
    PROVE  Room'
<1>1. ASSUME NEW h \in Handlers, HandleRequest(h) \/ HandleAnswer(h) \/ Handler(h)
      PROVE  Room'
  BY <1>1, RoomHandler, RoomAccept
<1>2. ASSUME handler' = handler, table' \subseteq table PROVE Room'
  BY <1>2, RoomShrinks DEF Room
<1>3. CASE Join \/ Run \/ Expire \/ Evict \/ UNCHANGED vars
  BY <1>2, <1>3 DEF Join, Run, Expire, Evict, CallerUnchanged, vars
<1>4. ASSUME NEW c \in Callers, Fresh(c) \/ GetPeers(c) PROVE Room'
  BY <1>2, <1>4 DEF Fresh, GetPeers, CallerUnchanged
<1>5. ASSUME NEW p \in Procs, CallerStep(p) PROVE Room'
  BY <1>2, <1>5 DEF CallerStep, CheckIndex, GenTransID, SendQuery, CallerUnchanged
<1>6. ASSUME NEW o \in Objects, Goroutine(o) PROVE Room'
  BY <1>2, <1>6 DEF Goroutine, Insert, Send, SendFails, Receive, Timeout, GiveUp, Lookup,
     Remove, Delete, GoroutineUnchanged
<1> QED
  BY <1>1, <1>3, <1>4, <1>5, <1>6 DEF Next

(* routingtable.go:358-365: rt.Lock held from the test of MaxNodes to the  *)
(* write of cachedNodes keeps the table within MaxNodes, for any number of *)
(* workers.                                                                *)
THEOREM TableBounded == Spec => []TableWithinMaxNodes
<1>1. Init => Room
  <2>1. Cardinality({}) = 0 /\ MaxNodes > 0 /\ MaxNodes \in Nat
    BY FS_EmptySet, TMConstants
  <2> SUFFICES ASSUME Init PROVE Room
    OBVIOUS
  <2>2. table = {} /\ \A h \in Handlers : handler[h].at = "idle"
    BY DEF Init, IdleHandler
  <2>3. Cardinality(table) <= MaxNodes
    BY <2>1, <2>2
  <2> QED
    BY <2>2, <2>3 DEF Room, Setting
<1>2. Room => TableWithinMaxNodes
  BY DEF Room, TableWithinMaxNodes
<1> QED
  BY <1>1, <1>2, InitIInv, NextIInv, RoomKept, PTL DEF Spec

-----------------------------------------------------------------------------
(* The table as RoutingTable keeps it and as this module uses it.          *)
Set == INSTANCE NodeSet WITH Members <- Nodes, members <- table

(* NodeSet counts as TransactionManager does. *)
LEMMA SameCardinality == \A S : Set!Cardinality(S) = Cardinality(S)
BY Zenon DEF Set!Cardinality, Cardinality

(* Who adds a node has room for it. *)
LEMMA HandlerAddsOne ==
    ASSUME IInv, Room, NEW h \in Handlers, SetFound(h) \/ SetInsert(h)
    PROVE  \E n \in Nodes : Set!Add(n)
<1>1. handler[h].at \in Setting /\ handler[h] \in Packets
  BY Types DEF SetFound, SetInsert, Setting
<1>2. PICK n \in Nodes : table' = table \cup {n}
  <2>1. CASE SetFound(h)
    BY <2>1 DEF SetFound, Room
  <2>2. CASE SetInsert(h)
    BY <1>1, <2>2 DEF SetInsert, Packets
  <2>3. QED
    BY <2>1, <2>2
<1>3. Cardinality(table) < MaxNodes
  BY <1>1 DEF Room
<1>4. Set!Add(n)
  BY <1>2, <1>3, SameCardinality DEF Set!Add
<1>5. QED
  BY <1>4, Zenon

LEMMA TableStep ==
    ASSUME IInv, Room, [Next]_vars
    PROVE  [Set!Next]_table
<1>1. ASSUME NEW n \in Nodes, table' = table \ {n} PROVE Set!Next
  BY <1>1 DEF Set!Next, Set!Drop
<1>2. CASE Join \/ Run \/ Expire \/ UNCHANGED vars
  BY <1>2 DEF Join, Run, Expire, CallerUnchanged, vars
<1>3. CASE Evict
  BY <1>1, <1>3 DEF Evict, IInv, TypeOK
<1>4. ASSUME NEW c \in Callers, Fresh(c) \/ GetPeers(c) PROVE UNCHANGED table
  BY <1>4 DEF Fresh, GetPeers, CallerUnchanged
<1>5. ASSUME NEW p \in Procs, CallerStep(p) PROVE UNCHANGED table
  BY <1>5 DEF CallerStep, CheckIndex, GenTransID, SendQuery, CallerUnchanged
<1>6. ASSUME NEW o \in Objects, Goroutine(o) PROVE [Set!Next]_table
  <2>1. CASE Remove(o)
    <3>1. queries[o].node \in Nodes
      BY <2>1, HasQuery DEF Remove
    <3>2. QED
      BY <1>1, <2>1, <3>1 DEF Remove
  <2>2. CASE ~Remove(o)
    BY <1>6, <2>2 DEF Goroutine, Insert, Send, SendFails, Receive, Timeout, GiveUp, Lookup,
       Delete, GoroutineUnchanged
  <2>3. QED
    BY <2>1, <2>2
<1>7. ASSUME NEW h \in Handlers, HandleRequest(h) \/ HandleAnswer(h) \/ Handler(h)
      PROVE  [Set!Next]_table
  <2>1. CASE SetFound(h) \/ SetInsert(h)
    BY <2>1, HandlerAddsOne DEF Set!Next
  <2>2. CASE RemoveSender(h)
    <3>1. handler[h].node \in Nodes
      BY Types DEF Packets
    <3>2. QED
      BY <1>1, <2>2, <3>1 DEF RemoveSender
  <2>3. CASE HandleRequest(h) \/ HandleAnswer(h)
    BY <2>3 DEF HandleRequest, HandleAnswer, Accept
  <2>4. CASE Handler(h) /\ ~(SetFound(h) \/ SetInsert(h) \/ RemoveSender(h))
    BY <2>4 DEF Handler, CheckFound, FollowUp, Push, Unblock, CheckInsert, BlockSender,
       LookupSender
  <2>5. QED
    BY <1>7, <2>1, <2>2, <2>3, <2>4
<1>8. QED
  BY <1>2, <1>3, <1>4, <1>5, <1>6, <1>7 DEF Next

(* krpc.go changes the routing table in no other way than NodeSet allows:  *)
(* queries that end, answers and requests that are handled side by side    *)
(* add a node only where there is room, and one at a time.  RoutingTable   *)
(* implements the same specification.                                      *)
THEOREM TableUsedAsNodeSet == Spec => Set!Spec
<1>1. Init => Room /\ Set!Init
  <2>1. Cardinality({}) = 0 /\ MaxNodes > 0 /\ MaxNodes \in Nat
    BY FS_EmptySet, TMConstants
  <2> SUFFICES ASSUME Init PROVE Room /\ Set!Init
    OBVIOUS
  <2>2. table = {} /\ \A h \in Handlers : handler[h].at = "idle"
    BY DEF Init, IdleHandler
  <2>3. Cardinality(table) <= MaxNodes
    BY <2>1, <2>2
  <2>4. QED
    BY <2>2, <2>3 DEF Room, Setting, Set!Init
<1>2. IInv /\ Room /\ [Next]_vars => [Set!Next]_table
  BY TableStep
<1>3. QED
  BY <1>1, <1>2, InitIInv, NextIInv, RoomKept, PTL DEF Spec, Set!Spec
=============================================================================
