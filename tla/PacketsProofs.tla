---------------------------- MODULE PacketsProofs ----------------------------
(***************************************************************************)
(* Proofs about the way of a packet for any number of arrivals, capacity   *)
(* of the channel and number of workers.  That the tokens are as many as   *)
(* the goroutines that run is not inductive: StartWorker starts the        *)
(* goroutine of the packet Run holds, which must not have been started.    *)
(* It has not, because packets travel in the order of their arrival        *)
(* (InOrder): those with a goroutine are before the one Run holds, which   *)
(* is before those in the channel, which are before the listener's.        *)
(***************************************************************************)
EXTENDS Packets, FiniteSetTheorems, TLAPS

(* Packets that have, or had, a goroutine. *)
Started == {p \in Arrived : worker[p].at # "none"}

InOrder ==
    /\ listener # None => listener = buff
    /\ \A i \in 1..Len(packets) :
          /\ packets[i] <= buff
          /\ listener # None => packets[i] < listener
          /\ \A j \in 1..Len(packets) : i < j => packets[i] < packets[j]
    /\ run.at = "handle" =>
          /\ run.pkt <= buff
          /\ listener # None => run.pkt < listener
          /\ \A i \in 1..Len(packets) : run.pkt < packets[i]
    /\ \A p \in Started :
          /\ p <= buff
          /\ listener # None => p < listener
          /\ \A i \in 1..Len(packets) : p < packets[i]
          /\ run.at = "handle" => p < run.pkt

IInv == TypeOK /\ InOrder /\ TokensCountWorkers

Places == {"none", "filter", "decode", "handle", "return", "lost", "done"}
WorkerType == worker \in [Arrived -> [at : Places, data : Seq(Arrived)]]

(* A step of one goroutine leaves the others where they are. *)
LEMMA OneGoes ==
    ASSUME WorkerType, NEW p \in Arrived, NEW a \in Places,
           worker' = [worker EXCEPT ![p].at = a]
    PROVE  /\ WorkerType'
           /\ worker'[p].at = a
           /\ \A q \in Arrived : q # p => worker'[q] = worker[q]
<1>1. worker[p] \in [at : Places, data : Seq(Arrived)]
  BY DEF WorkerType
<1>2. PICK r : r = [worker[p] EXCEPT !.at = a]
  OBVIOUS
<1>3. r \in [at : Places, data : Seq(Arrived)] /\ r.at = a
  BY <1>1, <1>2
<1>4. worker' = [worker EXCEPT ![p] = r]
  BY <1>2
<1>5. QED
  BY <1>3, <1>4 DEF WorkerType

LEMMA RunningCounted ==
    /\ IsFiniteSet(Running) /\ IsFiniteSet(Running')
    /\ Cardinality(Running) \in Nat /\ Cardinality(Running') \in Nat
<1>1. Running \subseteq Arrived /\ Running' \subseteq Arrived
  BY DEF Running
<1>2. IsFiniteSet(Arrived)
  BY PKConstants, FS_Interval DEF Arrived
<1>3. QED
  BY <1>1, <1>2, FS_Subset, FS_CardinalityType

LEMMA PacketsAtFirst == Init => IInv
<1> SUFFICES ASSUME Init PROVE IInv
  OBVIOUS
<1>1. TypeOK
  BY PKConstants DEF Init, TypeOK, NoWorker, Arrived
<1>2. Started = {} /\ Running = {}
  BY DEF Init, Started, Running, NoWorker
<1>3. InOrder
  BY <1>2 DEF Init, InOrder
<1>4. TokensCountWorkers
  BY <1>2, FS_EmptySet DEF Init, TokensCountWorkers
<1>5. QED
  BY <1>1, <1>3, <1>4 DEF IInv

(* A goroutine returns only when its token is out. *)
LEMMA ReturnHasToken ==
    ASSUME IInv, NEW p \in Arrived, Return(p)
    PROVE  workerTokens' \in 0..PacketWorkerLimit
<1>1. p \in Running
  BY DEF Return, At, Running
<1>2. workerTokens # 0
  BY <1>1, RunningCounted, FS_EmptySet DEF IInv, TokensCountWorkers
<1>3. QED
  BY <1>2, PKConstants DEF Return, IInv, TypeOK

LEMMA PacketTypeKept == IInv /\ [Next]_vars => TypeOK'
<1> SUFFICES ASSUME IInv, [Next]_vars PROVE TypeOK'
  OBVIOUS
<1>0. TypeOK /\ WorkerType
  BY DEF IInv, TypeOK, WorkerType, Places
<1> USE PKConstants DEF TypeOK
<1>1. CASE Receive
  BY <1>0, <1>1 DEF Receive, Arrived
<1>2. CASE SendPacket
  BY <1>0, <1>2 DEF SendPacket
<1>3. CASE Take
  BY <1>0, <1>3 DEF Take, InSelect
<1>4. CASE StartWorker
  <2>1. WorkerType'
    BY <1>0, <1>4, OneGoes DEF StartWorker, Places
  <2>2. QED
    BY <1>0, <1>4, <2>1 DEF StartWorker, InSelect, WorkerType, Places
<1>5. CASE Tick \/ Joined
  BY <1>0, <1>5 DEF Tick, Joined, InSelect
<1>6. CASE \E p \in Arrived : Filter(p) \/ Handle(p)
  <2>1. WorkerType'
    BY <1>0, <1>6, OneGoes DEF Filter, Handle, Goes, Places
  <2>2. QED
    BY <1>0, <1>6, <2>1 DEF Filter, Handle, WorkerType, Places
<1>7. CASE \E p \in Arrived : Decode(p)
  <2> SUFFICES ASSUME NEW p \in Arrived, Decode(p) PROVE TypeOK'
    BY <1>7
  <2>1. worker[p].data \in Seq(Arrived)
    BY <1>0
  <2>2. buff \in Arrived
    BY <1>0, PKConstants DEF Decode, At, IInv, InOrder, Started, Arrived
  <2>3. Append(worker[p].data, buff) \in Seq(Arrived)
    BY <2>1, <2>2
  <2>4. QED
    BY <1>0, <2>3 DEF Decode
<1>8. CASE \E p \in Arrived : Return(p)
  <2>1. WorkerType'
    BY <1>0, <1>8, OneGoes DEF Return, Goes, Places
  <2>2. QED
    BY <1>0, <1>8, <2>1, ReturnHasToken DEF Return, WorkerType, Places
<1>9. CASE UNCHANGED vars
  BY <1>0, <1>9 DEF vars
<1>10. QED
  BY <1>1, <1>2, <1>3, <1>4, <1>5, <1>6, <1>7, <1>8, <1>9 DEF Next, Listen, Run, Worker

LEMMA OrderKept == TypeOK /\ InOrder /\ [Next]_vars => InOrder'
<1> SUFFICES ASSUME TypeOK, InOrder, [Next]_vars PROVE InOrder'
  OBVIOUS
<1> USE PKConstants DEF TypeOK, InOrder, Arrived, InSelect, Started
<1>1. CASE Receive
  BY <1>1 DEF Receive
<1>2. CASE SendPacket
  BY <1>2, SMTT(30) DEF SendPacket
<1>3. CASE Take
  BY <1>3 DEF Take
<1>4. CASE StartWorker
  BY <1>4 DEF StartWorker
<1>5. CASE Tick \/ Joined
  <2>1. run'.at # "handle" /\ UNCHANGED <<buff, listener, packets, worker>>
    BY <1>5 DEF Tick, Joined
  <2>2. QED
    BY <2>1
<1>6. CASE \E p \in Arrived : Worker(p)
  <2> SUFFICES ASSUME NEW p \in Arrived, Worker(p) PROVE InOrder'
    BY <1>6
  <2>0. /\ worker[p].at # "none" /\ worker'[p].at # "none"
        /\ \A q \in Arrived : q # p => worker'[q] = worker[q]
    <3>1. WorkerType
      BY DEF WorkerType, Places
    <3>2. CASE Decode(p)
      BY <3>2 DEF Decode, At
    <3>3. CASE Filter(p) \/ Handle(p) \/ Return(p)
      BY <3>1, <3>3, OneGoes DEF Filter, Handle, Return, At, Goes, Places
    <3>4. QED
      BY <3>2, <3>3 DEF Worker
  <2>1. Started' = Started
    BY <2>0
  <2>2. UNCHANGED <<buff, listener, packets, run>>
    BY DEF Worker, Filter, Decode, Handle, Return
  <2>3. QED
    BY <2>1, <2>2
<1>7. CASE UNCHANGED vars
  BY <1>7 DEF vars
<1>8. QED
  BY <1>1, <1>2, <1>3, <1>4, <1>5, <1>6, <1>7 DEF Next, Listen, Run

(* The goroutine that starts is one that was not running. *)
LEMMA StartCounts ==
    ASSUME IInv, StartWorker
    PROVE  TokensCountWorkers'
<1>1. run.pkt \in Arrived /\ run.pkt \notin Running
  BY DEF StartWorker, IInv, InOrder, TypeOK, Started, Running, Arrived
<1>2. Running' = Running \cup {run.pkt}
  BY <1>1 DEF StartWorker, Running, IInv, TypeOK
<1>3. Cardinality(Running') = Cardinality(Running) + 1
  BY <1>1, <1>2, RunningCounted, FS_AddElement
<1>4. QED
  BY <1>3 DEF StartWorker, TokensCountWorkers, IInv, InSelect

LEMMA ReturnCounts ==
    ASSUME IInv, NEW p \in Arrived, Return(p)
    PROVE  TokensCountWorkers'
<1>1. p \in Running /\ Running' = Running \ {p}
  BY DEF Return, At, Goes, Running, IInv, TypeOK
<1>2. Cardinality(Running') = Cardinality(Running) - 1
  BY <1>1, RunningCounted, FS_RemoveElement
<1>3. QED
  BY <1>2, PKConstants DEF Return, TokensCountWorkers, IInv, TypeOK

LEMMA PacketsKept == IInv /\ [Next]_vars => IInv'
<1> SUFFICES ASSUME IInv, [Next]_vars PROVE TokensCountWorkers'
  BY PacketTypeKept, OrderKept DEF IInv
<1>1. CASE StartWorker
  BY <1>1, StartCounts
<1>2. CASE \E p \in Arrived : Return(p)
  BY <1>2, ReturnCounts
<1>3. CASE Take
  BY <1>3, PKConstants DEF Take, Full, InSelect, Running, TokensCountWorkers, IInv, TypeOK
<1>4. CASE Receive \/ SendPacket \/ Tick \/ Joined \/ UNCHANGED vars
  <2>1. Running' = Running /\ workerTokens' = workerTokens
    BY <1>4 DEF Receive, SendPacket, Tick, Joined, vars, Running
  <2>2. run'.at = "handle" => run.at = "handle"
    BY <1>4 DEF Receive, SendPacket, Tick, Joined, vars, InSelect
  <2>3. QED
    BY <2>1, <2>2 DEF TokensCountWorkers, IInv
<1>5. CASE \E p \in Arrived : Filter(p) \/ Decode(p) \/ Handle(p)
  <2>1. Running' = Running
    <3> SUFFICES ASSUME NEW p \in Arrived, Filter(p) \/ Decode(p) \/ Handle(p)
                 PROVE  Running' = Running
      BY <1>5
    <3>1. WorkerType
      BY DEF WorkerType, Places, IInv, TypeOK
    <3>2. CASE Decode(p)
      BY <3>1, <3>2 DEF Decode, At, Running, WorkerType
    <3>3. CASE Filter(p) \/ Handle(p)
      BY <3>1, <3>3, OneGoes DEF Filter, Handle, At, Goes, Running, Places
    <3>4. QED
      BY <3>2, <3>3
  <2>2. UNCHANGED <<run, workerTokens>>
    BY <1>5 DEF Filter, Decode, Handle
  <2>3. QED
    BY <2>1, <2>2 DEF TokensCountWorkers, IInv
<1>6. QED
  BY <1>1, <1>2, <1>3, <1>4, <1>5 DEF Next, Listen, Run, Worker

(* The type invariant, for any arrivals and capacities. *)
THEOREM PacketsTypeCorrect == Spec => []TypeOK
<1>1. IInv => TypeOK
  BY DEF IInv
<1>2. QED
  BY PacketsAtFirst, PacketsKept, <1>1, PTL DEF Spec

(* The tokens are as many as the goroutines that have started and not      *)
(* returned, and Run never waits for one, for any capacity of workerTokens *)
(* and however the goroutines interleave.                                  *)
THEOREM PacketTokensExact == Spec => []TokensCountWorkers
<1>1. IInv => TokensCountWorkers
  BY DEF IInv
<1>2. QED
  BY PacketsAtFirst, PacketsKept, <1>1, PTL DEF Spec
=============================================================================
