-------------------------------- MODULE Packets --------------------------------
(***************************************************************************)
(* The way of a packet through a DHT node: the listener of src/dht/dht.go, *)
(* its only buffer and the channel packets; the loop of Run; handle of     *)
(* src/dht/krpc.go with the channel workerTokens, which counts the         *)
(* goroutines it starts.  A packet is named by its number of arrival, and  *)
(* so is what it says: data holds the two halves of what lies in a buffer, *)
(* since a decode and a receive may meet in the middle.                    *)
(***************************************************************************)
EXTENDS Naturals, Sequences, FiniteSets

CONSTANTS
    Arrivals,            \* bound of the model: packets that arrive
    PacketJobLimit,      \* capacity of packets
    PacketWorkerLimit,   \* capacity of workerTokens
    None

ASSUME PKConstants ==
    /\ {Arrivals, PacketJobLimit, PacketWorkerLimit} \subseteq Nat \ {0}
    /\ None \notin Nat

Arrived == 1..Arrivals

VARIABLES
    buff,           \* the listener's buffer: the number of the packet in it
    listener,       \* the packet the listener is about to send on, or None
    packets,        \* the channel DHT.packets
    run,            \* where Run is: in its select, in handle, in join
    workerTokens,   \* number of tokens in the channel
    worker          \* worker[p]: where the goroutine of packet p is, its data

vars == <<buff, listener, packets, run, workerTokens, worker>>

InSelect == [at |-> "select", pkt |-> None]
NoWorker == [at |-> "none", data |-> <<>>]
At(p, at) == worker[p].at = at
Goes(p, at) == worker' = [worker EXCEPT ![p].at = at]

-----------------------------------------------------------------------------
(* listen: what arrives overwrites the buffer, and a slice of it is sent.  *)

Receive ==
    /\ listener = None /\ buff < Arrivals
    /\ buff' = buff + 1
    /\ listener' = buff'
    /\ UNCHANGED <<packets, run, workerTokens, worker>>

(* Mutant of SendPacket: room for one more than the channel has. *)
SendPacketOffByOne ==
    /\ listener # None /\ Len(packets) <= PacketJobLimit
    /\ packets' = Append(packets, listener)
    /\ listener' = None
    /\ UNCHANGED <<buff, run, workerTokens, worker>>

SendPacket ==
    /\ listener # None /\ Len(packets) < PacketJobLimit
    /\ packets' = Append(packets, listener)
    /\ listener' = None
    /\ UNCHANGED <<buff, run, workerTokens, worker>>

-----------------------------------------------------------------------------
(* Run: handle is called by nobody else.                                   *)

Full == workerTokens = PacketWorkerLimit

(* Mutant of Take: Run waits for a token before it takes a packet. *)
TakeWhenFree ==
    /\ run = InSelect /\ packets # <<>> /\ ~Full
    /\ packets' = Tail(packets)
    /\ run' = [at |-> "handle", pkt |-> Head(packets)]
    /\ UNCHANGED <<buff, listener, workerTokens, worker>>

(* A packet is taken; it is dropped when every token is out. *)
Take ==
    /\ run = InSelect /\ packets # <<>>
    /\ packets' = Tail(packets)
    /\ run' = IF Full THEN InSelect ELSE [at |-> "handle", pkt |-> Head(packets)]
    /\ UNCHANGED <<buff, listener, workerTokens, worker>>

(* The token, for which the channel must have room, and the goroutine. *)
StartWorker ==
    /\ run.at = "handle" /\ workerTokens < PacketWorkerLimit
    /\ workerTokens' = workerTokens + 1
    /\ worker' = [worker EXCEPT ![run.pkt].at = "filter"]
    /\ run' = InSelect
    /\ UNCHANGED <<buff, listener, packets>>

(* The tick: join, in Run's own goroutine, or a goroutine for Fresh. *)
Tick ==
    /\ run = InSelect
    /\ run' = [at |-> "join", pkt |-> None]
    /\ UNCHANGED <<buff, listener, packets, workerTokens, worker>>

Joined ==
    /\ run.at = "join"
    /\ run' = InSelect
    /\ UNCHANGED <<buff, listener, packets, workerTokens, worker>>

-----------------------------------------------------------------------------
(* The goroutine of a packet.                                              *)

(* blackList.in: the packets of a blocked sender are not decoded. *)
Filter(p) ==
    /\ At(p, "filter")
    /\ Goes(p, "decode") \/ Goes(p, "return")
    /\ UNCHANGED <<buff, listener, packets, run, workerTokens>>

(* Decode reads the buffer byte by byte, whatever it holds by then. *)
Decode(p) ==
    /\ At(p, "decode")
    /\ LET data == Append(worker[p].data, buff)
       IN  worker' = [worker EXCEPT ![p] =
                        [at |-> IF Len(data) = 2 THEN "handle" ELSE "decode", data |-> data]]
    /\ UNCHANGED <<buff, listener, packets, run, workerTokens>>

(* The data is refused or handled; a handler may wait for ever to send an  *)
(* answer nobody reads (TransactionManager).                               *)
Handle(p) ==
    /\ At(p, "handle")
    /\ Goes(p, "return") \/ Goes(p, "lost")
    /\ UNCHANGED <<buff, listener, packets, run, workerTokens>>

(* Mutant of Return: the token of a packet that is not handled is kept.    *)
ReturnKeepsToken(p) ==
    /\ At(p, "return")
    /\ workerTokens' = IF worker[p].data = <<>> THEN workerTokens ELSE workerTokens - 1
    /\ Goes(p, "done")
    /\ UNCHANGED <<buff, listener, packets, run>>

(* The deferred function takes a token out again. *)
Return(p) ==
    /\ At(p, "return")
    /\ workerTokens' = workerTokens - 1
    /\ Goes(p, "done")
    /\ UNCHANGED <<buff, listener, packets, run>>

-----------------------------------------------------------------------------
(* Run listens before it joins. *)
Init ==
    /\ buff = 0 /\ listener = None /\ packets = <<>>
    /\ run = [at |-> "join", pkt |-> None]
    /\ workerTokens = 0
    /\ worker = [p \in Arrived |-> NoWorker]

Listen == Receive \/ SendPacket
Run == Take \/ StartWorker \/ Tick \/ Joined
Worker(p) == Filter(p) \/ Decode(p) \/ Handle(p) \/ Return(p)

Next == Listen \/ Run \/ \E p \in Arrived : Worker(p)

(* The goroutines are scheduled; select is fair between packets and tick;  *)
(* join returns, as TransactionManager shows of every caller of sendQuery. *)
(* Nothing is assumed of arrivals or of handlers.                          *)
Fairness == WF_vars(SendPacket) /\ SF_vars(Take) /\ WF_vars(StartWorker) /\ WF_vars(Joined)

Spec == Init /\ [][Next]_vars
FairSpec == Spec /\ Fairness

-----------------------------------------------------------------------------
(* Every variable holds values of its kind: the type invariant. *)
TypeOK ==
    /\ buff \in 0..Arrivals /\ listener \in Arrived \cup {None}
    /\ packets \in Seq(Arrived) /\ Len(packets) <= PacketJobLimit
    /\ run \in [at : {"select", "handle", "join"}, pkt : Arrived \cup {None}]
    /\ run.at = "handle" => run.pkt \in Arrived
    /\ workerTokens \in 0..PacketWorkerLimit
    /\ worker \in [Arrived -> [at : {"none", "filter", "decode", "handle", "return", "lost", "done"},
                               data : Seq(Arrived)]]

(* A token is out for every goroutine that has started and not returned,   *)
(* blocked senders and lost handlers included; and though handle tests the *)
(* tokens and takes one in two steps, none can be taken in between, so     *)
(* that Run, which would stop the node, never waits for one.               *)
Running == {p \in Arrived : worker[p].at \notin {"none", "done"}}
TokensCountWorkers ==
    /\ workerTokens = Cardinality(Running)
    /\ run.at = "handle" => workerTokens < PacketWorkerLimit

(* The listener always comes back to read, though handlers be lost until   *)
(* no token is left: their packets are dropped, not waited for.            *)
ListenerReturns == listener # None ~> listener = None

(* krpc.go:25: packet represents the information received from udp.  What  *)
(* a handler is given is what arrived with its packet.                     *)
HandledAsReceived ==
    \A p \in Arrived : At(p, "handle") => worker[p].data = <<p, p>>
=============================================================================
