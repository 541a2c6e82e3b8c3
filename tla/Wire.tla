--------------------------------- MODULE Wire ---------------------------------
(***************************************************************************)
(* The download of metadata from peers: src/dht/peerwire.go.  Requests     *)
(* wait in a channel; Run starts one goroutine for each, as many at a time *)
(* as workerTokens holds; a goroutine asks its peer for the pieces of the  *)
(* metadata (a second one sends the requests, while the first reads) and   *)
(* sends what it has put together through the channel responses.  A        *)
(* metadata is its size and whether each piece is genuine: sha1 tells.     *)
(***************************************************************************)
EXTENDS Naturals, Sequences, FiniteSets

CONSTANTS
    Requests,           \* calls of Wire.Request
    Honest,             \* those whose peers keep to the protocol
    AddrOf,             \* the address of a request's peer, its port not negative
    Size,               \* metadata_size of a request's peer
    BLOCK,              \* the size of a piece
    RequestQueueSize, WorkerQueueSize, ResponseQueueSize,
    BlackListSize,
    None

Addrs == {AddrOf[r] : r \in Requests}

ASSUME WRConstants ==
    /\ IsFiniteSet(Requests) /\ None \notin Requests
    /\ Honest \subseteq Requests
    /\ Size \in [Requests -> Nat]
    /\ {BLOCK, RequestQueueSize, WorkerQueueSize, ResponseQueueSize, BlackListSize}
         \subseteq Nat \ {0}

VARIABLES
    requests,      \* the channel Wire.requests
    run,           \* the request Run has taken and waits for a token with, or None
    workerTokens,  \* number of tokens in the channel
    blackList,     \* what the blacklist has of an address, and its age
    swept,         \* the addresses clear has collected, or None
    fetch,         \* fetch[r]: where request r is, pieces asked for, pieces held
    responses,     \* the channel Wire.responses
    delivered      \* requests whose response was read from the channel

vars == <<requests, run, workerTokens, blackList, swept, fetch, responses, delivered>>
channels == <<requests, run, responses, delivered>>
lists == <<blackList, swept>>

NotYet == [at |-> "calling", asked |-> 0, pieces |-> <<>>]
At(r, at) == fetch[r].at = at
Goes(r, at) == fetch' = [fetch EXCEPT ![r].at = at]

-----------------------------------------------------------------------------
(* Request: waits while the queue is full. *)
Request(r) ==
    /\ At(r, "calling") /\ Len(requests) < RequestQueueSize
    /\ requests' = Append(requests, r)
    /\ Goes(r, "queued")
    /\ UNCHANGED <<run, workerTokens, lists, responses, delivered>>

(* Run *)
Take ==
    /\ run = None /\ requests # <<>>
    /\ run' = Head(requests)
    /\ requests' = Tail(requests)
    /\ UNCHANGED <<workerTokens, lists, fetch, responses, delivered>>

StartWorker ==
    /\ run # None /\ workerTokens < WorkerQueueSize
    /\ workerTokens' = workerTokens + 1
    /\ Goes(run, "filter")
    /\ run' = None
    /\ UNCHANGED <<requests, lists, responses, delivered>>

(* Mutant of Return: no deferred function. *)
ReturnKeepsToken(r) ==
    /\ At(r, "return")
    /\ Goes(r, "done")
    /\ UNCHANGED <<channels, workerTokens, lists>>

Return(r) ==
    /\ At(r, "return")
    /\ workerTokens' = workerTokens - 1
    /\ Goes(r, "done")
    /\ UNCHANGED <<channels, lists>>

(* len(r.InfoHash) != 20 || blackList.in, which drops what it finds        *)
(* expired in a step of its own.  Nothing else looks at the length, so     *)
(* that it may be chosen here.                                             *)
Filter(r) ==
    /\ At(r, "filter")
    /\ \E whole \in BOOLEAN :
          \/ (~whole \/ blackList[AddrOf[r]] = "fresh") /\ Goes(r, "return")
          \/ whole /\ blackList[AddrOf[r]] = "expired" /\ Goes(r, "drop")
          \/ whole /\ blackList[AddrOf[r]] = "absent" /\ Goes(r, "dial")
    /\ UNCHANGED <<channels, workerTokens, lists>>

Lists(r, item) == blackList' = [blackList EXCEPT ![AddrOf[r]] = item] /\ UNCHANGED swept

DropExpired(r) ==
    /\ At(r, "drop")
    /\ Lists(r, "absent")
    /\ Goes(r, "dial")
    /\ UNCHANGED <<channels, workerTokens>>

(* blackList.clear, which Run starts: it collects and deletes under        *)
(* separate locks.  To sweep nothing changes nothing.                      *)
Collect ==
    /\ swept = None
    /\ swept' = {a \in Addrs : blackList[a] = "expired"} /\ swept' # {}
    /\ UNCHANGED <<channels, workerTokens, blackList, fetch>>

DeleteMulti ==
    /\ swept # None
    /\ blackList' = [a \in Addrs |-> IF a \in swept THEN "absent" ELSE blackList[a]]
    /\ swept' = None
    /\ UNCHANGED <<channels, workerTokens, fetch>>

(* expiredAfter passes for an item. *)
Age ==
    /\ \E a \in Addrs :
          blackList[a] = "fresh" /\ blackList' = [blackList EXCEPT ![a] = "expired"]
    /\ UNCHANGED <<channels, workerTokens, swept, fetch>>

-----------------------------------------------------------------------------
(* fetchMetadata *)

Blocked == {a \in Addrs : blackList[a] # "absent"}

(* The dial fails, and blackList.insert tests the length of the list ...   *)
DialFails(r) ==
    /\ At(r, "dial")
    /\ Goes(r, IF Cardinality(Blocked) < BlackListSize THEN "block" ELSE "return")
    /\ UNCHANGED <<channels, workerTokens, lists>>

(* ... before it sets the item under another lock: other workers may have  *)
(* taken the last place meanwhile.                                         *)
SetItem(r) ==
    /\ At(r, "block")
    /\ Lists(r, "fresh")
    /\ Goes(r, "return")
    /\ UNCHANGED <<channels, workerTokens>>

Connect(r) ==
    /\ At(r, "dial")
    /\ Goes(r, "handshake")
    /\ UNCHANGED <<channels, workerTokens, lists>>

(* A read or write fails or meets its deadline, or a peer that is not      *)
(* honest sends what it should not.  Keep-alives, rejects and messages     *)
(* that are not extended change nothing.                                   *)
Fail(r) ==
    /\ At(r, "handshake") \/ At(r, "pieces")
    /\ Goes(r, "return")
    /\ UNCHANGED <<channels, workerTokens, lists>>

PiecesNum(r) ==
    IF Size[r] % BLOCK # 0 THEN Size[r] \div BLOCK + 1 ELSE Size[r] \div BLOCK

(* The extended handshake tells metadata_size. *)
ExtHandshake(r) ==
    /\ At(r, "handshake")
    /\ fetch' = [fetch EXCEPT ![r] = [at |-> "pieces", asked |-> @.asked,
                                      pieces |-> [i \in 1..PiecesNum(r) |-> "none"]]]
    /\ UNCHANGED <<channels, workerTokens, lists>>

(* requestPieces, in a goroutine of its own. *)
Ask(r) ==
    /\ At(r, "pieces") /\ fetch[r].asked < PiecesNum(r)
    /\ fetch' = [fetch EXCEPT ![r].asked = @ + 1]
    /\ UNCHANGED <<channels, workerTokens, lists>>

(* The length of piece i of the peer's metadata, and whether it passes. *)
PieceLen(r, i) == IF i * BLOCK <= Size[r] THEN BLOCK ELSE Size[r] % BLOCK

(* Mutant of Fits: the last piece is to be a whole one too. *)
FitsWhole(r, i) == PieceLen(r, i) = BLOCK
Fits(r, i) == PieceLen(r, i) = (IF i = PiecesNum(r) THEN Size[r] % BLOCK ELSE BLOCK)

IsDone(pieces) == \A i \in 1..Len(pieces) : pieces[i] # "none"

(* Mutant of Genuine: infoHash is not compared. *)
GenuineAlways(pieces) == TRUE
(* sha1.Sum is the infoHash. *)
Genuine(pieces) == \A i \in 1..Len(pieces) : pieces[i] = "good"

(* The peer answers for piece i: an honest one with what was asked, once;  *)
(* another with whatever it likes.                                         *)
Answer(r, i, c) ==
    /\ At(r, "pieces") /\ i <= fetch[r].asked
    /\ r \in Honest => c = "good" /\ fetch[r].pieces[i] = "none"

Refuse(r) ==
    /\ \E i \in 1..PiecesNum(r) : Answer(r, i, "good") /\ ~Fits(r, i)
    /\ Goes(r, "return")
    /\ UNCHANGED <<channels, workerTokens, lists>>

Piece(r) ==
    /\ \E i \in 1..PiecesNum(r), c \in {"good", "bad"} :
          /\ Answer(r, i, c) /\ Fits(r, i)
          /\ LET pieces == [fetch[r].pieces EXCEPT ![i] = c]
             IN  fetch' = [fetch EXCEPT ![r] =
                    [at |-> IF ~IsDone(pieces) THEN "pieces"
                            ELSE IF Genuine(pieces) THEN "respond" ELSE "return",
                     asked |-> @.asked, pieces |-> pieces]]
    /\ UNCHANGED <<channels, workerTokens, lists>>

(* Mutant of Respond: room for one more than the channel has. *)
RespondOffByOne(r) ==
    /\ At(r, "respond") /\ Len(responses) <= ResponseQueueSize
    /\ responses' = Append(responses, r)
    /\ Goes(r, "return")
    /\ UNCHANGED <<requests, run, workerTokens, lists, delivered>>

Respond(r) ==
    /\ At(r, "respond") /\ Len(responses) < ResponseQueueSize
    /\ responses' = Append(responses, r)
    /\ Goes(r, "return")
    /\ UNCHANGED <<requests, run, workerTokens, lists, delivered>>

(* The loop over Wire.Response() in src/processes/sniffer/sniffer.go. *)
Consume ==
    /\ responses # <<>>
    /\ delivered' = delivered \cup {Head(responses)}
    /\ responses' = Tail(responses)
    /\ UNCHANGED <<requests, run, workerTokens, lists, fetch>>

-----------------------------------------------------------------------------
Init ==
    /\ requests = <<>> /\ run = None /\ workerTokens = 0
    /\ blackList = [a \in Addrs |-> "absent"] /\ swept = None
    /\ fetch = [r \in Requests |-> NotYet]
    /\ responses = <<>> /\ delivered = {}

Dial(r) == DialFails(r) \/ Connect(r)
Download(r) == Fail(r) \/ ExtHandshake(r) \/ Ask(r) \/ Refuse(r) \/ Piece(r)
Block(r) == DropExpired(r) \/ SetItem(r)
Worker(r) == Filter(r) \/ Block(r) \/ Dial(r) \/ Download(r) \/ Respond(r) \/ Return(r)
Sweep == Collect \/ DeleteMulti \/ Age

Next ==
    \/ Take \/ StartWorker \/ Consume \/ Sweep
    \/ \E r \in Requests : Request(r) \/ Worker(r)

(* The goroutines are scheduled, dialling ends, and the sniffer reads on.  *)
(* No peer talks for ever: once it is silent the read meets its deadline   *)
(* of 15 seconds.  Senders waiting for a channel are served in turn.       *)
Fairness ==
    /\ WF_vars(Take) /\ WF_vars(StartWorker) /\ WF_vars(Consume)
    /\ \A r \in Requests :
          /\ SF_vars(Request(r)) /\ WF_vars(Filter(r)) /\ WF_vars(Block(r)) /\ WF_vars(Dial(r))
          /\ WF_vars(Fail(r)) /\ SF_vars(Respond(r)) /\ WF_vars(Return(r))

Spec == Init /\ [][Next]_vars
FairSpec == Spec /\ Fairness

-----------------------------------------------------------------------------
Places == {"calling", "queued", "filter", "drop", "dial", "block", "handshake", "pieces",
           "respond", "return", "done"}
Items == {"absent", "fresh", "expired"}

(* Every variable holds values of its kind: the type invariant. *)
TypeOK ==
    /\ requests \in Seq(Requests) /\ run \in Requests \cup {None}
    /\ workerTokens \in 0..WorkerQueueSize
    /\ blackList \in [Addrs -> Items] /\ (swept = None \/ swept \subseteq Addrs)
    /\ fetch \in [Requests -> [at : Places, asked : Nat, pieces : Seq({"none", "good", "bad"})]]
    /\ responses \in Seq(Requests) /\ Len(responses) <= ResponseQueueSize
    /\ delivered \subseteq Requests

(* What comes out of the channel is the metadata of the infohash asked     *)
(* for, whole and unaltered, whatever peers answer, twice or out of order. *)
Answered == {r \in Requests : r \in delivered \/ \E i \in 1..Len(responses) : responses[i] = r}
ResponsesAreGenuine ==
    \A r \in Answered :
        /\ Size[r] > 0 /\ Len(fetch[r].pieces) = PiecesNum(r)
        /\ \A i \in 1..PiecesNum(r) : fetch[r].pieces[i] = "good"

(* Every request is taken up and ends, however few the workers and small   *)
(* the queues: Run, the fetches and the sniffer never wait for each other  *)
(* in a circle.                                                            *)
RequestsEnd == \A r \in Requests : At(r, "calling") ~> At(r, "done")

(* peerwire.go:226: fetchMetadata fetches the metadata.  An honest peer's  *)
(* pieces are not refused.                                                 *)
HonestNotRefused == [][\A r \in Honest : ~Refuse(r)]_vars
=============================================================================
