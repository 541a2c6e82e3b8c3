----------------------------- MODULE WireProofs -----------------------------
(***************************************************************************)
(* Proofs about the download of metadata for any number of requests, any   *)
(* sizes and any capacities of the queues.  That a response is whole and   *)
(* genuine is told when its last piece arrives; it stays so because a      *)
(* request whose pieces are complete is never taken up again: it is in the *)
(* queue once (QueuedOnce), and leaves it for good when Run takes it.      *)
(* What an honest peer sends is refused only where its metadata fills the  *)
(* last piece: that is the arithmetic of PiecesNum and Fits.               *)
(***************************************************************************)
EXTENDS Wire, FiniteSetTheorems, TLAPS

PieceStates == {"none", "good", "bad"}
Fetches == [at : Places, asked : Nat, pieces : Seq(PieceStates)]

Waiting == {"calling", "queued"}
Busy == {r \in Requests : fetch[r].at \notin Waiting \cup {"done"}}
TokensCount == workerTokens = Cardinality(Busy)

QueuedOnce ==
    /\ \A i \in 1..Len(requests) :
          /\ At(requests[i], "queued")
          /\ \A j \in 1..Len(requests) : i # j => requests[i] # requests[j]
    /\ run # None =>
          /\ At(run, "queued")
          /\ \A i \in 1..Len(requests) : requests[i] # run

Whole(r) ==
    /\ Size[r] > 0 /\ Len(fetch[r].pieces) = PiecesNum(r)
    /\ \A i \in 1..PiecesNum(r) : fetch[r].pieces[i] = "good"

(* The pieces of a request are whole from the last one on, and before that *)
(* there is room for as many as the peer's size tells.                     *)
WholeOnes ==
    \A r \in Requests :
        /\ At(r, "pieces") => Len(fetch[r].pieces) = PiecesNum(r)
        /\ At(r, "respond") => Whole(r)
        /\ r \in Answered => Whole(r) /\ fetch[r].at \in {"return", "done"}

IInv == TypeOK /\ TokensCount /\ QueuedOnce /\ WholeOnes

-----------------------------------------------------------------------------
(* Metadata of no bytes has no pieces.                                     *)
LEMMA PiecesNumbered ==
    ASSUME NEW r \in Requests
    PROVE  PiecesNum(r) \in Nat /\ (Size[r] = 0 => PiecesNum(r) = 0)
<1>1. Size[r] \in Nat /\ BLOCK \in Nat /\ BLOCK > 0
  BY WRConstants
<1>2. QED
  BY <1>1 DEF PiecesNum

(* A step of one request leaves the others as they are.                    *)
LEMMA OneFetches ==
    ASSUME fetch \in [Requests -> Fetches], NEW r \in Requests, NEW a \in Places, Goes(r, a)
    PROVE  /\ fetch' \in [Requests -> Fetches]
           /\ fetch'[r].at = a /\ fetch'[r].pieces = fetch[r].pieces
           /\ \A q \in Requests : q # r => fetch'[q] = fetch[q]
<1>1. fetch[r] \in Fetches
  OBVIOUS
<1>2. PICK f : f = [fetch[r] EXCEPT !.at = a]
  OBVIOUS
<1>3. f \in Fetches /\ f.at = a /\ f.pieces = fetch[r].pieces
  BY <1>1, <1>2 DEF Fetches
<1>4. fetch' = [fetch EXCEPT ![r] = f]
  BY <1>2 DEF Goes
<1>5. QED
  BY <1>3, <1>4

LEMMA BusyCounted ==
    /\ IsFiniteSet(Busy) /\ IsFiniteSet(Busy')
    /\ Cardinality(Busy) \in Nat /\ Cardinality(Busy') \in Nat
<1>1. Busy \subseteq Requests /\ Busy' \subseteq Requests
  BY DEF Busy
<1>2. QED
  BY <1>1, WRConstants, FS_Subset, FS_CardinalityType

LEMMA WireAtFirst == Init => IInv
<1> SUFFICES ASSUME Init PROVE IInv
  OBVIOUS
<1>1. TypeOK
  <2>1. NotYet \in Fetches
    BY DEF NotYet, Fetches, Places
  <2>2. fetch \in [Requests -> Fetches]
    BY <2>1 DEF Init
  <2>3. QED
    BY <2>2, WRConstants DEF Init, TypeOK, Items, Fetches, PieceStates
<1>3. TokensCount
  <2>1. Busy = {}
    BY DEF Init, Busy, Waiting, NotYet
  <2>2. QED
    BY <2>1, FS_EmptySet DEF Init, TokensCount
<1>4. QueuedOnce /\ WholeOnes
  BY DEF Init, QueuedOnce, WholeOnes, Answered, NotYet, At
<1>5. QED
  BY <1>1, <1>3, <1>4 DEF IInv

-----------------------------------------------------------------------------
(* A step of one request that is with its worker and stays there: it may   *)
(* add to its pieces only while they are downloaded, is answered only when *)
(* it responds, and leaves the queue alone.                                *)
LEMMA WorkerKeeps ==
    ASSUME IInv, NEW r \in Requests, r \in Busy, fetch' \in [Requests -> Fetches],
           \A q \in Requests : q # r => fetch'[q] = fetch[q],
           fetch'[r].at \notin Waiting \cup {"done"},
           UNCHANGED <<requests, run, workerTokens>>
    PROVE  TokensCount' /\ QueuedOnce'
<1>1. Busy' = Busy
  BY DEF Busy
<1>2. \A q \in Requests : fetch[q].at = "queued" => fetch'[q] = fetch[q]
  BY DEF Busy, Waiting
<1>3. requests \in Seq(Requests) /\ run \in Requests \cup {None}
  BY DEF IInv, TypeOK
<1>4. QED
  BY <1>1, <1>2, <1>3 DEF IInv, TokensCount, QueuedOnce, At

LEMMA FetchTyped ==
    ASSUME IInv
    PROVE  fetch \in [Requests -> Fetches]
BY DEF IInv, TypeOK, Fetches, PieceStates

(* Types of what a worker's step may change. *)
LEMMA WorkerTyped ==
    ASSUME IInv, fetch' \in [Requests -> Fetches], UNCHANGED <<channels, workerTokens, lists>>
    PROVE  TypeOK'
BY DEF IInv, TypeOK, Fetches, PieceStates, channels, lists, Addrs

(* Steps that move one request within its worker and alter no pieces.      *)
LEMMA MoveKeeps ==
    ASSUME IInv, NEW r \in Requests, NEW a \in {"return", "drop", "dial", "block", "handshake"},
           fetch[r].at \in {"filter", "dial", "handshake", "pieces"}, Goes(r, a),
           UNCHANGED <<channels, workerTokens, lists>>
    PROVE  IInv'
<1>1. /\ fetch' \in [Requests -> Fetches]
      /\ fetch'[r].at = a
      /\ \A q \in Requests : q # r => fetch'[q] = fetch[q]
  BY FetchTyped, OneFetches DEF Places
<1>2. TypeOK'
  BY <1>1, WorkerTyped
<1>3. TokensCount' /\ QueuedOnce'
  BY <1>1, WorkerKeeps DEF channels, Busy, Waiting
<1>4. WholeOnes'
  BY <1>1 DEF IInv, WholeOnes, Whole, Answered, At, channels, PiecesNum
<1>5. QED
  BY <1>2, <1>3, <1>4 DEF IInv

(* A worker changes the item of its address. *)
LEMMA BlockKeeps ==
    ASSUME IInv, NEW r \in Requests, Block(r)
    PROVE  IInv'
<1>1. PICK a \in {"dial", "return"}, item \in Items :
         /\ fetch[r].at \in {"drop", "block"} /\ Goes(r, a) /\ Lists(r, item)
         /\ UNCHANGED <<channels, workerTokens>>
  BY DEF Block, DropExpired, SetItem, At, Items
<1>2. /\ fetch' \in [Requests -> Fetches]
      /\ fetch'[r].at = a
      /\ \A q \in Requests : q # r => fetch'[q] = fetch[q]
  BY <1>1, FetchTyped, OneFetches DEF Places
<1>3. blackList' \in [Addrs -> Items] /\ swept' = swept
  BY <1>1 DEF IInv, TypeOK, Lists
<1>4. TypeOK'
  BY <1>1, <1>2, <1>3 DEF IInv, TypeOK, Fetches, PieceStates, channels, Addrs
<1>5. TokensCount' /\ QueuedOnce'
  BY <1>1, <1>2, WorkerKeeps DEF channels, Busy, Waiting
<1>6. WholeOnes'
  BY <1>1, <1>2 DEF IInv, WholeOnes, Whole, Answered, At, channels, PiecesNum
<1>7. QED
  BY <1>4, <1>5, <1>6 DEF IInv

(* clear and the passing of time touch the blacklist only. *)
LEMMA SweepKeeps ==
    ASSUME IInv, Sweep
    PROVE  IInv'
<1>1. UNCHANGED <<channels, workerTokens, fetch>>
  BY DEF Sweep, Collect, DeleteMulti, Age
<1>2. blackList' \in [Addrs -> Items] /\ (swept' = None \/ swept' \subseteq Addrs)
  BY DEF Sweep, Collect, DeleteMulti, Age, IInv, TypeOK, Items
<1>3. TypeOK'
  BY <1>1, <1>2 DEF IInv, TypeOK, channels, Addrs
<1>4. TokensCount' /\ QueuedOnce' /\ WholeOnes'
  BY <1>1 DEF IInv, TokensCount, Busy, QueuedOnce, WholeOnes, Whole, Answered, At, channels,
              PiecesNum
<1>5. QED
  BY <1>3, <1>4 DEF IInv

(* The handshake makes room for the pieces. *)
LEMMA HandshakeKeeps ==
    ASSUME IInv, NEW r \in Requests, ExtHandshake(r)
    PROVE  IInv'
<1>1. PICK s : s = [i \in 1..PiecesNum(r) |-> "none"]
  OBVIOUS
<1>2. s \in Seq(PieceStates) /\ Len(s) = PiecesNum(r)
  BY <1>1, PiecesNumbered DEF PieceStates
<1>3. fetch' = [fetch EXCEPT ![r] = [at |-> "pieces", asked |-> fetch[r].asked, pieces |-> s]]
  BY <1>1, FetchTyped DEF ExtHandshake, Fetches
<1>4. /\ fetch' \in [Requests -> Fetches]
      /\ fetch'[r].at = "pieces" /\ fetch'[r].pieces = s
      /\ \A q \in Requests : q # r => fetch'[q] = fetch[q]
  BY <1>2, <1>3, FetchTyped DEF Fetches, Places
<1>5. TypeOK'
  BY <1>4, WorkerTyped DEF ExtHandshake
<1>6. TokensCount' /\ QueuedOnce'
  BY <1>4, WorkerKeeps DEF ExtHandshake, channels, Busy, Waiting, At
<1>7. WholeOnes'
  <2>1. fetch[r].at = "handshake" /\ Answered' = Answered
    BY DEF ExtHandshake, At, Answered, channels
  <2>2. QED
    BY <1>2, <1>4, <2>1 DEF IInv, WholeOnes, Whole, At
<1>8. QED
  BY <1>5, <1>6, <1>7 DEF IInv

LEMMA AskKeeps ==
    ASSUME IInv, NEW r \in Requests, Ask(r)
    PROVE  IInv'
<1>0. PICK f : f = [fetch[r] EXCEPT !.asked = @ + 1]
  OBVIOUS
<1>1. /\ fetch' = [fetch EXCEPT ![r] = f]
      /\ f \in Fetches /\ f.at = "pieces" /\ f.pieces = fetch[r].pieces
  <2>1. fetch[r] \in Fetches /\ fetch[r].at = "pieces"
    BY FetchTyped DEF Ask, At
  <2>2. f \in Fetches /\ f.at = "pieces" /\ f.pieces = fetch[r].pieces
    BY <1>0, <2>1 DEF Fetches
  <2>3. fetch' = [fetch EXCEPT ![r] = f]
    BY <1>0 DEF Ask
  <2>4. QED
    BY <2>2, <2>3
<1>2. /\ fetch' \in [Requests -> Fetches]
      /\ fetch'[r].at = "pieces" /\ fetch'[r].pieces = fetch[r].pieces
      /\ \A q \in Requests : q # r => fetch'[q] = fetch[q]
  BY <1>1, FetchTyped DEF Fetches, Places
<1>3. TypeOK'
  BY <1>2, WorkerTyped DEF Ask
<1>4. TokensCount' /\ QueuedOnce'
  BY <1>2, WorkerKeeps DEF Ask, channels, Busy, Waiting, At
<1>5. WholeOnes'
  BY <1>2 DEF IInv, WholeOnes, Whole, Answered, At, Ask, channels, PiecesNum
<1>6. QED
  BY <1>3, <1>4, <1>5 DEF IInv

(* The last piece makes the metadata whole if its digest is the infohash.  *)
LEMMA PieceKeeps ==
    ASSUME IInv, NEW r \in Requests, Piece(r)
    PROVE  IInv'
<1>1. PICK i \in 1..PiecesNum(r), c \in {"good", "bad"} :
         LET pieces == [fetch[r].pieces EXCEPT ![i] = c]
         IN  fetch' = [fetch EXCEPT ![r] =
                [at |-> IF ~IsDone(pieces) THEN "pieces"
                        ELSE IF Genuine(pieces) THEN "respond" ELSE "return",
                 asked |-> @.asked, pieces |-> pieces]]
  BY DEF Piece
<1>2. PICK s : s = [fetch[r].pieces EXCEPT ![i] = c]
  OBVIOUS
<1>3. /\ fetch[r].at = "pieces" /\ fetch[r] \in Fetches
      /\ Len(fetch[r].pieces) = PiecesNum(r)
  BY FetchTyped DEF Piece, Answer, At, IInv, WholeOnes
<1>4. s \in Seq(PieceStates) /\ Len(s) = PiecesNum(r)
  BY <1>2, <1>3 DEF Fetches, PieceStates
<1>5. PICK a \in {"pieces", "respond", "return"} :
         /\ a = IF ~IsDone(s) THEN "pieces" ELSE IF Genuine(s) THEN "respond" ELSE "return"
         /\ fetch' = [fetch EXCEPT ![r] = [at |-> a, asked |-> fetch[r].asked, pieces |-> s]]
  BY <1>1, <1>2, <1>3 DEF Fetches
<1>6. /\ fetch' \in [Requests -> Fetches]
      /\ fetch'[r].at = a /\ fetch'[r].pieces = s
      /\ \A q \in Requests : q # r => fetch'[q] = fetch[q]
  BY <1>3, <1>4, <1>5, FetchTyped DEF Fetches, Places
<1>7. TypeOK'
  BY <1>6, WorkerTyped DEF Piece
<1>8. TokensCount' /\ QueuedOnce'
  BY <1>3, <1>6, WorkerKeeps DEF Piece, channels, Busy, Waiting
<1>9. Size[r] > 0
  BY PiecesNumbered, WRConstants
<1>10. a = "respond" => \A k \in 1..PiecesNum(r) : s[k] = "good"
  BY <1>4, <1>5 DEF Genuine
<1>11. WholeOnes'
  BY <1>3, <1>4, <1>6, <1>9, <1>10
     DEF IInv, WholeOnes, Whole, Answered, At, Piece, channels, PiecesNum
<1>12. QED
  BY <1>7, <1>8, <1>11 DEF IInv

-----------------------------------------------------------------------------
(* The steps on the channels.                                              *)

LEMMA RequestKeeps ==
    ASSUME IInv, NEW r \in Requests, Request(r)
    PROVE  IInv'
<1>1. /\ fetch' \in [Requests -> Fetches]
      /\ fetch'[r].at = "queued" /\ fetch'[r].pieces = fetch[r].pieces
      /\ \A q \in Requests : q # r => fetch'[q] = fetch[q]
  BY FetchTyped, OneFetches DEF Request, Places
<1>2. requests \in Seq(Requests) /\ requests' = Append(requests, r) /\ fetch[r].at = "calling"
  BY DEF IInv, TypeOK, Request, At
<1>3. TypeOK'
  BY <1>1, <1>2 DEF IInv, TypeOK, Fetches, PieceStates, Request, lists, Addrs
<1>4. TokensCount'
  <2>1. Busy' = Busy
    BY <1>1, <1>2 DEF Busy, Waiting
  <2>2. QED
    BY <2>1 DEF IInv, TokensCount, Request
<1>5. QueuedOnce'
  <2>1. /\ Len(requests') = Len(requests) + 1 /\ requests'[Len(requests) + 1] = r
        /\ \A i \in 1..Len(requests) : requests'[i] = requests[i] /\ requests[i] \in Requests
    BY <1>2
  <2>2. /\ \A i \in 1..Len(requests) : requests[i] # r
        /\ run' = run /\ run # r
    BY <1>2, WRConstants DEF IInv, QueuedOnce, At, Request
  <2>3. \A i \in 1..Len(requests') : i \in 1..Len(requests) \/ i = Len(requests) + 1
    BY <1>2, <2>1
  <2>4. run \in Requests \cup {None}
    BY DEF IInv, TypeOK
  <2>5. QED
    BY <1>1, <2>1, <2>2, <2>3, <2>4 DEF IInv, QueuedOnce, At
<1>6. WholeOnes'
  BY <1>1, <1>2 DEF IInv, WholeOnes, Whole, Answered, At, Request, PiecesNum
<1>7. QED
  BY <1>3, <1>4, <1>5, <1>6 DEF IInv

LEMMA TakeKeeps ==
    ASSUME IInv, Take
    PROVE  IInv'
<1>1. requests \in Seq(Requests) /\ requests # <<>>
  BY DEF IInv, TypeOK, Take
<1>2. /\ requests' \in Seq(Requests) /\ Len(requests') = Len(requests) - 1
      /\ \A i \in 1..Len(requests') : requests'[i] = requests[i + 1]
      /\ run' = requests[1] /\ run' \in Requests
  BY <1>1 DEF Take
<1>3. TypeOK'
  BY <1>2 DEF IInv, TypeOK, Take, lists, Addrs
<1>4. TokensCount' /\ WholeOnes'
  BY DEF IInv, TokensCount, Busy, WholeOnes, Whole, Answered, At, Take, PiecesNum
<1>5. QueuedOnce'
  BY <1>1, <1>2 DEF IInv, QueuedOnce, At, Take
<1>6. QED
  BY <1>3, <1>4, <1>5 DEF IInv

LEMMA StartKeeps ==
    ASSUME IInv, StartWorker
    PROVE  IInv'
<1>1. run \in Requests /\ fetch[run].at = "queued"
  BY DEF IInv, TypeOK, QueuedOnce, At, StartWorker
<1>2. /\ fetch' \in [Requests -> Fetches]
      /\ fetch'[run].at = "filter"
      /\ \A q \in Requests : q # run => fetch'[q] = fetch[q]
  BY <1>1, FetchTyped, OneFetches DEF StartWorker, Places
<1>3. TypeOK'
  BY <1>2, WRConstants DEF IInv, TypeOK, Fetches, PieceStates, StartWorker, lists, Addrs
<1>4. TokensCount'
  <2>1. run \notin Busy /\ Busy' = Busy \cup {run}
    BY <1>1, <1>2 DEF Busy, Waiting
  <2>2. Cardinality(Busy') = Cardinality(Busy) + 1
    BY <2>1, BusyCounted, FS_AddElement
  <2>3. QED
    BY <2>2 DEF IInv, TokensCount, StartWorker
<1>5. QueuedOnce'
  <2>1. requests \in Seq(Requests)
    BY DEF IInv, TypeOK
  <2>2. QED
    BY <1>1, <1>2, <2>1 DEF IInv, QueuedOnce, At, StartWorker
<1>6. WholeOnes'
  BY <1>1, <1>2 DEF IInv, WholeOnes, Whole, Answered, At, StartWorker, PiecesNum
<1>7. QED
  BY <1>3, <1>4, <1>5, <1>6 DEF IInv

LEMMA ReturnKeeps ==
    ASSUME IInv, NEW r \in Requests, Return(r)
    PROVE  IInv'
<1>1. /\ fetch' \in [Requests -> Fetches] /\ fetch[r].at = "return"
      /\ fetch'[r].at = "done" /\ fetch'[r].pieces = fetch[r].pieces
      /\ \A q \in Requests : q # r => fetch'[q] = fetch[q]
  BY FetchTyped, OneFetches DEF Return, At, Places
<1>2. r \in Busy /\ Busy' = Busy \ {r}
  BY <1>1 DEF Busy, Waiting
<1>3. Cardinality(Busy') = Cardinality(Busy) - 1
  BY <1>2, BusyCounted, FS_RemoveElement
<1>4. TokensCount'
  BY <1>3, BusyCounted DEF IInv, TokensCount, Return
<1>5. workerTokens' \in 0..WorkerQueueSize
  BY <1>3, BusyCounted, WRConstants DEF IInv, TypeOK, TokensCount, Return
<1>6. TypeOK'
  BY <1>1, <1>5 DEF IInv, TypeOK, Fetches, PieceStates, Return, channels, lists, Addrs
<1>7. QueuedOnce'
  <2>1. requests \in Seq(Requests) /\ run \in Requests \cup {None}
    BY DEF IInv, TypeOK
  <2>2. QED
    BY <1>1, <2>1 DEF IInv, QueuedOnce, At, Return, channels
<1>8. WholeOnes'
  BY <1>1 DEF IInv, WholeOnes, Whole, Answered, At, Return, channels, PiecesNum
<1>9. QED
  BY <1>4, <1>6, <1>7, <1>8 DEF IInv

LEMMA RespondKeeps ==
    ASSUME IInv, NEW r \in Requests, Respond(r)
    PROVE  IInv'
<1>1. /\ fetch' \in [Requests -> Fetches] /\ fetch[r].at = "respond"
      /\ fetch'[r].at = "return" /\ fetch'[r].pieces = fetch[r].pieces
      /\ \A q \in Requests : q # r => fetch'[q] = fetch[q]
  BY FetchTyped, OneFetches DEF Respond, At, Places
<1>2. responses \in Seq(Requests) /\ responses' = Append(responses, r)
  BY DEF IInv, TypeOK, Respond
<1>3. TypeOK'
  <2>1. responses' \in Seq(Requests) /\ Len(responses') <= ResponseQueueSize
    BY <1>2, WRConstants DEF Respond
  <2>2. QED
    BY <1>1, <2>1 DEF IInv, TypeOK, Fetches, PieceStates, Respond, lists, Addrs
<1>4. TokensCount' /\ QueuedOnce'
  BY <1>1, WorkerKeeps DEF Respond, Busy, Waiting
<1>5. Answered' \subseteq Answered \cup {r}
  BY <1>2 DEF Answered, Respond
<1>6. WholeOnes'
  BY <1>1, <1>5 DEF IInv, WholeOnes, Whole, At, PiecesNum
<1>7. QED
  BY <1>3, <1>4, <1>6 DEF IInv

LEMMA ConsumeKeeps ==
    ASSUME IInv, Consume
    PROVE  IInv'
<1>1. responses \in Seq(Requests) /\ responses # <<>>
  BY DEF IInv, TypeOK, Consume
<1>2. /\ responses' \in Seq(Requests) /\ Len(responses') = Len(responses) - 1
      /\ \A i \in 1..Len(responses') : responses'[i] = responses[i + 1]
      /\ delivered' = delivered \cup {responses[1]} /\ responses[1] \in Requests
  BY <1>1 DEF Consume
<1>3. TypeOK'
  BY <1>1, <1>2, WRConstants, SMTT(30) DEF IInv, TypeOK, Consume, lists, Addrs
<1>4. Answered' \subseteq Answered
  BY <1>1, <1>2 DEF Answered
<1>5. TokensCount' /\ QueuedOnce'
  BY DEF IInv, TokensCount, Busy, QueuedOnce, At, Consume
<1>6. WholeOnes'
  BY <1>4 DEF IInv, WholeOnes, Whole, At, Consume, PiecesNum
<1>7. QED
  BY <1>3, <1>5, <1>6 DEF IInv

-----------------------------------------------------------------------------
LEMMA WireKept == IInv /\ [Next]_vars => IInv'
<1> SUFFICES ASSUME IInv, [Next]_vars PROVE IInv'
  OBVIOUS
<1>1. CASE Take
  BY <1>1, TakeKeeps
<1>2. CASE StartWorker
  BY <1>2, StartKeeps
<1>3. CASE Consume
  BY <1>3, ConsumeKeeps
<1>4. ASSUME NEW r \in Requests, Request(r) PROVE IInv'
  BY <1>4, RequestKeeps
<1>5. ASSUME NEW r \in Requests, Worker(r) PROVE IInv'
  <2>1. CASE Filter(r)
    <3>1. PICK a \in {"return", "drop", "dial"} : Goes(r, a)
      BY <2>1 DEF Filter
    <3>2. QED
      BY <2>1, <3>1, MoveKeeps DEF Filter, At
  <2>2. CASE Connect(r)
    BY <2>2, MoveKeeps DEF Connect, At
  <2>3. CASE Fail(r)
    BY <2>3, MoveKeeps DEF Fail, At
  <2>4. CASE Refuse(r)
    BY <2>4, MoveKeeps DEF Refuse, Answer, At
  <2>5. CASE DialFails(r)
    <3>1. PICK a \in {"block", "return"} : Goes(r, a)
      BY <2>5 DEF DialFails
    <3>2. QED
      BY <2>5, <3>1, MoveKeeps DEF DialFails, At
  <2>6. CASE ExtHandshake(r)
    BY <2>6, HandshakeKeeps
  <2>7. CASE Ask(r)
    BY <2>7, AskKeeps
  <2>8. CASE Piece(r)
    BY <2>8, PieceKeeps
  <2>9. CASE Respond(r)
    BY <2>9, RespondKeeps
  <2>10. CASE Return(r)
    BY <2>10, ReturnKeeps
  <2>11. CASE Block(r)
    BY <2>11, BlockKeeps
  <2>12. QED
    BY <1>5, <2>1, <2>2, <2>3, <2>4, <2>5, <2>6, <2>7, <2>8, <2>9, <2>10, <2>11
       DEF Worker, Dial, Download
<1>6. CASE Sweep
  BY <1>6, SweepKeeps
<1>7. CASE UNCHANGED vars
  BY <1>7 DEF vars, IInv, TypeOK, TokensCount, Busy, QueuedOnce, WholeOnes, Whole, Answered, At,
              PiecesNum, Addrs
<1>8. QED
  BY <1>1, <1>2, <1>3, <1>4, <1>5, <1>6, <1>7 DEF Next

(* The type invariant, for any requests, sizes and capacities. *)
THEOREM WireTypeCorrect == Spec => []TypeOK
<1>1. IInv => TypeOK
  BY DEF IInv
<1>2. QED
  BY WireAtFirst, WireKept, <1>1, PTL DEF Spec

(* Whatever peers answer and however the fetches interleave, what comes    *)
(* out of the channel responses is whole and genuine.                      *)
THEOREM WireResponsesGenuine == Spec => []ResponsesAreGenuine
<1>1. IInv => ResponsesAreGenuine
  <2> SUFFICES ASSUME IInv PROVE ResponsesAreGenuine
    OBVIOUS
  <2>1. Answered \subseteq Requests
    BY DEF Answered
  <2>2. QED
    BY <2>1 DEF IInv, WholeOnes, Whole, ResponsesAreGenuine
<1>2. QED
  BY WireAtFirst, WireKept, <1>1, PTL DEF Spec

-----------------------------------------------------------------------------
(* Which pieces an honest peer's metadata is cut into.                     *)

LEMMA Divided ==
    ASSUME NEW s \in Nat, NEW b \in Nat, b > 0
    PROVE  /\ s \div b \in Nat /\ s % b \in Nat /\ s % b < b
           /\ s % b = s - (s \div b) * b
<1>1. s \div b \in Nat /\ s % b \in Nat /\ s % b < b
  OBVIOUS
<1>2. s % b = s - b * (s \div b)
  OBVIOUS
<1>3. b * (s \div b) = (s \div b) * b
  BY <1>1
<1>4. QED
  BY <1>1, <1>2, <1>3

LEMMA Multiples ==
    ASSUME NEW i \in Nat, NEW q \in Nat, NEW b \in Nat, b > 0
    PROVE  /\ i <= q => i * b <= q * b
           /\ i = q + 1 => i * b = q * b + b
           /\ i * b \in Nat /\ q * b \in Nat
OBVIOUS

(* The code takes the length of the last piece for the remainder, so that  *)
(* exactly a last piece that is full does not fit.                         *)
LEMMA FitsUnlessFull ==
    ASSUME NEW r \in Requests, NEW i \in 1..PiecesNum(r)
    PROVE  Fits(r, i) <=> ~(i = PiecesNum(r) /\ Size[r] % BLOCK = 0)
<1>1. Size[r] \in Nat /\ BLOCK \in Nat /\ BLOCK > 0
  BY WRConstants
<1> DEFINE s == Size[r]
           q == s \div BLOCK
           m == s % BLOCK
           below == q * BLOCK
           upto == i * BLOCK
<1>2. q \in Nat /\ m \in Nat /\ m < BLOCK /\ m = s - below
  BY <1>1, Divided
<1>3. PiecesNum(r) = (IF m # 0 THEN q + 1 ELSE q) /\ i \in 1..PiecesNum(r)
  BY Zenon DEF PiecesNum
<1>4. PieceLen(r, i) = (IF upto <= s THEN BLOCK ELSE m)
  BY Zenon DEF PieceLen
<1>5. Fits(r, i) <=> PieceLen(r, i) = (IF i = PiecesNum(r) THEN m ELSE BLOCK)
  BY Zenon DEF Fits
<1> HIDE DEF q, m
<1>6. i \in Nat /\ i <= q + 1
  BY <1>2, <1>3
<1>7. /\ i <= q => upto <= below
      /\ i = q + 1 => upto = below + BLOCK
      /\ upto \in Nat /\ below \in Nat
  BY <1>1, <1>2, <1>6, Multiples
<1> HIDE DEF s, below, upto
<1>8. upto <= s <=> i <= q
  BY <1>1, <1>2, <1>6, <1>7 DEF s
<1>9. Fits(r, i) <=> ~(i = PiecesNum(r) /\ m = 0)
  BY <1>1, <1>2, <1>3, <1>4, <1>5, <1>8
<1>10. QED
  BY <1>9 DEF m, s

(* Where no honest peer's metadata fills its last piece, whatever an       *)
(* honest peer sends is taken: the finding of wire_whole is the only way   *)
(* for it to be refused.                                                   *)
NoneFull == \A r \in Honest : Size[r] = 0 \/ Size[r] % BLOCK # 0
THEOREM WireHonestNotRefused == NoneFull => (Spec => HonestNotRefused)
<1>1. ASSUME NoneFull, NEW r \in Honest PROVE ~Refuse(r)
  <2> SUFFICES ASSUME NEW i \in 1..PiecesNum(r) PROVE Fits(r, i)
    BY DEF Refuse
  <2>1. r \in Requests
    BY WRConstants
  <2>2. Size[r] # 0
    BY <2>1, PiecesNumbered
  <2>3. Size[r] % BLOCK # 0
    BY <1>1, <2>2 DEF NoneFull
  <2>4. QED
    BY <2>1, <2>3, FitsUnlessFull
<1>2. ASSUME NoneFull PROVE [][\A r \in Honest : ~Refuse(r)]_vars
  <2>1. \A r \in Honest : ~Refuse(r)
    BY <1>1, <1>2
  <2>2. QED
    BY <2>1, PTL
<1>3. QED
  BY <1>2 DEF HonestNotRefused
=============================================================================
