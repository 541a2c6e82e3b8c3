------------------------------- MODULE Indexer --------------------------------
(***************************************************************************)
(* What becomes of an announce: the callbacks of the DHT and the loop over *)
(* the wire's responses (src/processes/sniffer/sniffer.go), the jobs that  *)
(* download a torrent (src/processes/magnet), the two tables they share,   *)
(* and the API that updates the index (src/server).  MySQL, Elasticsearch, *)
(* HTTP, the wire and the broker are external: a transaction reads what    *)
(* was committed before its first read, and any call may fail.             *)
(***************************************************************************)
EXTENDS Naturals, FiniteSets, Sequences, FiniteSetsExt

CONSTANTS
    Infohashes, Addresses,
    Callbacks,     \* goroutines of handle that are in a callback
    Jobs,          \* workers of celery
    Loop,          \* the goroutine of init
    MaxCalls,      \* bound of the model: callbacks and jobs begun
    MaxFaults,     \* bound of the model: calls that fail, and crashes
    None

ASSUME IndexAssumption == IsFiniteSet(Callbacks) /\ None \notin {0, 1, 2}

Processes == Callbacks \cup Jobs \cup {Loop}

VARIABLES
    tasks,       \* infohash_task: its rows in the order of their ids
    announced,   \* announce_peer: rows per infohash and address
    requested,   \* requests the wire has not answered, per infohash
    index,       \* the documents of the index: hot, or None
    proc,        \* where each process is, with what it has read
    nameless,    \* infohashes whose metadata has a name, but an empty one
    calls, faults,
    lost         \* infohashes whose name a failed call kept from the index

indexVars == <<tasks, announced, requested, index, proc, nameless, calls, faults, lost>>

Idle == [at |-> "idle", infohash |-> None, address |-> None, status |-> None,
         dupAddress |-> FALSE, named |-> FALSE, hot |-> 0, found |-> FALSE]
Of(p) == proc[p].infohash
Goes(p, at) == proc' = [proc EXCEPT ![p].at = at]
Ends(p) == proc' = [proc EXCEPT ![p] = Idle]

Begins(p) == proc[p] = Idle /\ calls > 0 /\ calls' = calls - 1

(* A call fails; loses says whether the name of h is lost by it.           *)
Fails(h, loses) ==
    /\ faults > 0 /\ faults' = faults - 1
    /\ lost' = IF loses THEN lost \cup {h} ELSE lost
NoFault == UNCHANGED <<faults, lost>>

-----------------------------------------------------------------------------
(* The tables.  gorm scans every row found into the one task, so that it   *)
(* keeps that of the last; status is None when there is no row.            *)

(* Mutant of Status: the table is not searched.                            *)
StatusUnread(h) == None
Status(h) ==
    LET rows == {i \in 1..Len(tasks) : tasks[i].infohash = h}
    IN IF rows = {} THEN None ELSE tasks[Max(rows)].status

UpdateStatus(h, status) ==
    tasks' = [i \in 1..Len(tasks) |->
                IF tasks[i].infohash = h THEN [tasks[i] EXCEPT !.status = status] ELSE tasks[i]]
Hot(h) == MapThenSumSet(LAMBDA a : announced[h][a], Addresses)

-----------------------------------------------------------------------------
(* OnGetPeers: a row for an infohash that has none.                        *)

BeginGetPeers(w) ==
    /\ Begins(w)
    /\ \E h \in Infohashes :
          /\ Status(h) = None
          /\ proc' = [proc EXCEPT ![w] = [Idle EXCEPT !.at = "create", !.infohash = h]]
    /\ NoFault /\ UNCHANGED <<tasks, announced, requested, index>>

CreateTask(w) ==
    /\ proc[w].at = "create"
    /\ \/ NoFault /\ tasks' = Append(tasks, [infohash |-> Of(w), status |-> 0])
       \/ Fails(Of(w), FALSE) /\ UNCHANGED tasks
    /\ Ends(w)
    /\ UNCHANGED <<announced, requested, index, calls>>

(* OnAnnouncePeer: addAnnouncePeerTask reads both tables; an error other   *)
(* than RecordNotFound is taken for a row, of status 0.  The only announce *)
(* of a torrent that is not stored leaves nothing for the loop to count.   *)
BeginAnnounce(w) ==
    /\ Begins(w)
    /\ \E h \in Infohashes, a \in Addresses :
          LET read(status, dup) ==
                proc' = [proc EXCEPT ![w] = [Idle EXCEPT !.at = "commit", !.infohash = h,
                            !.address = a, !.status = status, !.dupAddress = dup]]
          IN \/ NoFault /\ read(Status(h), announced[h][a] > 0)
             \/ Fails(h, FALSE) /\ read(0, announced[h][a] > 0)
             \/ Fails(h, Hot(h) = 0) /\ read(Status(h), TRUE)
    /\ UNCHANGED <<tasks, announced, requested, index>>

(* What the callback does when addAnnouncePeerTask returns.                *)
Request(w) ==
    requested' = IF proc[w].status \in {None, 0} THEN [requested EXCEPT ![Of(w)] = @ + 1]
                                                 ELSE requested

(* An error of the commit itself is not looked at.                         *)
Commit(w) ==
    /\ proc[w].at = "commit"
    /\ \/ /\ NoFault
          /\ tasks' = IF proc[w].status # None THEN tasks
                      ELSE Append(tasks, [infohash |-> Of(w), status |-> 0])
          /\ announced' = IF proc[w].dupAddress THEN announced
                          ELSE [announced EXCEPT ![Of(w)][proc[w].address] = @ + 1]
       \/ Fails(Of(w), Hot(Of(w)) = 0) /\ UNCHANGED <<tasks, announced>>
    /\ Request(w)
    /\ IF proc[w].status = 1 /\ ~proc[w].dupAddress THEN Goes(w, "count") ELSE Ends(w)
    /\ UNCHANGED <<index, calls>>

(* A row that cannot be inserted.                                          *)
Rollback(w) ==
    /\ proc[w].at = "commit"
    /\ proc[w].status = None \/ ~proc[w].dupAddress
    /\ Fails(Of(w), Hot(Of(w)) = 0) /\ Request(w) /\ Ends(w)
    /\ UNCHANGED <<tasks, announced, index, calls>>

-----------------------------------------------------------------------------
(* The loop over responses: metadata without a name is passed over, for    *)
(* others finishTask sets the status, though the name may be empty.        *)

Answered(h) ==
    /\ requested[h] > 0
    /\ requested' = [requested EXCEPT ![h] = @ - 1]

NoMetadata(h) ==
    /\ Answered(h)
    /\ NoFault /\ UNCHANGED <<tasks, announced, index, proc, calls>>

FinishTask(h) ==
    /\ proc[Loop] = Idle
    /\ Answered(h)
    /\ \/ /\ NoFault /\ UpdateStatus(h, 1)
          /\ proc' = [proc EXCEPT ![Loop] =
                        [Idle EXCEPT !.at = "count", !.infohash = h, !.named = h \notin nameless]]
       \/ Fails(h, FALSE) /\ UNCHANGED <<tasks, proc>>
    /\ UNCHANGED <<announced, index, calls>>

-----------------------------------------------------------------------------
(* download_torrent, queued for a row that had status 0 when begin_task    *)
(* read it: the program says yes, or no, or does not end in time.          *)

Queue(j) ==
    /\ Begins(j)
    /\ \E h \in Infohashes :
          /\ \E i \in 1..Len(tasks) : tasks[i] = [infohash |-> h, status |-> 0]
          /\ proc' = [proc EXCEPT ![j] =
                        [Idle EXCEPT !.at = "download", !.infohash = h, !.named = h \notin nameless]]
    /\ NoFault /\ UNCHANGED <<tasks, announced, requested, index>>

DownloadTorrent(j) ==
    /\ proc[j].at = "download"
    /\ \/ Goes(j, "count") /\ UNCHANGED tasks
       \/ Ends(j) /\ UpdateStatus(Of(j), 2)
       \/ Ends(j) /\ UNCHANGED tasks
    /\ NoFault /\ UNCHANGED <<announced, requested, index, calls>>

-----------------------------------------------------------------------------
(* Counting and posting, the end of finishTask, of addAnnouncePeerTask and *)
(* of update_meta_info, which posts a count of 0 too.  A job that fails to *)
(* post leaves the status as it was.                                       *)

(* Mutant of Posted: a torrent announced by one address is not posted.     *)
PostedTwice(p, total) == p \in Jobs \/ total > 1
Posted(p, total) == p \in Jobs \/ total > 0

Count(p) ==
    /\ proc[p].at = "count"
    /\ \/ /\ NoFault
          /\ IF Posted(p, Hot(Of(p)))
             THEN proc' = [proc EXCEPT ![p].at = "post", ![p].hot = Hot(Of(p))]
             ELSE Ends(p)
       \/ Fails(Of(p), p = Loop) /\ Ends(p)
    /\ UNCHANGED <<tasks, announced, requested, index, calls>>

(* EsUpdateMetaData asks for the document; any error means that it is not  *)
(* there.  Or the post does not arrive, which a job does not survive.      *)
Get(p) ==
    /\ proc[p].at = "post"
    /\ \/ NoFault /\ proc' = [proc EXCEPT ![p].at = "write", ![p].found = index[Of(p)] # None]
       \/ Fails(Of(p), FALSE) /\ Goes(p, "write")
       \/ Fails(Of(p), p = Loop) /\ Ends(p)
    /\ UNCHANGED <<tasks, announced, requested, index, calls>>

Update(p) ==
    LET writes == IF proc[p].found THEN proc[p].hot # 0 ELSE proc[p].named
    IN index' = IF writes THEN [index EXCEPT ![Of(p)] = proc[p].hot] ELSE index

(* An error of the index is a status nobody looks at.                      *)
Write(p) ==
    /\ proc[p].at = "write"
    /\ \/ NoFault /\ Update(p)
       \/ Fails(Of(p), p \notin Callbacks) /\ UNCHANGED index
    /\ IF p \in Jobs THEN Goes(p, "mark") ELSE Ends(p)
    /\ UNCHANGED <<tasks, announced, requested, calls>>

Mark(j) ==
    /\ proc[j].at = "mark"
    /\ \/ NoFault /\ UpdateStatus(Of(j), 1)
       \/ Fails(Of(j), FALSE) /\ UNCHANGED tasks
    /\ Ends(j)
    /\ UNCHANGED <<announced, requested, index, calls>>

-----------------------------------------------------------------------------
(* The sniffer is killed and started again: a transaction that was open is *)
(* rolled back, and what was requested is forgotten.                       *)
Crash ==
    /\ faults > 0 /\ faults' = faults - 1
    /\ lost' = lost \cup ({Of(Loop)} \ {None})
    /\ proc' = [p \in Processes |-> IF p \in Jobs THEN proc[p] ELSE Idle]
    /\ requested' = [h \in Infohashes |-> 0]
    /\ UNCHANGED <<tasks, announced, index, calls>>

IndexInit ==
    /\ tasks = <<>>
    /\ announced = [h \in Infohashes |-> [a \in Addresses |-> 0]]
    /\ requested = [h \in Infohashes |-> 0]
    /\ index = [h \in Infohashes |-> None]
    /\ proc = [p \in Processes |-> Idle]
    /\ nameless \in SUBSET Infohashes
    /\ calls = MaxCalls /\ faults = MaxFaults /\ lost = {}

Proceeds(p) == Count(p) \/ Get(p) \/ Write(p)

IndexNext ==
    /\ UNCHANGED nameless
    /\ \/ \E w \in Callbacks :
             BeginGetPeers(w) \/ CreateTask(w) \/ BeginAnnounce(w) \/ Commit(w) \/ Rollback(w)
       \/ \E h \in Infohashes : NoMetadata(h) \/ FinishTask(h)
       \/ \E j \in Jobs : Queue(j) \/ DownloadTorrent(j) \/ Mark(j)
       \/ \E p \in Processes : Proceeds(p)
       \/ Crash

(* Goroutines and jobs that are posting go on: one of them at least, which *)
(* is less than the scheduler does.                                        *)
IndexFairness == WF_indexVars(UNCHANGED nameless /\ \E p \in Processes : Proceeds(p))

IndexSpec == IndexInit /\ [][IndexNext]_indexVars /\ IndexFairness

-----------------------------------------------------------------------------
(* A callback looks for a row and inserts it when there is none, and no    *)
(* index is unique: so a torrent may have a row, and an address a row for  *)
(* it, from each callback that was under way when there was none, but      *)
(* never from one that begins later.                                       *)
RowsBounded ==
    \A h \in Infohashes :
        /\ Cardinality({i \in 1..Len(tasks) : tasks[i].infohash = h}) <= Cardinality(Callbacks)
        /\ \A a \in Addresses : announced[h][a] <= Cardinality(Callbacks)

(* A torrent whose metadata has been found, which nobody asks for again,   *)
(* comes into the index, whoever found it and whatever it overtakes,       *)
(* unless its name is empty, its only announce was not stored, or the post *)
(* of the name failed or was cut off after the status was set.  A failed   *)
(* call of another kind, or of a callback, keeps no torrent out.           *)
FoundIsIndexed ==
    \A h \in Infohashes :
        (\E i \in 1..Len(tasks) : tasks[i] = [infohash |-> h, status |-> 1])
            ~> (index[h] # None \/ h \in nameless \cup lost)
=============================================================================
