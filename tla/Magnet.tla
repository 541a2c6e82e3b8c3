-------------------------------- MODULE Magnet --------------------------------
(***************************************************************************)
(* The tasks of src/processes/magnet that look for torrents nobody has     *)
(* found yet: begin_task reads a page of the rows of infohash_task whose   *)
(* status is 0, queues a download for each and starts itself again for the *)
(* page after it.  A row is named by its id, and MySQL returns rows in     *)
(* that order.  What the downloads do besides is in Indexer.               *)
(***************************************************************************)
EXTENDS Naturals, FiniteSets, FiniteSetsExt

CONSTANTS
    MaxRows,      \* bound of the model: rows ever inserted
    Limit,        \* rows of a page, 100 in the code
    LastOffset,   \* 200000 in the code
    MaxChains     \* bound of the model: begin_tasks waiting at once

Rows == 1..MaxRows
Offsets == 0..LastOffset

VARIABLES
    inserted,     \* rows inserted
    ready,        \* rows whose status is 0
    begins,       \* begin_tasks waiting for their time, per offset
    downloads     \* rows with a download queued

vars == <<inserted, ready, begins, downloads>>

Chains == MapThenSumSet(LAMBDA o : begins[o], Offsets)

(* A row's place is the number of those before it that are left.           *)
ReadyRecords(offset) ==
    {row \in ready : Cardinality({r \in ready : r < row}) \in offset..offset + Limit - 1}

(* Mutant of Advanced: a row between two pages is left out. *)
AdvancedTooFar(offset) == IF offset + Limit + 1 > LastOffset THEN 0 ELSE offset + Limit + 1
Advanced(offset) == IF offset + Limit > LastOffset THEN 0 ELSE offset + Limit

(* An empty page starts a chain anew in a day and goes on with its own.    *)
BeginTask(offset) ==
    /\ begins[offset] > 0
    /\ LET records   == ReadyRecords(offset)
           restarts  == IF records = {} /\ Chains < MaxChains THEN {1} ELSE {}
           due(o)    == begins[o] + (IF o = Advanced(offset) THEN 1 ELSE 0)
                        + (IF o = 0 THEN Cardinality(restarts) ELSE 0)
       IN /\ downloads' = downloads \cup records
          /\ begins' = [o \in Offsets |-> due(o) - IF o = offset THEN 1 ELSE 0]
    /\ UNCHANGED <<inserted, ready>>

(* download_torrent: the row is found or not found, or, when the program   *)
(* does not end in time, stays as it is.                                   *)
DownloadTorrent(row) ==
    /\ row \in downloads
    /\ downloads' = downloads \ {row}
    /\ ready' \in {ready, ready \ {row}}
    /\ UNCHANGED <<inserted, begins>>

(* The sniffer inserts rows, and finds some itself. *)
InsertRow ==
    /\ inserted < MaxRows
    /\ inserted' = inserted + 1
    /\ ready' = ready \cup {inserted'}
    /\ UNCHANGED <<begins, downloads>>

FindRow ==
    /\ \E row \in ready : ready' = ready \ {row}
    /\ UNCHANGED <<inserted, begins, downloads>>

(* Somebody queues the first begin_task with its offset. *)
Init ==
    /\ inserted \in Rows /\ ready = 1..inserted
    /\ begins = [o \in Offsets |-> IF o = 0 THEN 1 ELSE 0]
    /\ downloads = {}

Begin == \E o \in Offsets : BeginTask(o)
Download == \E row \in Rows : DownloadTorrent(row)

Next == Begin \/ Download \/ InsertRow \/ FindRow

(* A task of a chain is started when its time has come. *)
Fairness == WF_vars(Begin)

-----------------------------------------------------------------------------
(* Pages are counted over a set that shrinks, so that rows slip to pages   *)
(* already read and are passed over; but every row comes to be downloaded  *)
(* as long as its status is 0, for the chain comes back to the first page. *)
EveryRowTried ==
    \A row \in Rows : (row \in ready) ~> (row \in downloads \/ row \notin ready)
=============================================================================
