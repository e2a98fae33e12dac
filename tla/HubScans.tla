------------------------------ MODULE HubScans ------------------------------
(***************************************************************************)
(* The life of the scans of one Postgres backend: the FDW callbacks        *)
(* (fdw.go, exec.go, fdw/fdw.c) and the hub they call (hub/hub_base.go).   *)
(*                                                                         *)
(* A backend has one thread, so a callback is one step; the readers of the *)
(* iterators run beside it.  ScanIterator has the inside of an iterator;   *)
(* here an iterator is its status, its cancel function and its reader.     *)
(* Postgres is external: it drives a query's foreign-scan Nodes through    *)
(* Begin, Iterate, ReScan, Explain and End, and leaves out End when the    *)
(* query fails.                                                            *)
(***************************************************************************)
EXTENDS QueryTiming, SequencesExt

CONSTANTS
    Nodes,          \* the foreign-scan nodes of a plan
    MaxIterators,   \* bound on the iterators created
    MaxTimestamp,   \* bound on the transactions
    Metadata        \* iterator -> the durations its scan reports, one per connection

\* A scan is of one connection at least: an aggregator of none is refused.
ASSUME HubAssumption == /\ MaxIterators \in Nat
                        /\ MaxTimestamp \in Nat \ {0}
                        /\ Metadata \in [1..MaxIterators -> Seq(Nat) \ {<<>>}]

VARIABLES
    query,              \* what Postgres is doing with the current query
    timestamp,          \* the start of the current transaction
    phase,              \* node -> what Postgres has done with it in this query
    fdwState,           \* node -> the iterator of its fdw_state, 0: NULL
    sess,               \* the iterators of the exec states saved in exec.go
    created,            \* how many iterators there are: they are 1..created
    iter,               \* iterator -> its state
    runningIterators,   \* hub.runningIterators
    timing,             \* hub.queryTiming
    abandoned           \* iterators whose exec state was dropped without EndScan

nodeVars == <<phase, fdwState, sess>>
vars == <<query, timestamp, nodeVars, created, iter, runningIterators, timing,
          abandoned>>

Iterators == 1..MaxIterators
Timestamps == 1..MaxTimestamp

IteratorState ==
    [status : {"Ready", "Started", "Error", "Complete"},
     cancel : {"nil", "live", "cancelled"},
     reader : {"none", "active", "over"},
     timestamp : Timestamps,
     adds : Nat,        \* how often its metadata was added
     aborts : Nat]      \* by how many aborts

TypeOK ==
    /\ query \in {"none", "executing", "ending", "failed", "rolledBack"}
    /\ timestamp \in Timestamps
    /\ phase \in [Nodes -> {"out", "begun", "done", "explained", "ended"}]
    /\ fdwState \in [Nodes -> 0..created]
    /\ created \in 0..MaxIterators
    /\ iter \in [1..created -> IteratorState]
    /\ sess \subseteq 1..created
    /\ runningIterators \subseteq 1..created
    /\ abandoned \subseteq 1..created
    /\ DOMAIN timing.scanMetadata \subseteq Timestamps
    /\ \A t \in DOMAIN timing.scanMetadata : Len(timing.scanMetadata[t]) <= MaxMetadata
    /\ DOMAIN timing.queryRowSummary \subseteq Timestamps

Init ==
    /\ query = "none"
    /\ timestamp = 1
    /\ phase = [n \in Nodes |-> "out"]
    /\ fdwState = [n \in Nodes |-> 0]
    /\ sess = {}
    /\ created = 0
    /\ iter = <<>>
    /\ runningIterators = {}
    /\ timing = EmptyTiming
    /\ abandoned = {}

-----------------------------------------------------------------------------
(* Iterators, as the callbacks see them.                                   *)

NewIterator ==
    [status |-> "Ready", cancel |-> "nil", reader |-> "none",
     timestamp |-> timestamp, adds |-> 0, aborts |-> 0]

\* Start: IterateForeignScan starts the scan of an iterator that is Ready.
Started(i) ==
    IF iter[i].status # "Ready" THEN iter[i]
    ELSE [iter[i] EXCEPT !.status = "Started", !.cancel = "live", !.reader = "active"]

\* Close: cancels the context and completes the status unless it is Error.
Closed(it) ==
    [it EXCEPT !.cancel = "cancelled",
               !.status = IF @ = "Error" THEN @ ELSE "Complete"]

Counted(it) == [it EXCEPT !.adds = @ + 1]

\* StartScan, and so addIterator, is called for an iterator that is Ready.
AddIteratorIfReady(i) ==
    runningIterators' = IF iter[i].status = "Ready" THEN runningIterators \cup {i}
                        ELSE runningIterators

RemoveIterator(i) == runningIterators' = runningIterators \ {i}

AddScanMetadataOf(i) == timing' = AddScan(timing, iter[i].timestamp, Metadata[i])

-----------------------------------------------------------------------------
(* Postgres begins, fails and finishes queries and transactions.           *)

StartQuery ==
    /\ query = "none"
    /\ query' = "executing"
    /\ UNCHANGED <<timestamp, nodeVars, created, iter, runningIterators, timing,
                   abandoned>>

\* An error in another node of the plan, or an interrupt.
QueryFails ==
    /\ query \in {"executing", "ending"}
    /\ query' = "failed"
    /\ UNCHANGED <<timestamp, nodeVars, created, iter, runningIterators, timing,
                   abandoned>>

FinishQuery ==
    /\ query \in {"executing", "ending"}
    /\ \A n \in Nodes : phase[n] \in {"out", "ended"}
    /\ query' = "none"
    /\ phase' = [n \in Nodes |-> "out"]
    /\ UNCHANGED <<timestamp, fdwState, sess, created, iter, runningIterators, timing,
                   abandoned>>

NewTransaction ==
    /\ query \in {"none", "rolledBack"}
    /\ timestamp < MaxTimestamp
    /\ timestamp' = timestamp + 1
    /\ query' = "none"
    /\ UNCHANGED <<nodeVars, created, iter, runningIterators, timing, abandoned>>

\* Postgres discards the plan state of a failed query; the exec states stay in sess.
DiscardPlan ==
    /\ phase' = [n \in Nodes |-> "out"]
    /\ fdwState' = [n \in Nodes |-> 0]
    /\ UNCHANGED sess

\* The query failed inside a subtransaction: pgfdw_xact_callback is not called for it.
AbortSubtransaction ==
    /\ query = "failed"
    /\ query' = "none"
    /\ DiscardPlan
    /\ abandoned' = abandoned \cup ({fdwState[n] : n \in Nodes} \ {0})
    /\ UNCHANGED <<timestamp, created, iter, runningIterators, timing>>

-----------------------------------------------------------------------------
(* BeginForeignScan, IterateForeignScan and ReScanForeignScan.             *)

\* GetIterator creates an iterator, SaveExecState puts it within the node's reach.
CreateIterator(n) ==
    /\ created < MaxIterators
    /\ created' = created + 1
    /\ iter' = Append(iter, NewIterator)
    /\ fdwState' = [fdwState EXCEPT ![n] = created']
    /\ sess' = sess \cup {created'}

BeginForeignScan(n) ==
    /\ query = "executing"
    /\ phase[n] = "out"
    /\ phase' = [phase EXCEPT ![n] = "begun"]
    /\ CreateIterator(n)
    /\ UNCHANGED <<query, timestamp, runningIterators, timing, abandoned>>

\* ReScan begins again and forgets the exec state and the iterator the node had.
ReScanForeignScan(n) ==
    /\ query = "executing"
    /\ phase[n] \in {"begun", "done"}
    /\ phase' = [phase EXCEPT ![n] = "begun"]
    /\ abandoned' = abandoned \cup {fdwState[n]}
    /\ CreateIterator(n)
    /\ UNCHANGED <<query, timestamp, runningIterators, timing>>

\* A node that Postgres may ask for a row, and its iterator.
Iterating(n, i) ==
    /\ query = "executing"
    /\ phase[n] = "begun"
    /\ i = fdwState[n]

\* Start fails: StartScan ignores it, adds the iterator, and Next cannot iterate.
IterateStartFails(n) ==
    \E i \in 1..created :
        /\ Iterating(n, i)
        /\ iter[i].status = "Ready"
        /\ AddIteratorIfReady(i)
        /\ query' = "failed"
        /\ UNCHANGED <<timestamp, nodeVars, created, iter, timing, abandoned>>

\* Mutant: StartScan leaves the iterator out of runningIterators.
IterateRowUnlisted(n) ==
    \E i \in 1..created :
        /\ Iterating(n, i)
        /\ Started(i).status = "Started"
        /\ iter' = [iter EXCEPT ![i] = Started(i)]
        /\ UNCHANGED <<query, timestamp, nodeVars, created, runningIterators, timing,
                       abandoned>>

IterateRow(n) ==
    \E i \in 1..created :
        /\ Iterating(n, i)
        /\ Started(i).status = "Started"
        /\ iter' = [iter EXCEPT ![i] = Started(i)]
        /\ AddIteratorIfReady(i)
        /\ UNCHANGED <<query, timestamp, nodeVars, created, timing, abandoned>>

\* Next finds the channel closed: it closes the iterator and removes itself from the
\* hub, but the hub's key is the enclosing scanIterator and the call removes nothing.
\* Next may also see the Error status of a reader that has not set err yet.
IterateEnd(n) ==
    \E i \in 1..created :
        /\ Iterating(n, i)
        /\ iter' = [iter EXCEPT ![i] =
               IF iter[i].status = "Error" THEN Counted(@)
               ELSE [Counted(Closed(Started(i))) EXCEPT !.reader = "over"]]
        /\ AddScanMetadataOf(i)
        /\ AddIteratorIfReady(i)
        /\ phase' = [phase EXCEPT ![n] = "done"]
        /\ UNCHANGED <<query, timestamp, fdwState, sess, created, abandoned>>

\* The stream fails, or a row cannot be decoded while the reader goes on.
IterateError(n) ==
    \E i \in 1..created, r \in {"active", "over"} :
        /\ Iterating(n, i)
        /\ iter[i].reader = "over" => r = "over"
        /\ iter' = [iter EXCEPT ![i] =
                       [Started(i) EXCEPT !.status = "Error", !.reader = r]]
        /\ AddIteratorIfReady(i)
        /\ query' = "failed"
        /\ UNCHANGED <<timestamp, nodeVars, created, timing, abandoned>>

\* The plugin's stream ends or fails while the backend is elsewhere.
ReaderFinishes(i) ==
    /\ iter[i].reader = "active"
    /\ \E s \in {iter[i].status, "Error"} :
           iter' = [iter EXCEPT ![i].reader = "over", ![i].status = s]
    /\ UNCHANGED <<query, timestamp, nodeVars, created, runningIterators, timing,
                   abandoned>>

-----------------------------------------------------------------------------
(* ExplainForeignScan, EndForeignScan and the abort callback.              *)

\* Mutant: the node keeps the fdw_state that was freed.
ExplainKeepsState(n) ==
    /\ query \in {"executing", "ending"}
    /\ phase[n] \in {"begun", "done"}
    /\ query' = "ending"
    /\ phase' = [phase EXCEPT ![n] = "explained"]
    /\ sess' = sess \ {fdwState[n]}
    /\ abandoned' = abandoned \cup {fdwState[n]}
    /\ UNCHANGED <<timestamp, fdwState, created, iter, runningIterators, timing>>

\* EXPLAIN ANALYZE: the exec state is cleared, so End will not find the iterator.
ExplainForeignScan(n) ==
    /\ query \in {"executing", "ending"}
    /\ phase[n] \in {"begun", "done"}
    /\ query' = "ending"
    /\ phase' = [phase EXCEPT ![n] = "explained"]
    /\ sess' = sess \ {fdwState[n]}
    /\ fdwState' = [fdwState EXCEPT ![n] = 0]
    /\ abandoned' = abandoned \cup {fdwState[n]}
    /\ UNCHANGED <<timestamp, created, iter, runningIterators, timing>>

\* Mutants: the metadata of a complete scan is added again; the iterator stays listed.
EndScanCountsAgain(i) ==
    /\ AddScanMetadataOf(i)
    /\ iter' = [iter EXCEPT ![i] =
                   IF @.status = "Started" THEN Closed(Counted(@)) ELSE Counted(@)]
    /\ RemoveIterator(i)

EndScanLeavesListed(i) ==
    /\ IF iter[i].status = "Started"
       THEN /\ AddScanMetadataOf(i)
            /\ iter' = [iter EXCEPT ![i] = Closed(Counted(@))]
       ELSE UNCHANGED <<timing, iter>>
    /\ UNCHANGED runningIterators

EndScan(i) ==
    /\ IF iter[i].status = "Started"
       THEN /\ AddScanMetadataOf(i)
            /\ iter' = [iter EXCEPT ![i] = Closed(Counted(@))]
       ELSE UNCHANGED <<timing, iter>>
    /\ RemoveIterator(i)

EndForeignScan(n) ==
    /\ query \in {"executing", "ending"}
    /\ phase[n] \in {"begun", "done", "explained"}
    /\ query' = "ending"
    /\ phase' = [phase EXCEPT ![n] = "ended"]
    /\ IF fdwState[n] = 0
       THEN UNCHANGED <<iter, runningIterators, timing>>
       ELSE EndScan(fdwState[n])
    /\ sess' = sess \ {fdwState[n]}
    /\ fdwState' = [fdwState EXCEPT ![n] = 0]
    /\ UNCHANGED <<timestamp, created, abandoned>>

\* Abort's loop over some of runningIterators, in the order the map gives them.
AddScansInOrder(order) ==
    LET after[k \in 0..Len(order)] ==
            IF k = 0 THEN timing
            ELSE AddScan(after[k - 1], iter[order[k]].timestamp, Metadata[order[k]])
    IN  after[Len(order)]

Aborted(it) == [Counted(it) EXCEPT !.aborts = @ + 1]

Unstarted == {i \in runningIterators : iter[i].cancel = "nil"}

\* Mutant: only the iterators that are still Started are closed.
AbortAllStarted ==
    /\ Unstarted = {}
    /\ \E order \in SetToSeqs(runningIterators) : timing' = AddScansInOrder(order)
    /\ iter' = [i \in 1..created |->
                   IF i \notin runningIterators THEN iter[i]
                   ELSE IF iter[i].status = "Started" THEN Closed(Aborted(iter[i]))
                   ELSE Aborted(iter[i])]
    /\ runningIterators' = {}

AbortAll ==
    /\ Unstarted = {}
    /\ \E order \in SetToSeqs(runningIterators) : timing' = AddScansInOrder(order)
    /\ iter' = [i \in 1..created |->
                   IF i \in runningIterators THEN Closed(Aborted(iter[i])) ELSE iter[i]]
    /\ runningIterators' = {}

\* The cancel function of an iterator that never started is nil: the loop panics at
\* the first one it meets, and the map is not cleared.
AbortPanics ==
    \E bad \in Unstarted, before \in SUBSET (runningIterators \ Unstarted) :
        /\ \E order \in SetToSeqs(before) :
               timing' = AddScansInOrder(Append(order, bad))
        /\ iter' = [i \in 1..created |->
                       IF i \in before THEN Closed(Aborted(iter[i]))
                       ELSE IF i = bad THEN Aborted(iter[i]) ELSE iter[i]]
        /\ UNCHANGED runningIterators

AbortTransaction ==
    /\ query \in {"none", "failed"}
    /\ query' = "rolledBack"
    /\ DiscardPlan
    /\ AbortAll \/ AbortPanics
    /\ UNCHANGED <<timestamp, created, abandoned>>

-----------------------------------------------------------------------------
(* The command tables: a query of its own that reads and clears the store. *)

ReadSummary ==
    /\ query = "none"
    /\ IF Readable(timing.queryRowSummary)
       THEN query' = query /\ timing' = ClearSummary(timing)
       ELSE query' = "failed" /\ timing' = timing
    /\ UNCHANGED <<timestamp, nodeVars, created, iter, runningIterators, abandoned>>

ReadScanMetadata ==
    /\ query = "none"
    /\ IF Readable(timing.scanMetadata)
       THEN query' = query /\ timing' = ClearScanMetadata(timing)
       ELSE query' = "failed" /\ timing' = timing
    /\ UNCHANGED <<timestamp, nodeVars, created, iter, runningIterators, abandoned>>

Next ==
    \/ StartQuery \/ QueryFails \/ FinishQuery \/ NewTransaction
    \/ AbortSubtransaction \/ AbortTransaction
    \/ ReadSummary \/ ReadScanMetadata
    \/ \E n \in Nodes :
          \/ BeginForeignScan(n) \/ ReScanForeignScan(n)
          \/ IterateStartFails(n) \/ IterateRow(n) \/ IterateEnd(n) \/ IterateError(n)
          \/ ExplainForeignScan(n) \/ EndForeignScan(n)
    \/ \E i \in 1..created : ReaderFinishes(i)

Spec == Init /\ [][Next]_vars

-----------------------------------------------------------------------------
(* Properties.                                                             *)

\* A node's fdw_state leads to a saved exec state: IterateForeignScan never
\* dereferences the nil that GetExecState returns for a token it does not know.
ExecStateResolves == \A n \in Nodes : fdwState[n] # 0 => fdwState[n] \in sess

\* The reader of a scan nobody cancelled can be reached by Abort.
ReachableByAbort ==
    \A i \in 1..created :
        iter[i].reader = "active" /\ iter[i].cancel = "live" => i \in runningIterators

\* After a transaction is rolled back no reader goes on uncancelled, whichever nodes,
\* rescans, explains and subtransactions started it, unless the abort met an iterator
\* that never started.
NoScanOutlivesAbort ==
    query = "rolledBack" /\ Unstarted = {} =>
        \A i \in 1..created : iter[i].reader = "active" => iter[i].cancel = "cancelled"

\* Between queries the hub lists no iterator but those whose exec state ReScan, Explain
\* or the abort of a subtransaction dropped, as long as no start ever failed.
LeaksOnlyWhenAbandoned ==
    query = "none" /\ Unstarted = {} => runningIterators \subseteq abandoned

\* The end of a scan is counted once: EndScan does not add the metadata of a scan that
\* IterateForeignScan saw the end of.  Aborts may add it again.
CountedOnce == \A i \in 1..created : iter[i].adds <= 1 + iter[i].aborts

\* The scan_metadata table holds the scans of one query.
ScansOfOneQuery == Readable(timing.scanMetadata)

\* Its list for a query is the slowest MaxMetadata of all the scans the hub added for
\* it, slowest first, however ties and arrivals interleave (addScanMetadata).
KeepsSlowest ==
    \A t \in DOMAIN timing.scanMetadata :
        LET all == SlowestFirst(timing.offered[t])
            n   == IF Len(all) < MaxMetadata THEN Len(all) ELSE MaxMetadata
        IN  timing.scanMetadata[t] = SubSeq(all, 1, n)

\* After an abort, the metadata of the store is that of the transaction rolled back, if
\* a scan of it was running and no scan of an earlier one was left behind.
AbortKeepsItsMetadata ==
    [][ /\ query' = "rolledBack"
        /\ runningIterators # {}
        /\ \A i \in runningIterators : iter[i].timestamp = timestamp
        => DOMAIN timing'.scanMetadata = {timestamp} ]_vars

\* CHANGELOG.md:170: do not add an iterator to Hub.runningIterators until scan is
\* started successfully.
FailedStartNotRunning == Unstarted = {}

\* hub_base.go:342: we expect to only have metadata for one query at a time - this is
\* enforced by the metadata writing code.
SummaryOfOneQuery == Readable(timing.queryRowSummary)

=============================================================================
