---------------------------- MODULE ScanIterator ----------------------------
(***************************************************************************)
(* One scan of one foreign table: hub/scan_iterator_base.go.               *)
(*                                                                         *)
(* Three threads share an iterator.                                        *)
(*   backend  the Postgres backend.  It is in C or in exactly one of the   *)
(*            FDW callbacks: IterateForeignScan (which starts the scan and *)
(*            calls Next), EndForeignScan, or the abort callback.          *)
(*   reader   the goroutine readThread.  It moves rows from the plugin     *)
(*            stream into the buffered channel rows.                       *)
(*   recv     the goroutine readPluginResult spawns for each Recv call.    *)
(* They share status, err, rows, scanMetadata and the context without a    *)
(* lock, so each access is a step of its own where the order can be seen.  *)
(*                                                                         *)
(* The plugin is external: it sends rows (a row is its position in the     *)
(* stream), each on behalf of one of the Connections of an aggregator, and *)
(* then ends the stream, fails, or hangs.                                  *)
(***************************************************************************)
EXTENDS Naturals, Sequences

CONSTANTS
    Connections,    \* the connections an aggregator scans
    Capacity,       \* rowBufferSize, hub_remote.go:28
    MaxRows         \* bound on the rows the plugin sends

ASSUME ScanAssumption == /\ Capacity \in Nat \ {0}
                         /\ MaxRows \in Nat
                         /\ Connections # {}

VARIABLES
    status,         \* iterator.status
    err,            \* iterator.err # nil
    rows,           \* iterator.rows: the buffered channel
    rowsClosed,     \* close(i.rows) has been called
    scanMetadata,   \* connection -> the row its entry was written for, 0: none
    ctx,            \* "nil" until Start succeeds, then "live", then "cancelled"
    reader,         \* where readThread is
    rowResult,      \* the row readThread holds
    recv,           \* what the receive goroutine is doing or offering
    offered,        \* the row it offers
    sent,           \* the connections of the rows the plugin has sent, in order
    ending,         \* how the plugin ended the stream
    backend,        \* where the backend thread is
    op,             \* the FDW callback it is in
    running,        \* StartScan has put the iterator in hub.runningIterators
    interrupt,      \* the user has asked Postgres to cancel the query
    delivered,      \* the rows Postgres has received, in order
    result          \* what the last call to IterateForeignScan gave Postgres

iterVars   == <<status, err, scanMetadata>>
readerVars == <<reader, rowResult>>
pluginVars == <<recv, offered, sent, ending>>
pgVars     == <<backend, op, running, interrupt, delivered, result>>
vars == <<iterVars, rows, rowsClosed, ctx, readerVars, pluginVars, pgVars>>

Row == 1..MaxRows

TypeOK ==
    /\ status \in {"Ready", "Started", "Error", "Complete"}
    /\ err \in BOOLEAN
    /\ rows \in Seq(Row)
    /\ Len(rows) <= Capacity
    /\ rowsClosed \in BOOLEAN
    /\ scanMetadata \in [Connections -> 0..MaxRows]
    /\ ctx \in {"nil", "live", "cancelled"}
    /\ reader \in {"none", "start", "recv", "select", "metadata", "send",
                   "setStatus", "setErr", "close", "done"}
    /\ rowResult \in 0..MaxRows
    /\ recv \in {"none", "waiting", "row", "nil", "eof", "error"}
    /\ offered \in 0..MaxRows
    /\ sent \in Seq(Connections)
    /\ Len(sent) <= MaxRows
    /\ ending \in {"open", "nil", "eof", "error"}
    /\ backend \in {"idle", "status", "iterate", "receive", "cancel", "check",
                    "complete", "verdict", "addMetadata", "finished"}
    /\ op \in {"none", "next", "end", "abort"}
    /\ running \in BOOLEAN
    /\ interrupt \in BOOLEAN
    /\ delivered \in Seq(Row)
    /\ result \in {"none", "row", "end", "error", "panic"}

Init ==
    /\ status = "Ready"
    /\ err = FALSE
    /\ rows = <<>>
    /\ rowsClosed = FALSE
    /\ scanMetadata = [c \in Connections |-> 0]
    /\ ctx = "nil"
    /\ reader = "none"
    /\ rowResult = 0
    /\ recv = "none"
    /\ offered = 0
    /\ sent = <<>>
    /\ ending = "open"
    /\ backend = "idle"
    /\ op = "none"
    /\ running = FALSE
    /\ interrupt = FALSE
    /\ delivered = <<>>
    /\ result = "none"

-----------------------------------------------------------------------------
(* The plugin and the goroutine that receives from it.                     *)

\* Recv returns a row: the goroutine offers it on the unbuffered rcvChan.
RecvRow ==
    /\ recv = "waiting"
    /\ ending = "open"
    /\ Len(sent) < MaxRows
    /\ \E c \in Connections : sent' = Append(sent, c)
    /\ recv' = "row"
    /\ offered' = Len(sent')
    /\ UNCHANGED <<iterVars, rows, rowsClosed, ctx, readerVars, ending, pgVars>>

\* Recv returns nil, io.EOF or another error: the stream has ended.
RecvEnd ==
    /\ recv = "waiting"
    /\ ending = "open"
    /\ \E e \in {"nil", "eof", "error"} : recv' = e /\ ending' = e
    /\ UNCHANGED <<iterVars, rows, rowsClosed, ctx, readerVars, offered, sent,
                   pgVars>>

\* Recv returns the error of a cancelled stream context.
RecvCancelled ==
    /\ recv = "waiting"
    /\ ctx = "cancelled"
    /\ recv' = "error"
    /\ UNCHANGED <<iterVars, rows, rowsClosed, ctx, readerVars, offered, sent,
                   ending, pgVars>>

PluginAnswers == RecvRow \/ RecvEnd \/ RecvCancelled

-----------------------------------------------------------------------------
(* readThread and readPluginResult.                                        *)

\* readThread does nothing if the scan was ended before it got to run.
ReadThreadStarts ==
    /\ reader = "start"
    /\ reader' = IF status = "Started" THEN "recv" ELSE "close"
    /\ UNCHANGED <<iterVars, rows, rowsClosed, ctx, rowResult, pluginVars, pgVars>>

SpawnRecv ==
    /\ reader = "recv"
    /\ reader' = "select"
    /\ recv' = "waiting"
    /\ UNCHANGED <<iterVars, rows, rowsClosed, ctx, rowResult, offered, sent,
                   ending, pgVars>>

\* Mutant: the context is looked at only once the plugin has answered.
SelectCancelledAfterRecv ==
    /\ reader = "select"
    /\ ctx = "cancelled"
    /\ recv # "waiting"
    /\ reader' = "close"
    /\ UNCHANGED <<iterVars, rows, rowsClosed, ctx, rowResult, pluginVars, pgVars>>

\* A select takes any ready case.  Leaving it by ctx.Done() leaks the goroutine:
\* recv stays as it is and nobody takes what it offers.
SelectCancelled ==
    /\ reader = "select"
    /\ ctx = "cancelled"
    /\ reader' = "close"
    /\ UNCHANGED <<iterVars, rows, rowsClosed, ctx, rowResult, pluginVars, pgVars>>

SelectRow ==
    /\ reader = "select"
    /\ recv = "row"
    /\ reader' = "metadata"
    /\ rowResult' = offered
    /\ recv' = "none"
    /\ UNCHANGED <<iterVars, rows, rowsClosed, ctx, offered, sent, ending, pgVars>>

SelectEnd ==
    /\ reader = "select"
    /\ recv \in {"nil", "eof"}
    /\ reader' = "close"
    /\ recv' = "none"
    /\ UNCHANGED <<iterVars, rows, rowsClosed, ctx, rowResult, offered, sent,
                   ending, pgVars>>

SelectError ==
    /\ reader = "select"
    /\ recv = "error"
    /\ reader' = "setStatus"
    /\ recv' = "none"
    /\ UNCHANGED <<iterVars, rows, rowsClosed, ctx, rowResult, offered, sent,
                   ending, pgVars>>

\* Mutant: an entry that exists is not overwritten.
WriteMetadataOnce ==
    /\ reader = "metadata"
    /\ reader' = "send"
    /\ scanMetadata' = [scanMetadata EXCEPT ![sent[rowResult]] = IF @ = 0 THEN rowResult ELSE @]
    /\ UNCHANGED <<status, err, rows, rowsClosed, ctx, rowResult, pluginVars, pgVars>>

\* The entry of the row's connection is overwritten before the row is sent.
WriteMetadata ==
    /\ reader = "metadata"
    /\ reader' = "send"
    /\ scanMetadata' = [scanMetadata EXCEPT ![sent[rowResult]] = rowResult]
    /\ UNCHANGED <<status, err, rows, rowsClosed, ctx, rowResult, pluginVars, pgVars>>

\* Mutants: the send does not block, and either overfills the buffer or drops the row.
SendRowUnbounded ==
    /\ reader = "send"
    /\ rows' = Append(rows, rowResult)
    /\ reader' = "recv"
    /\ UNCHANGED <<iterVars, rowsClosed, ctx, rowResult, pluginVars, pgVars>>

SendRowOrDrop ==
    /\ reader = "send"
    /\ rows' = IF Len(rows) < Capacity THEN Append(rows, rowResult) ELSE rows
    /\ reader' = "recv"
    /\ UNCHANGED <<iterVars, rowsClosed, ctx, rowResult, pluginVars, pgVars>>

\* i.rows <- row blocks on a full buffer, whatever happens to the context.
SendRow ==
    /\ reader = "send"
    /\ Len(rows) < Capacity
    /\ rows' = Append(rows, rowResult)
    /\ reader' = "recv"
    /\ UNCHANGED <<iterVars, rowsClosed, ctx, rowResult, pluginVars, pgVars>>

\* setError, from readPluginResult: two assignments the backend may see apart.
SetErrorStatus ==
    /\ reader = "setStatus"
    /\ status' = "Error"
    /\ reader' = "setErr"
    /\ UNCHANGED <<err, scanMetadata, rows, rowsClosed, ctx, rowResult, pluginVars,
                   pgVars>>

\* Mutant: readThread returns on an error without closing rows.
SetErrorErrRowsOpen ==
    /\ reader = "setErr"
    /\ err' = TRUE
    /\ reader' = "done"
    /\ UNCHANGED <<status, scanMetadata, rows, rowsClosed, ctx, rowResult, pluginVars,
                   pgVars>>

SetErrorErr ==
    /\ reader = "setErr"
    /\ err' = TRUE
    /\ reader' = "close"
    /\ UNCHANGED <<status, scanMetadata, rows, rowsClosed, ctx, rowResult, pluginVars,
                   pgVars>>

CloseRows ==
    /\ reader = "close"
    /\ rowsClosed' = TRUE
    /\ reader' = "done"
    /\ UNCHANGED <<iterVars, rows, ctx, rowResult, pluginVars, pgVars>>

ReaderStep ==
    \/ ReadThreadStarts \/ SpawnRecv
    \/ SelectCancelled \/ SelectRow \/ SelectEnd \/ SelectError
    \/ WriteMetadata \/ SendRow
    \/ SetErrorStatus \/ SetErrorErr \/ CloseRows

-----------------------------------------------------------------------------
(* The backend: IterateForeignScan and Next.                               *)

\* Postgres asks for a row only while the scan goes on and nothing interrupts it.
PostgresMayIterate ==
    /\ backend = "idle"
    /\ op \in {"none", "next"}
    /\ result \in {"none", "row"}
    /\ ~interrupt

\* The iterator is Ready, so IterateForeignScan starts it first.
StartSucceeds ==
    /\ PostgresMayIterate
    /\ status = "Ready"
    /\ status' = "Started"
    /\ ctx' = "live"
    /\ reader' = "start"
    /\ running' = TRUE
    /\ backend' = "status"
    /\ op' = "next"
    /\ UNCHANGED <<err, scanMetadata, rows, rowsClosed, rowResult, pluginVars,
                   interrupt, delivered, result>>

\* executor.execute fails.  StartScan drops the error and the scan goes on to Next.
StartFails ==
    /\ PostgresMayIterate
    /\ status = "Ready"
    /\ running' = TRUE
    /\ backend' = "status"
    /\ op' = "next"
    /\ UNCHANGED <<iterVars, rows, rowsClosed, ctx, readerVars, pluginVars,
                   interrupt, delivered, result>>

CallNext ==
    /\ PostgresMayIterate
    /\ status # "Ready"
    /\ backend' = "status"
    /\ op' = "next"
    /\ UNCHANGED <<iterVars, rows, rowsClosed, ctx, readerVars, pluginVars, running,
                   interrupt, delivered, result>>

\* A nil row with a nil error is the end of the scan, whose metadata is added next.
Return(r) ==
    /\ result' = r
    /\ backend' = IF r = "end" THEN "addMetadata" ELSE "idle"

\* Next: an error has occurred.
NextInError ==
    /\ backend = "status"
    /\ status = "Error"
    /\ Return(IF err THEN "error" ELSE "end")
    /\ UNCHANGED <<iterVars, rows, rowsClosed, ctx, readerVars, pluginVars, op,
                   running, interrupt, delivered>>

NextNotInError ==
    /\ backend = "status"
    /\ status # "Error"
    /\ backend' = "iterate"
    /\ UNCHANGED <<iterVars, rows, rowsClosed, ctx, readerVars, pluginVars, op,
                   running, interrupt, delivered, result>>

\* CanIterate reads status a second time.
NextCannotIterate ==
    /\ backend = "iterate"
    /\ status # "Started"
    /\ Return("error")
    /\ UNCHANGED <<iterVars, rows, rowsClosed, ctx, readerVars, pluginVars, op,
                   running, interrupt, delivered>>

NextCanIterate ==
    /\ backend = "iterate"
    /\ status = "Started"
    /\ backend' = "receive"
    /\ UNCHANGED <<iterVars, rows, rowsClosed, ctx, readerVars, pluginVars, op,
                   running, interrupt, delivered, result>>

NextRow ==
    /\ backend = "receive"
    /\ rows # <<>>
    /\ rows' = Tail(rows)
    /\ delivered' = Append(delivered, Head(rows))
    /\ Return("row")
    /\ UNCHANGED <<iterVars, rowsClosed, ctx, readerVars, pluginVars, op, running,
                   interrupt>>

\* Mutant: the row is skipped and the scan goes on.
NextBadRowSkipped ==
    /\ backend = "receive"
    /\ rows # <<>>
    /\ rows' = Tail(rows)
    /\ Return("row")
    /\ UNCHANGED <<iterVars, rowsClosed, ctx, readerVars, pluginVars, op, running,
                   interrupt, delivered>>

\* populateRow finds a JSON value it cannot decode.
NextBadRow ==
    /\ backend = "receive"
    /\ rows # <<>>
    /\ rows' = Tail(rows)
    /\ status' = "Error"
    /\ err' = TRUE
    /\ Return("error")
    /\ UNCHANGED <<scanMetadata, rowsClosed, ctx, readerVars, pluginVars, op, running,
                   interrupt, delivered>>

\* Mutant: an empty buffer is taken for the end of the stream.
NextNoMoreRowsYet ==
    /\ backend = "receive"
    /\ rows = <<>>
    /\ backend' = "cancel"
    /\ UNCHANGED <<iterVars, rows, rowsClosed, ctx, readerVars, pluginVars, op,
                   running, interrupt, delivered, result>>

\* The channel is closed and drained: Next closes the iterator.
NextNoMoreRows ==
    /\ backend = "receive"
    /\ rows = <<>>
    /\ rowsClosed
    /\ backend' = "cancel"
    /\ UNCHANGED <<iterVars, rows, rowsClosed, ctx, readerVars, pluginVars, op,
                   running, interrupt, delivered, result>>

\* Mutant: the context Close has just cancelled is reported as an error.
NextVerdictCancelled ==
    /\ backend = "verdict"
    /\ Return(IF ctx = "cancelled" THEN "error" ELSE "end")
    /\ UNCHANGED <<iterVars, rows, rowsClosed, ctx, readerVars, pluginVars, op,
                   running, interrupt, delivered>>

\* After Close, Next looks at status again.
NextVerdict ==
    /\ backend = "verdict"
    /\ Return(IF status = "Error" /\ err THEN "error" ELSE "end")
    /\ UNCHANGED <<iterVars, rows, rowsClosed, ctx, readerVars, pluginVars, op,
                   running, interrupt, delivered>>

-----------------------------------------------------------------------------
(* Close: cancel the context, then read and write status.                  *)

AfterClose == IF op = "next" THEN "verdict" ELSE "finished"

\* Start never succeeded: i.cancel is nil and the call panics.
CloseNilCancel ==
    /\ backend = "cancel"
    /\ ctx = "nil"
    /\ backend' = "finished"
    /\ result' = "panic"
    /\ UNCHANGED <<iterVars, rows, rowsClosed, ctx, readerVars, pluginVars, op,
                   running, interrupt, delivered>>

CloseCancel ==
    /\ backend = "cancel"
    /\ ctx # "nil"
    /\ ctx' = "cancelled"
    /\ backend' = "check"
    /\ UNCHANGED <<iterVars, rows, rowsClosed, readerVars, pluginVars, op, running,
                   interrupt, delivered, result>>

\* Mutant: Close marks every scan complete, failed ones too.
CloseCheckAlways ==
    /\ backend = "check"
    /\ backend' = "complete"
    /\ UNCHANGED <<iterVars, rows, rowsClosed, ctx, readerVars, pluginVars, op,
                   running, interrupt, delivered, result>>

CloseCheck ==
    /\ backend = "check"
    /\ backend' = IF status = "Error" THEN AfterClose ELSE "complete"
    /\ UNCHANGED <<iterVars, rows, rowsClosed, ctx, readerVars, pluginVars, op,
                   running, interrupt, delivered, result>>

CloseComplete ==
    /\ backend = "complete"
    /\ status' = "Complete"
    /\ backend' = AfterClose
    /\ UNCHANGED <<err, scanMetadata, rows, rowsClosed, ctx, readerVars, pluginVars,
                   op, running, interrupt, delivered, result>>

-----------------------------------------------------------------------------
(* The backend: EndForeignScan, the abort callback, and AddScanMetadata.   *)

\* EndScan: only a scan that is still Started has its metadata read and is closed.
EndScan ==
    /\ backend = "idle"
    /\ op \in {"none", "next"}
    /\ result # "error"
    /\ op' = "end"
    /\ running' = FALSE
    /\ backend' = IF status = "Started" THEN "addMetadata" ELSE "finished"
    /\ UNCHANGED <<iterVars, rows, rowsClosed, ctx, readerVars, pluginVars,
                   interrupt, delivered, result>>

\* Abort: after an error here, an interrupt, or an error elsewhere in the query.
Abort ==
    /\ backend = "idle"
    /\ op \in {"none", "next"}
    /\ op' = "abort"
    /\ running' = FALSE
    /\ backend' = IF running THEN "addMetadata" ELSE "finished"
    /\ UNCHANGED <<iterVars, rows, rowsClosed, ctx, readerVars, pluginVars,
                   interrupt, delivered, result>>

\* AddScanMetadata reads the map scanMetadata.
ReadMetadata ==
    /\ backend = "addMetadata"
    /\ backend' = IF op = "next" THEN "idle" ELSE "cancel"
    /\ UNCHANGED <<iterVars, rows, rowsClosed, ctx, readerVars, pluginVars, op,
                   running, interrupt, delivered, result>>

BackendStep ==
    \/ NextInError \/ NextNotInError \/ NextCannotIterate \/ NextCanIterate
    \/ NextRow \/ NextBadRow \/ NextNoMoreRows \/ NextVerdict
    \/ CloseNilCancel \/ CloseCancel \/ CloseCheck \/ CloseComplete
    \/ ReadMetadata

\* The user's cancel request only sets a flag in Postgres: the backend looks at it
\* when it is not inside a callback.
Interrupt ==
    /\ op \in {"none", "next"}
    /\ ~interrupt
    /\ interrupt' = TRUE
    /\ UNCHANGED <<iterVars, rows, rowsClosed, ctx, readerVars, pluginVars, backend,
                   op, running, delivered, result>>

PostgresStep ==
    StartSucceeds \/ StartFails \/ CallNext \/ EndScan \/ Abort \/ Interrupt

Finished == backend = "finished" /\ UNCHANGED vars

Next == PluginAnswers \/ ReaderStep \/ BackendStep \/ PostgresStep \/ Finished

Spec == Init /\ [][Next]_vars

\* Go schedules its goroutines and the backend runs the callback it is in; once
\* interrupted, Postgres aborts as soon as it has control.
FairSpec == /\ Spec
            /\ WF_vars(ReaderStep)
            /\ WF_vars(BackendStep)
            /\ WF_vars(interrupt /\ Abort)

-----------------------------------------------------------------------------
(* Properties.                                                             *)

\* How the scan ended, as Postgres sees it.
Verdict == IF result = "end" THEN "end"
           ELSE IF result \in {"error", "panic"} THEN "error"
           ELSE IF op \in {"end", "abort"} THEN "stopped" ELSE "none"

Promise == INSTANCE ScanResult WITH verdict <- Verdict

\* The goroutines, the buffer and the context implement the promise of a scan: rows
\* in order, then at most one verdict, and each verdict for a reason.
ImplementsScanResult == Promise!Spec

\* Postgres gets the rows of the stream from the first one on, in order, none twice
\* and none left out, whatever the goroutines and the buffer do.
DeliveredIsPrefix == \A i \in 1..Len(delivered) : delivered[i] = i

\* The end of the scan is reported only after every row of a stream that ended
\* normally, or on a stream that failed.
EndMeansExhausted ==
    result = "end" => \/ ending = "error"
                      \/ ending \in {"nil", "eof"} /\ Len(delivered) = Len(sent)

\* A Next that runs into the closed channel reports the error of a failed stream:
\* setError happens before close(rows), and Close keeps the Error status.
ClosedChannelReportsError ==
    [][ backend = "verdict" /\ backend' # "verdict" /\ ending = "error"
            => result' = "error" ]_vars

\* The metadata the hub would read now accounts for every row Postgres already has:
\* readPluginResult updates the entry of a connection before it sends the row.
MetadataCoversDelivered ==
    \A i \in 1..Len(delivered) : scanMetadata[sent[delivered[i]]] >= delivered[i]

\* The backend reads the map while the reader may be writing it only when it ends the
\* scan early; the read at the end of the scan is alone.
MetadataReadAloneAtEnd ==
    backend = "addMetadata" /\ op = "next" => reader \notin {"select", "metadata", "send"}

\* Every error Next reports has a cause in the plugin, a row or the start of the scan;
\* the reader and the backend do not make one up between them.
ErrorHasCause ==
    result = "error" => \/ ending = "error"
                        \/ ctx = "nil"
                        \/ status = "Error" /\ err /\ Len(delivered) < Len(sent)

\* After Close the reader stops, or sits on a full buffer, even if the plugin hangs:
\* the receive goroutine keeps Recv from blocking the reader.
ReaderStopsOrIsBlocked ==
    ctx = "cancelled" ~> (reader = "done" \/ (reader = "send" /\ Len(rows) = Capacity))

\* readThread (259-262) reads until there is a signal on the cancel channel: then it
\* stops.
ReaderStops == ctx = "cancelled" ~> reader = "done"

\* The plugin answers every Recv sooner or later.
PluginKeepsAnswering == WF_vars(PluginAnswers)

\* A callback Postgres has entered returns, if the plugin keeps answering: the reader
\* closes rows on every way out, so Next never waits on a channel nobody serves.
CallReturns ==
    PluginKeepsAnswering =>
        (backend \notin {"idle", "finished"} ~> backend \in {"idle", "finished"})

\* A query the user cancels is aborted, if the plugin keeps answering. Without that it
\* need not be: the goroutine of readPluginResult (281) is there to ensure cancellation
\* is possible in case of a plugin hang, but the backend waits for rows in Next.
CancellationIfAnswering == PluginKeepsAnswering => (interrupt ~> backend = "finished")

\* Next (76): a nil row means there are no more rows to scan.
NilRowMeansNoMoreRows ==
    result = "end" => ending # "error"

=============================================================================
