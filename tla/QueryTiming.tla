----------------------------- MODULE QueryTiming -----------------------------
(***************************************************************************)
(* The timing store of the hub, hub/query_timing_metadata.go, and the      *)
(* command tables that read it, hub/hub_base.go (executeCommandScan).      *)
(*                                                                         *)
(* A query is known by its timestamp, the start of its transaction.  The   *)
(* store is a record of two maps from timestamps: scanMetadata, to the     *)
(* durations of the slowest scans, and queryRowSummary, to the number of   *)
(* scans totalled.  A metadata row is abstracted to its duration, on which *)
(* alone the store decides.  A third map, offered, is not in the code: it  *)
(* remembers every row given to a list of scanMetadata.  A loop is a       *)
(* recursive function from the number of turns to the store after them.    *)
(***************************************************************************)
EXTENDS Naturals, Sequences, FiniteSets

CONSTANT MaxMetadata    \* scanMetadataBufferSize

ASSUME TimingAssumption == MaxMetadata \in Nat \ {0}

EmptyTiming ==
    [scanMetadata |-> <<>>, queryRowSummary |-> <<>>, offered |-> <<>>]

\* The value of a map at a key, or the value the code starts from.
At(map, key, default) == IF key \in DOMAIN map THEN map[key] ELSE default

\* Assignment to a key of a map.
Put(map, key, value) ==
    [k \in DOMAIN map \cup {key} |-> IF k = key THEN value ELSE map[k]]

\* The rows that come before row i when slower rows come first.
Preceding(list, i) ==
    {j \in 1..Len(list) : list[j] > list[i] \/ (list[j] = list[i] /\ j < i)}

\* sort.Slice by decreasing duration; it may swap rows of one duration.
SlowestFirst(list) ==
    [k \in 1..Len(list) |->
        list[CHOOSE i \in 1..Len(list) : Cardinality(Preceding(list, i)) = k - 1]]

\* Mutants: the list is never trimmed; the newest rows are kept, not the slowest.
KeepAll(list, duration) == SlowestFirst(Append(list, duration))

KeepNewest(list, duration) ==
    SubSeq(<<duration>> \o list, 1,
           IF Len(list) < MaxMetadata THEN Len(list) + 1 ELSE MaxMetadata)

\* addScanMetadata: a full list drops what is faster than its slowest MaxMetadata.
Keep(list, duration) ==
    IF Len(list) = MaxMetadata /\ duration < list[MaxMetadata]
    THEN list
    ELSE LET sorted == SlowestFirst(Append(list, duration))
         IN  IF Len(list) < MaxMetadata THEN sorted ELSE SubSeq(sorted, 1, MaxMetadata)

AddScanMetadata(timing, timestamp, duration) ==
    LET list == At(timing.scanMetadata, timestamp, <<>>)
        all  == At(timing.offered, timestamp, <<>>)
    IN  [timing EXCEPT
           !.scanMetadata = Put(@, timestamp, Keep(list, duration)),
           !.offered = Put(@, timestamp, SlowestFirst(Append(all, duration)))]

\* The loop over the rows of a scan.
AddRows(timing, timestamp, durations) ==
    LET after[k \in 0..Len(durations)] ==
            IF k = 0 THEN timing
            ELSE AddScanMetadata(after[k - 1], timestamp, durations[k])
    IN  after[Len(durations)]

\* Mutant: what an earlier query left is kept.
RemoveNothing(timing, timestamp) == timing

\* removeStaleScanMetadata: the summaries it deletes are those of the timestamps it
\* finds in scanMetadata.
RemoveStaleScanMetadata(timing, timestamp) ==
    LET stale == DOMAIN timing.scanMetadata \ {timestamp}
        Without(map) == [t \in DOMAIN map \ stale |-> map[t]]
    IN  [scanMetadata    |-> Without(timing.scanMetadata),
         queryRowSummary |-> Without(timing.queryRowSummary),
         offered         |-> Without(timing.offered)]

\* hubBase.AddScanMetadata: the rows of one scan, one per connection.
AddScan(timing, timestamp, durations) ==
    LET count == At(timing.queryRowSummary, timestamp, 0) + Len(durations)
        fresh == RemoveStaleScanMetadata(timing, timestamp)
    IN  [AddRows(fresh, timestamp, durations) EXCEPT
           !.queryRowSummary = Put(@, timestamp, count)]

ClearSummary(timing) == [timing EXCEPT !.queryRowSummary = <<>>]

ClearScanMetadata(timing) == [timing EXCEPT !.scanMetadata = <<>>, !.offered = <<>>]

\* A command table can be read while the store holds one query at most.
Readable(map) == Cardinality(DOMAIN map) <= 1

=============================================================================
