# A TLA+ model of the Steampipe Postgres FDW

The FDW lets a Postgres backend query Steampipe plugins as foreign tables. A
backend process loads one C library (`fdw/*.c`), which calls Go (`*.go`), which
keeps one *hub* (`hub/`) that talks gRPC to plugin processes. This directory
models the parts of it in which order, sharing or history decide what happens,
checks them with TLC and proves the central properties with TLAPS.

    tlc -workers 2 -config scan_safety.cfg MCScanIterator.tla
    tlapm ScanIteratorProofs.tla

## 1. The system

| Part | Code | State it keeps | Operations |
|---|---|---|---|
| Scan iterator | `hub/scan_iterator_base.go`, `hub/scan_iterator.go` | `status`, `err`, the buffered channel `rows`, `scanMetadata`, the stream's context | `Start`, `Next`, `Close`, `GetScanMetadata`; the goroutines `readThread` and the receiver inside `readPluginResult` |
| FDW scan callbacks | `fdw.go`, `exec.go`, `fdw/fdw.c` | `fdw_state` of each node, the map `sess` of exec states | Begin, Iterate, ReScan, Explain, EndForeignScan; the transaction callback |
| Hub scan lifecycle | `hub/hub_base.go` | `runningIterators` | `StartScan`, `EndScan`, `AddScanMetadata`, `Abort`, `RemoveIterator`, the command tables |
| Query timing store | `hub/query_timing_metadata.go` | `scanMetadata` and `queryRowSummary` by query timestamp | add, remove stale, clear |
| Connection factory | `hub/connection_factory.go`, `hub/hub_remote.go` | the plugin clients by plugin and connection, `GlobalConfig` | `get`, `getOrCreate`, `createConnectionPlugin`, `add`, `getSchema`, `LoadConnectionConfig`, `getConnectionPlugin` |
| In-memory iterator | `hub/in_memory_iterator.go` | rows, index, status | `Next`, `Close` |
| Local hub | `hub/hub_local.go`, `hub/scan_iterator_local.go` | `connections` | `SetConnectionConfig`, `UpdateConnectionConfig`, `ProcessImportForeignSchemaOptions`, `GetSchema` |
| Cache settings | `settings/*.go`, `hub/hub_base.go`, both hubs | enabled, TTL, clear time | `Apply` and the setters, the legacy commands, `cacheEnabled`, `cacheTTL` |
| Limit and sort pushdown | `fdw/fdw.c`, `fdw/query.c`, `fdw.go`, `hub/hub_base.go`, both hubs | the plan state | `deparseLimit`, `goFdwCanSort`, `shouldPushdownLimit`, `buildConnectionLimitMap` |
| Qual translation | `quals.go`, `hub/hub_quals.go` | none | restrictions to quals |
| Path keys | `types/pathkeys.go`, `fdw/query.c` | none | key columns to paths |
| The rest | value conversion, schema to SQL, explain output, logging, build | none | sequential |

How they interact. Postgres calls one callback at a time, on the backend's only
thread. Planning asks the hub for path keys, sortable columns and sizes, which
need a plugin client from the connection factory. BeginForeignScan creates an
iterator; the first IterateForeignScan starts it, and from then on its reader
goroutine runs beside the backend and shares the iterator's fields with it, with
no lock. The hub keeps the started iterators so that the abort callback can close
them, and it keeps the timing of finished scans for the next queries to read.
Plugins are other processes: they answer late, fail, exit or hang.

What is hard about it: the unlocked fields shared by the backend and the reader;
a cancelled context, a closed channel and an error that arrive in any order; the
paths by which Postgres leaves a scan (its end, LIMIT, ReScan, EXPLAIN ANALYZE,
an error, a subtransaction, an interrupt), each with its own bookkeeping; a hub
that outlives queries, transactions, plugins and configuration files.

What makes each part correct. *Scan iterator*: rows in order, none lost, a
verdict with its cause, nothing left waiting. *Scan lifecycle*: whatever started
can be reached by an abort, and what is over is not listed. *Timing*: one query's
scans, the slowest of them, each counted once. *Connection factory*: the client
handed out runs, serves the connection and is the configured one. *Pushdown,
quals, path keys*: no plan changes the rows of a query. *Settings*: a setting
does what it is named for. `PROJECT.json` lists the hazards one by one, each at
its line, with the properties that watch it.

## 2. The modules

| Module | Models |
|---|---|
| `ScanIterator` | one scan: the backend, the reader, the receive goroutine, the plugin |
| `ScanResult` | what a scan promises Postgres, without any of these; `ScanIterator` implements it |
| `QueryTiming` | the timing store as operators on a record |
| `HubScans` | the callbacks of several nodes and transactions, and the hub; extends `QueryTiming` |
| `ConnectionFactory` | the plugin clients and the configuration of a remote hub |
| `Expressions` | the expressions Postgres hands over as restrictions, and three-valued logic |
| `QualTranslation` | `quals.go`: restrictions to quals; extends `Expressions` |
| `PathKeys` | `types/pathkeys.go` and `findPaths`: key columns to paths |
| `LimitPushdown` | every decision on the way of a LIMIT and an ORDER BY to the plugin |
| `ScanPlanning` | a query from planning to its rows; composes the three above |
| `HubSession` | the cache settings, the legacy commands, the local hub's configuration of connections, with time |
| `...Proofs` | the theorems about the module of that name; `OrderProofs` has what several of them need of order |
| `MC...` | constants, inputs and symmetry sets for TLC |

**ScanIterator.** `backend`, `reader` and `recv` are the program counters of the
three threads. Their values are the places between two accesses to shared data
where the order can be seen: `Next` reads `status`, reads it again in
`CanIterate`, receives, and after `Close` reads it a third time; `Close` cancels,
reads and writes; `setError` is two assignments; the reader takes a row, writes
its metadata, sends. A row is its position in the stream, so order and loss are
visible and contents are not. `scanMetadata` maps a connection to the last row it
was written for. `op` is the callback the backend is in; after `end` or `abort`
Postgres calls no more. A receive goroutine whose `select` left by the context is
leaked as in the code: `recv` stays as it is. `populateRow`'s failure on a value
it cannot decode is `NextBadRow`. Go's data races on `status` and `err` are
modelled as single reads and writes, of which every order is taken; the race on
the map, on which Go may stop the process, is not given an effect, and
`MetadataReadAloneAtEnd` says where it cannot occur. Two facts the model shows and
no property states: while a plugin hangs the query cannot be cancelled, because
the backend waits in `Next` (`scan_iterator_base.go:89`) and only Postgres's own
abort would cancel the context (`CancellationIfAnswering` has the premise for this
reason); and a reader that meets a full buffer is never woken once the scan is
over (`scan_reader_blocked`).

**HubScans.** One callback is one step, because a backend has one thread; the
iterators' readers finish beside it. Query timestamps are transaction start
times, as in `GetSQLCurrentTimestamp(0)`. `sess` is the map of `exec.go`;
`fdwState` is what the node points to. A start that fails, a reader that fails
late and an EXPLAIN ANALYZE are actions. `adds`, `aborts` and `abandoned` are
history variables of the model, as is `offered` in the timing store. An iterator
stays in `runningIterators` after the end of its rows, as in the code, because
`RemoveIterator` is given another pointer (`scan_iterator_base.go:97`). An abort
that meets an iterator without a cancel function panics in the middle of the map,
in any order. `BeginForeignScan` for a plain EXPLAIN creates no iterator and is
left out. A GetIterator that fails leaves nothing behind and is `QueryFails`. In
`QueryTiming` a metadata row is its duration, the loop over the rows of a scan a
recursive function, and `sort.Slice` the list in which each row stands at the
number of rows before it (`Preceding`).

**ConnectionFactory.** A call is one step. `disk` and `config` are the
configuration and the hub's copy. `clients` are the clients created so far, and
an exit marks every client of a plugin. What the plugin manager attaches is
external: any client of the configured plugin that serves the connection, and any
of the others that are the plugin's on disk. The changed-or-not result of
`LoadConnectionConfig`, which is the wrong way round
(`hub_remote.go:127`), is read by nobody and left out.

**ScanPlanning.** `phase` is the callback to come: GetForeignRelSize,
GetForeignPaths, GetForeignPlan, then BeginForeignScan with the conversion of one
restriction a step (`restrictionsToQuals` is a loop whose recover can leave it
half done), GetIterator with the limit of each connection, the rows, and
ReScanForeignScan with a new parameter, which begins again. `planLimit` is
`FdwPlanState.limit`, `plan` what `fdw_private` and `fdw_exprs` carry,
`unhandled` the count, `limits` the limit map.
- *`Expressions`* has the Postgres nodes as tagged records and their meaning,
  `Keeps`: whether a row passes a restriction. Values are small numbers and Null.
- *`QualTranslation`* follows `quals.go` case by case. Its operators return the
  set of possible results: where the code reads a node as the `Var` it is not,
  what it finds there is any column or none. `QualHolds` is the plugin's reading
  of a qual, external: no qual but "is null" is true of a null, "=" with a list is
  the union, any other operator with a list is met by all of its values.
- *`PathKeys`* has paths as sets of columns with their cost. `GivesKeys` states
  what a table requires without mentioning paths.
- *`LimitPushdown`* is a chain of operators, one per decision, from `atoi` to
  `buildConnectionLimitMap`; the local hub's map is this one with one connection.

External in it: the planner takes any path offered. The plugin applies the quals
on its List key columns whose operator is listed, those on its Get key columns
when every one of them has an "=", and any other set of quals it likes; sorts by
the keys it is given, nulls largest; stops at the limit of each connection; and
the rows of all connections are merged in that order. Postgres rechecks every
restriction, sorts unless the path is sorted by every key, and applies OFFSET and
LIMIT. Against this stands `RightAnswer`: the rows Postgres would return from the
whole table. Rows are places in the table; `Before` orders them by the keys, and by
place where the keys tell no difference, and `SortRows` lists a set of rows by how
many of the set come before each. The plugin's order and that of Postgres differ in
where nulls go: `PluginNulls` has only what `getSortColumns` passes on.

`AnswerIsRight` excludes the cases in which the code does give up rows or order.
Each is a definition, and each is needed: without it TLC shows the case.

| Definition | Example |
|---|---|
| `MisreadGap` | `WHERE flag IS NOT TRUE` becomes `flag <> true`, which no null meets; `a = ALL(...)` becomes `a = ANY(...)`; `NOT f(x)` reads a `FuncExpr` as a `Var` |
| `NullsGap` | `ORDER BY a NULLS FIRST LIMIT 1`: where nulls go is not passed on, the plugin sends the smallest value |
| `OffsetGap` | `LIMIT 1 OFFSET $1`: an offset that is no constant counts as none |
| `OverflowGap` | LIMIT plus OFFSET beyond an int of C: the sum wraps |
| `ShapeGap` | `SELECT a, count(*) OVER () ... LIMIT 1`; `FETCH FIRST 1 ROW WITH TIES` |
| `ExpressionGap` | `ORDER BY lower(a) LIMIT 1`: the sort list is emptied and counts as pushed down (`planning_sort_expression`) |
| `SchemaGap` | an aggregator whose connections differ in their key columns: the first one's schema decides |
| `ModeGap` | a schema mode other than static or dynamic: nothing is checked |
| `GetKeyGap` | a qual on a Get key column while the Get call is not the one used |
| `panicked` | an array with a null makes the conversion panic; the restrictions after it are not counted and the limit is sent |

**HubSession.** `settings` is `HubCacheSettings`; `connections` is
`HubLocal.connections`, `plugin` what the plugin in the process was told,
`serverConfig` the option of the foreign server. `scan` goes from its planning
(`ProcessImportForeignSchemaOptions` and `GetSchema` on a local hub) to its
request (`newExecuteRequest`) and its answer, and clock ticks, other sessions and
altered servers come between. Both hubs are in it, chosen by `kind`. Two oddities
of the code are in the model as they are: the legacy command `off` applies the
clear time (`hub_base.go:516`), so it clears and does not turn off; and the local
hub never looks at the clear time. External: the plugin's cache serves a row that
is no older than the TTL of the request; a configuration call that fails leaves
the plugin as it was, one that succeeds makes it forget its cache, and
`SetConnectionConfig` names all connections.

Postgres and plugins are external throughout and modelled from what the code
needs of them.

## 3. The runs

| Run | Bounds | Shows |
|---|---|---|
| `scan_safety` | buffer 2, 4 rows, 2 connections | order, completeness, causes of verdicts, metadata, refinement of `ScanResult` |
| `scan_liveness` | buffer 1, 3 rows, 2 connections, fair | the reader stops or sits on a full buffer; callbacks return and cancels succeed while the plugin answers |
| `hub_scans` | 2 nodes, 3 iterators, 2 transactions, lists of 2 | what is listed, reached and counted |
| `connections` | 2 connections, 2 plugins, 3 clients | the client handed out |
| `planning` | about 1600 queries, 3 columns, 5 rows, 2 connections, ints up to 3, 2 scans | quals mean their restrictions, limits and orders lose no row, paths give the keys, no plan changes an answer |
| `session` | both hubs, 2 connections, 2 configurations, TTLs 0 and 1, 4 instants of half a second | what a scan is told of the cache, what configuration it runs with |
| `scan_reader_blocked`, `scan_lost_error`, `hub_failed_start`, `timing_two_summaries`, `connections_not_stored`, `planning_sort_expression` | as above | one disagreement each between the code and what it says of itself; see "findings" in `PROJECT.json` |

Why the bounds are enough. Four rows and a buffer of two let the buffer fill, empty
and fill again with a row in the reader's hand and one on offer; two connections
let metadata be overwritten and not. For liveness a buffer of one already blocks.
Three iterators on two nodes give a rescan, an EXPLAIN and a neighbour at once, or
one iterator left from an earlier transaction beside two of the current one; lists
of two with scans that report two durations, three and two give ties and drops.
Three clients are one before an exit, one after, and one of the other plugin.

The queries of `planning` come in slices that vary together what interacts: limits,
offsets and orders; query shapes; two connections with different schemas;
restrictions, alone and in pairs, under a limit and with a parameter; key columns
of every combination of requirements with every three join clauses. The five rows
hold nulls and ties in each sortable column; ints of at most 3 make LIMIT 3 OFFSET
1 overflow; the two scans of a plan are one before and one after a rescan. In
`session` a TTL of one second is two ticks, so that half seconds are cut; four
instants are one before a clear, one at it, one after, and one at which a TTL has
run out.

Deadlock is checked in every passing run but `hub_scans`, where the bound on
iterators stops a behaviour. In `planning` a query that is over or failed stays so.

Fairness (`FairSpec`). The goroutine scheduler runs a reader that can go on
(`WF(ReaderStep)`), the backend goes on inside a callback (`WF(BackendStep)`),
and once a query is interrupted Postgres aborts it as soon as it has control
(`WF(interrupt /\ Abort)`). Nothing is assumed of the plugin, of when Postgres
asks for a row, nor of which ready case a select takes; properties that need the
plugin to answer say so (`PluginKeepsAnswering`).

Every property of a passing run has a mutant: a plausible slip in one mapped
definition with which TLC finds the property violated. Mutants stand before the
definitions they alter.

## 4. What is proved

TLAPS checks the eight proof modules from nothing, with Z3, Zenon and LS4, for every
value of the constants. Every safety invariant and action property of the passing
runs is a theorem. The named assumptions, which TLC evaluates on every run:
- `ScanAssumption`: the buffer holds at least one row, there is a connection.
- `FactoryAssumption`: `None` is no plugin.
- `TimingAssumption`, `HubAssumption`: the bounds are numbers; a scan reports one
  duration for each of its connections and has one at least, as `GetScanMetadata`
  makes up an entry for every connection that sent none (`scan_iterator.go:57-62`).
- `SessionAssumption`: the empty configuration is one, unset is none; TTLs and clock
  are numbers.
- `ExpressionAssumption`, `LimitAssumption`: the values are numbers, 0 and 1 among
  them, and null is none of them, nor a truth value; ints have a largest one.
- `PlanningAssumption`: key columns and restrictions are finite lists; a restriction
  is one of Postgres's grammar (`IsCondition`: operators with a meaning, a NOT of one
  argument, an OR of simple restrictions, NOTs and ANDs); LIMIT and OFFSET are not
  negative; sort keys are columns or expressions of one; a query has a connection
  with a schema, a table whose rows have values and come from its connections; a
  query with join clauses has the shape of a join, as `deparseLimit` sees it
  (`fdw.c:181`); a join clause mentions a column. Only a legacy plugin is trusted to
  name columns it has.

Each argument is an inductive invariant, one lemma per action or group of actions
that keeps it, and the properties from it.

*ScanIterator.* `Invariance`: `Spec => []IInv`. The properties are not inductive
by themselves: that Postgres gets a prefix of the stream rests on where the rest
of it is. `IInv` adds
`RowsInOrder` (delivered, buffered, in the reader's hand and on offer are the rows
sent, in order), `RecvFollowsReader` (what the receive goroutine can hold for each
place of the reader, and that the reader leaves its loop only when the stream
ended or the backend stopped it), `BackendPhases` (what Postgres has been told at
each place of the backend), `StatusTellsEnding` (what `status` and `err` say of
the stream) and `MetadataWritten`. From it follow `TypeCorrect`, `InOrder`,
`EndIsEnd`, `ErrorsHaveCauses`, `MetadataCovers`, `MetadataAlone`, the action
property `ClosedChannelReports`, and `Refinement`: the spec implements
`ScanResult`, each step being one of its steps or none.

*ConnectionFactory.* `FactoryInvariance` with `KeysMatch` (an entry leads to a
client of its key's plugin that serves its key's connection); from it the type
invariant and the four properties of the run.

*HubScans.* `HubInvariance` with `HInv`. That an abort reaches every running scan
rests on which status and cancel function go together (`IteratorsSound`), on who
holds an iterator (`NodesHold`: two nodes never hold the same one), on what the
errors of held iterators mean (`HeldErrors`), and on why each listed one is listed
(`ListedOwned`); that an end is counted once, on `EndNotCounted`. From it
`ExecStates`, `AbortReaches`, `AbortStopsAll`, `LeaksAbandoned`, `EndCountedOnce`,
for any number of nodes, iterators and transactions.

*The timing store* (`QueryTimingProofs`, then `HubScansProofs`). `KeepsSlowest` is not
inductive: the list must be the slowest of what was offered *and* sorted, and stay so
when a row is inserted into both (`StoreInv`, with `Slowest`). Sorting by rank gives
the place at which a new row goes into a sorted list (`Inserted`), and trimming
commutes with it. The loops over rows and iterators need induction on their turns,
which the provers are given as the principle of the least number (`LeastNumber`, from
well-foundedness): the least turn at which the invariant is broken follows one at
which it held, and a turn keeps it. `TimingInv` adds what the callbacks make of the
store: one timestamp at a time, and `AbortKeptMetadata` for an abort that stopped
halfway. From it `TypeCorrect`, `OneQueryReadable`, `SlowestAreKept`, `AbortMetadata`.

*HubSession.* `SessionInvariance` with `SInv`: `SettingIsWanted` (the setting is the
one asked for last, although the environment writes it too), `RequestKeepsSettings`
(what a request in flight may still be answered with, as time passes) and
`KnownConnections` (hub, plugin and server agree on every connection nobody
disturbed). From it all properties of the run, `SameConfigHarmless` being the
action property.

*ScanPlanning.* `PlanningInvariance` with `PInv`: `Account` (what was passed without
being counted is converted, and after a panic nothing more is passed) and
`LimitsOfAccount` (the limits sent are those of the finished account), with
`PlanOfQuery`, `PathsOfSchema` and `NothingBefore`. From it the type invariant, and
`LimitKnowsRestrictions`: a limit is sent only if every restriction became a qual
whose operator is listed. About paths, from lemmas on the column sets
(`SliceFits`, `ColumnPathsGiveKeys`, `LegacyPathsGiveKeys`, `ColumnKeyWith`,
`LegacyKeyWith`): `PathsGive`, `PathWhenGiven` and `PlansProper`.

*The meaning of quals* (`QualTranslationProofs`). `QualMeaning` goes through the
restrictions case by case, as `quals.go` does: whatever the columns, the values, the
row and the parameter, a qual made of a restriction that `Misread` does not list
holds of exactly the rows the restriction keeps. Nothing is enumerated there; an OR
and an array may have any number of members. With the invariant `QualsOfParam` (each
qual was made of its restriction at the value the parameter has *now*) it gives
`QualsMeanRestrictions` through every rescan.

*The answer.* `AnswersAreRight`: `Spec => []AnswerIsRight`. `AnswerInvariance` adds to
`PInv` and `QualsOfParam` that the limit is that of the query and the keys those of
the path (`PlanOfPath`), and that the rows received are what the plugins sent for
them (`ReceivedOfPlan`). The argument from there, lemma by lemma:
1. the rows received, sorted, are each at their place (`SortedRows`), because the sort
   keys and the places in the table are a total order (`RowsDiffer`, `BeforeFollows`,
   and the counting argument of `OrderProofs`);
2. either no connection has a limit, and all wanted rows come, because a wanted row
   meets every qual (`AllRowsCome`); or all have the query's (`OneLimit`);
3. then the limit is OFFSET plus LIMIT (`LimitCounts`), the plugin's order is the one
   asked for (`KeysOfOrder`, `PlanKeys`), every restriction is a qual and every plugin
   applies them all, so that each connection's first rows are among the first of all
   (`FirstRowsCome`);
4. a set of rows that has the first n of all begins with them when it is sorted
   (`SortedPrefix`), and OFFSET and LIMIT look no further (`SameTop`).

Each known gap is used in one of these steps, and TLC shows of each that the property
fails without it.

Only model-checked: liveness (`ReaderStopsOrIsBlocked`, `CallReturns`,
`CancellationIfAnswering`), of which TLAPS proves none under fairness; and the six
violations, which are counterexamples. That `SlowestFirst` is what `sort.Slice`
returns is checked by TLC against its own sort (`SlowestFirstSorts` in `MCHubScans`),
and the need for each gap by taking it out.

## 5. Not modelled

- Value conversion (`helpers.go`, `fdw/datum.c`), schema and SQL text, explain
  output, logging, the build and the hub singleton: sequential, without state, with
  tests of their own or none to need. Of conversion the model keeps what a
  restriction can lose by it: nulls, lists, a timestamp out of range.
- Costs, widths and target lists: they choose among plans, and the model takes
  every plan.
- The walk over the rows of a command table, and BeginForeignScan for a plain
  EXPLAIN.
- The 32-bit token of an exec state (`exec.go:49`), which wraps after 2^32 scans of
  one backend, and the read lock under which `Abort` replaces a map
  (`hub_base.go:275`): one backend thread calls both.

What could come next: a plan of several foreign tables, where `HubScans` and
`ScanPlanning` meet; and a scan that needs no column, whose rows `IterateForeignScan`
takes for the end (`fdw.go:402`).
