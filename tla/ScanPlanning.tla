---------------------------- MODULE ScanPlanning ----------------------------
(* A query on one foreign table from planning to its rows: the planner's
   callbacks, BeginForeignScan with the conversion of the restrictions one by
   one, the hub's request, the plugin's rows, and what Postgres makes of them,
   again for each new parameter. The plugin and Postgres's own nodes are external. *)
EXTENDS QualTranslation, PathKeys, LimitPushdown, SequencesExt

CONSTANTS
    Queries,     \* the queries to plan
    Schemas,     \* the plugin's schemas, by name
    Tables,      \* the rows of the tables, by name
    MaxScans     \* a bound on the scans of one plan

(* A schema has a list of key columns, a query one of restrictions; its limit may
   be beyond MaxInt. Only older plugins are trusted to have the key columns they
   name, as a set of columns. A join clause mentions a column of the table. *)
LegacyKeyColumns(columns) == [single : SUBSET columns, any : SUBSET columns, all : SUBSET columns]

ASSUME PlanningAssumption ==
    /\ MaxScans \in Nat
    /\ \A n \in DOMAIN Schemas :
          /\ Schemas[n].listKeys \in Seq(Range(Schemas[n].listKeys))
          /\ Schemas[n].legacy \in BOOLEAN
          /\ \A k \in Range(Schemas[n].listKeys) : k.require \in {"required", "anyof", "optional"}
          /\ IsFiniteSet(Schemas[n].columns)
          /\ Schemas[n].legacyRequired \in LegacyKeyColumns(Schemas[n].columns)
          /\ Schemas[n].legacyOptional \in LegacyKeyColumns(Schemas[n].columns)
    /\ \A q \in Queries :
          /\ q.restrictions \in Seq(Range(q.restrictions))
          /\ \A r \in Range(q.restrictions) \cup {j.restriction : j \in q.joins} : IsCondition(r)
          /\ IsFiniteSet(q.joins)
          /\ \A j \in q.joins : j.columns # {} /\ j.columns \subseteq Columns
          /\ q.joins # {} => q.shape = "join"
          /\ q.limit.value \in Nat /\ q.offset.value \in Nat
          /\ q.order \in Seq([col : Columns, reversed : BOOLEAN, nullsFirst : BOOLEAN, expr : BOOLEAN])
          /\ 1 \in DOMAIN q.connections
          /\ q.schemas[q.connections[1]] \in DOMAIN Schemas
          /\ q.table \in DOMAIN Tables
          /\ Tables[q.table] \in Seq(Range(Tables[q.table]))
          /\ \A row \in Range(Tables[q.table]) :
                /\ \A c \in Columns : row[c] \in Values \cup {Null}
                /\ row.connection \in Range(q.connections)

VARIABLES
    query,       \* the query, its table and the schema of each connection
    phase,       \* the callback to come
    planLimit,   \* FdwPlanState.limit
    paths,       \* the paths offered to the planner
    plan,        \* the foreign scan: its path, sort keys and restrictions (fdw_exprs)
    quals,       \* qualsList, each qual with the position of its restriction
    next,        \* the restriction restrictionsToQuals is at
    unhandled,   \* unhandledRestrictions
    panicked,    \* restrictionsToQuals recovered from a panic
    param,       \* the value of the parameter, Null before the first
    scans,       \* the scans executed
    limits,      \* connectionLimitMap
    received     \* the rows Postgres kept of those the plugin sent

planVars == <<planLimit, paths, plan>>
qualVars == <<quals, next, unhandled, panicked>>
vars == <<query, phase, planVars, qualVars, param, scans, limits, received>>

NoPlan == [sorted |-> FALSE, parameterized |-> FALSE, keys |-> <<>>, all |-> TRUE, restrictions |-> <<>>]
NoLimits == [c \in {} |-> NoLimit]

Connections == query.connections
SchemaOf(c) == Schemas[query.schemas[c]]
Schema == SchemaOf(Connections[1])
Table == Tables[query.table]
QualList == [i \in DOMAIN quals |-> quals[i].qual]

Init ==
    /\ query \in Queries
    /\ phase = "relsize"
    /\ planLimit = NoLimit
    /\ paths = {}
    /\ plan = NoPlan
    /\ quals = <<>>
    /\ next = 1
    /\ unhandled = 0
    /\ panicked = FALSE
    /\ param = Null
    /\ scans = 0
    /\ limits = NoLimits
    /\ received = <<>>

------------------------------------------------------------------------------
(* Planning *)

GetForeignRelSize ==
    /\ phase = "relsize"
    /\ phase' = "paths"
    /\ planLimit' = deparseLimit(query)
    /\ UNCHANGED <<query, paths, plan, qualVars, param, scans, limits, received>>

(* The plain path and the parameterised ones, each also with the sort order if
   part of it can be pushed down. A parameterised path has no private data. *)
Sort == SortPushdown(query.order, Schema.sortable)
UnsortedPaths ==
    {[sorted |-> FALSE, private |-> TRUE, clauses |-> {}]}
      \cup {[sorted |-> FALSE, private |-> FALSE, clauses |-> p.clauses] :
                p \in findPaths(goFdwGetPathKeys(Schema, Columns), query.joins)}
SortedPath(p) == [p EXCEPT !.sorted = TRUE, !.private = TRUE]

GetForeignPaths ==
    /\ phase = "paths"
    /\ ~GetPathKeys(Schema).panics
    /\ phase' = "plan"
    /\ paths' = UnsortedPaths \cup (IF Sort.keys = <<>> THEN {} ELSE {SortedPath(p) : p \in UnsortedPaths})
    /\ UNCHANGED <<query, planLimit, plan, qualVars, param, scans, limits, received>>

(* A panic while the path keys are made is an error of the query. *)
GetForeignPathsFails ==
    /\ phase = "paths"
    /\ GetPathKeys(Schema).panics
    /\ phase' = "failed"
    /\ UNCHANGED <<query, planVars, qualVars, param, scans, limits, received>>

(* The planner takes any of the paths. The join clauses of a parameterised one
   become restrictions on a parameter. *)
ClauseRestrictions(path) == SetToSeq({j.restriction : j \in {x \in path.clauses : x.outer}})
GetForeignPlan ==
    /\ phase = "plan"
    /\ \E path \in paths :
         plan' = [sorted |-> path.sorted,
                  parameterized |-> path.clauses # {},
                  keys |-> IF path.private THEN Sort.keys ELSE <<>>,
                  all |-> path.private => Sort.all,
                  restrictions |-> query.restrictions \o ClauseRestrictions(path)]
    /\ phase' = "begin"
    /\ UNCHANGED <<query, planLimit, paths, qualVars, param, scans, limits, received>>

------------------------------------------------------------------------------
(* BeginForeignScan, also as the second half of ReScanForeignScan *)

(* mutant: a rescan goes on counting *)
BeginForeignScanKeepsCount ==
    /\ phase = "begin"
    /\ phase' = "convert"
    /\ quals' = <<>>
    /\ next' = 1
    /\ panicked' = FALSE
    /\ UNCHANGED <<query, planVars, unhandled, param, scans, limits, received>>

BeginForeignScan ==
    /\ phase = "begin"
    /\ phase' = "convert"
    /\ quals' = <<>>
    /\ next' = 1
    /\ unhandled' = 0
    /\ panicked' = FALSE
    /\ UNCHANGED <<query, planVars, param, scans, limits, received>>

ConvertRestriction ==
    /\ phase = "convert"
    /\ next <= Len(plan.restrictions)
    /\ \E q \in singleRestrictionToQual(plan.restrictions[next], param) :
         IF q = NoQual
         THEN unhandled' = unhandled + 1 /\ UNCHANGED quals
         ELSE quals' = Append(quals, [qual |-> q[1], of |-> next]) /\ UNCHANGED unhandled
    /\ next' = next + 1
    /\ UNCHANGED <<query, phase, planVars, panicked, param, scans, limits, received>>

(* The recover of restrictionsToQuals returns what there is: the restriction it
   was at and those after it are neither converted nor counted. *)
ConversionPanics ==
    /\ phase = "convert"
    /\ next <= Len(plan.restrictions)
    /\ MayPanic(plan.restrictions[next])
    /\ next' = Len(plan.restrictions) + 1
    /\ panicked' = TRUE
    /\ UNCHANGED <<query, phase, planVars, quals, unhandled, param, scans, limits, received>>

GetIterator ==
    /\ phase = "convert"
    /\ next > Len(plan.restrictions)
    /\ limits' = buildConnectionLimitMap(Connections, [c \in Range(Connections) |-> SchemaOf(c)],
                                         buildQualMap(QualList), unhandled,
                                         BeginLimit(planLimit, plan.all))
    /\ phase' = "execute"
    /\ UNCHANGED <<query, planVars, qualVars, param, scans, received>>

------------------------------------------------------------------------------
(* The plugin and Postgres *)

(* A plugin applies the quals on List key columns with an operator the column
   lists, and those on Get key columns when every one of them has an "=". It may
   apply any other qual too. *)
GetUsable(schema) ==
    /\ schema.getKeys # <<>>
    /\ \A k \in Range(schema.getKeys) : \E q \in Range(QualList) : q.field = k.name /\ q.operator = "="
AppliedKeys(schema) ==
    Range(schema.listKeys) \cup (IF GetUsable(schema) THEN Range(schema.getKeys) ELSE {})
Applied(schema) ==
    {q \in Range(QualList) : \E k \in AppliedKeys(schema) : k.name = q.field /\ q.operator \in k.operators}

(* The order of two rows by a list of sort keys, and by their places in the table
   where the keys tell no difference. *)
KeyValue(key, row) == IF key.expr /\ row[key.col] # Null THEN -row[key.col] ELSE row[key.col]
KeyValues(keys, i) == [k \in DOMAIN keys |-> KeyValue(keys[k], Table[i])]
ComesFirst(key, nullsFirst, x, y) ==
    IF x = Null \/ y = Null THEN x # y /\ nullsFirst = (x = Null)
    ELSE IF key.reversed THEN x > y ELSE x < y
Below(keys, nullsFirst, i, j) ==
    \E k \in DOMAIN keys :
        /\ ComesFirst(keys[k], nullsFirst[k], KeyValues(keys, i)[k], KeyValues(keys, j)[k])
        /\ \A l \in 1 .. k - 1 : KeyValues(keys, i)[l] = KeyValues(keys, j)[l]
Before(keys, nullsFirst, i, j) ==
    Below(keys, nullsFirst, i, j) \/ (KeyValues(keys, i) = KeyValues(keys, j) /\ i < j)

(* Postgres is told where nulls go. The plugin is not: it takes them for the largest. *)
PluginNulls(keys) == [k \in DOMAIN keys |-> getSortColumns(keys)[k].order = "desc"]
PostgresNulls(keys) == [k \in DOMAIN keys |-> keys[k].nullsFirst]

Place(ids, keys, nullsFirst, i) == Cardinality({j \in ids : Before(keys, nullsFirst, j, i)})
SortRows(ids, keys, nullsFirst) ==
    LET place == [i \in ids |-> Place(ids, keys, nullsFirst, i)]
    IN  [k \in 1 .. Cardinality(ids) |-> CHOOSE i \in ids : place[i] = k - 1]

(* Each connection sends its rows up to its limit. *)
FirstOf(ids, keys, limit) ==
    {i \in ids : limit = NoLimit \/ Place(ids, keys, PluginNulls(keys), i) < limit}
SentBy(c, applied) ==
    FirstOf({i \in DOMAIN Table : Table[i].connection = c /\ \A q \in applied : QualHolds(q, Table[i])},
            plan.keys, limits[c])
Streamed(applied) == UNION {SentBy(c, applied[c]) : c \in Range(Connections)}

Kept(i) == \A r \in Range(plan.restrictions) : Keeps(r, Table[i], param)

NeedsParameter == query.correlated \/ plan.parameterized

(* The rows of all connections are merged in the order asked for, and Postgres
   rechecks every restriction. *)
IterateForeignScan ==
    /\ phase = "execute"
    /\ scans < MaxScans
    /\ NeedsParameter => param # Null
    /\ \E extra \in [Range(Connections) -> SUBSET Range(QualList)] :
         LET streamed == Streamed([c \in Range(Connections) |-> Applied(SchemaOf(c)) \cup extra[c]])
         IN  received' = SortRows({i \in streamed : Kept(i)}, plan.keys, PluginNulls(plan.keys))
    /\ scans' = scans + 1
    /\ phase' = "done"
    /\ UNCHANGED <<query, planVars, qualVars, param, limits>>

(* A new value of the parameter: the scan is begun again, in the first round
   before any row was asked for. *)
ReScanForeignScan ==
    /\ phase \in {"execute", "done"}
    /\ NeedsParameter
    /\ scans < MaxScans
    /\ \E v \in Values \ {param} : param' = v
    /\ phase' = "begin"
    /\ UNCHANGED <<query, planVars, qualVars, scans, limits, received>>

EndForeignScan ==
    /\ phase = "done"
    /\ phase' = "over"
    /\ UNCHANGED <<query, planVars, qualVars, param, scans, limits, received>>

Over == phase \in {"over", "failed"} /\ UNCHANGED vars

Next ==
    \/ GetForeignRelSize
    \/ GetForeignPaths
    \/ GetForeignPathsFails
    \/ GetForeignPlan
    \/ BeginForeignScan
    \/ ConvertRestriction
    \/ ConversionPanics
    \/ GetIterator
    \/ IterateForeignScan
    \/ ReScanForeignScan
    \/ EndForeignScan
    \/ Over

Spec == Init /\ [][Next]_vars
------------------------------------------------------------------------------
(* Properties *)

Rows == [Columns -> Values \cup {Null}]
Converted == {quals[i].of : i \in DOMAIN quals}

(* The types, with the account restrictionsToQuals keeps: every restriction
   passed is a qual or is counted, and the limit stays an int. *)
TypeOK ==
    /\ phase \in {"relsize", "paths", "plan", "begin", "convert", "execute", "done", "over", "failed"}
    /\ planLimit \in -(MaxInt + 1) .. MaxInt
    /\ next \in 1 .. Len(plan.restrictions) + 1
    /\ unhandled \in 0 .. Len(plan.restrictions)
    /\ ~panicked => Len(quals) + unhandled = next - 1
    /\ param \in Values \cup {Null}
    /\ scans \in 0 .. MaxScans

(* A qual holds of exactly the rows Postgres would keep by the restriction it
   was made of, at the current value of the parameter; but for the restrictions
   Misread lists (quals.go). *)
QualMeansRestriction ==
    phase \in {"convert", "execute", "done"} =>
        \A i \in DOMAIN quals :
            LET r == plan.restrictions[quals[i].of] IN
            Misread(r) \/ \A row \in Rows : QualHolds(quals[i].qual, row) = Keeps(r, row, param)

(* A limit is sent to a connection only if every restriction became a qual on a
   key column that lists its operator: the promise of shouldPushdownLimit. The
   exceptions are a recovered panic (quals.go:47), after which restrictions are
   missing from the count, and a schema mode that is checked nowhere. *)
NoLimitWithUnconverted ==
    phase \in {"execute", "done"} /\ ~panicked /\ Schema.mode \in {"static", "dynamic"} =>
        \A c \in DOMAIN limits : limits[c] # NoLimit =>
            /\ Converted = DOMAIN plan.restrictions
            /\ \A q \in Range(QualList) :
                  \E k \in Range(Schema.listKeys) \cup Range(Schema.getKeys) :
                      k.name = q.field /\ q.operator \in k.operators

(* Any parameterised path gives the table the keys it requires: all required
   columns and one of the any-of columns, or a legacy set (types/pathkeys.go). *)
PathsGiveKeys ==
    phase = "plan" /\ Schema.columns = Columns =>
        \A p \in paths : p.clauses # {} => GivesKeys(Schema, UNION {j.columns : j \in p.clauses})

(* A join that can give the keys has a parameterised path: the planner is never
   left with the bare scan that a table with required keys refuses. *)
PathWhenKeysGiven ==
    phase = "plan" /\ Schema.columns = Columns =>
        LET given == UNION {j.columns : j \in query.joins} IN
        /\ GivesKeys(Schema, given)
        /\ GivesSomeKey(Schema, given)
        /\ \E j \in query.joins : j.outer
        => \E p \in paths : p.clauses # {}

(* Planning a table whose key columns are columns of it, each listed once, does
   not fail (types/pathkeys.go:38, where a slice is sized by that). *)
PlansProperKeys ==
    phase = "failed" =>
        \/ Cardinality({k.name : k \in Range(Schema.listKeys)}) # Len(Schema.listKeys)
        \/ \E k \in Range(Schema.listKeys) : k.name \notin Schema.columns

------------------------------------------------------------------------------
(* What a query must return *)

MinOf(a, b) == IF a < b THEN a ELSE b
LimitOf == IF query.limit.kind \in {"const", "param"} THEN query.limit.value ELSE Len(Table)
OffsetOf == IF query.offset.kind \in {"const", "param"} THEN query.offset.value ELSE 0
OrderOf(i) == KeyValues(query.order, i)

(* OFFSET and LIMIT, WITH TIES for that shape. *)
Top(ids) ==
    LET last == MinOf(Len(ids), OffsetOf + LimitOf)
        first == SubSeq(ids, OffsetOf + 1, last)
    IN  IF query.shape = "ties" /\ first # <<>>
        THEN first \o SelectSeq(SubSeq(ids, last + 1, Len(ids)), LAMBDA i : OrderOf(i) = OrderOf(ids[last]))
        ELSE first

SameOrder(ids, wanted) ==
    Len(ids) = Len(wanted) /\ \A i \in DOMAIN ids : OrderOf(ids[i]) = OrderOf(wanted[i])

NeedsAllRows == query.shape \in {"grouped", "distinct", "aggregate", "join", "window"}
InKeyOrder(ids) == \A i \in 1 .. Len(ids) - 1 :
    ~Below(plan.keys, PostgresNulls(plan.keys), ids[i + 1], ids[i])

(* The rows the query returns, sorted by Postgres unless the path is sorted by
   every key, are those it should, in the order it should. *)
RightAnswer ==
    LET Sorted(ids) == SortRows(ids, query.order, PostgresNulls(query.order))
        wanted == Sorted({i \in DOMAIN Table : Kept(i)})
        got == IF plan.sorted /\ plan.all THEN received ELSE Sorted(Range(received))
    IN  /\ plan.sorted => InKeyOrder(received)
        /\ IF NeedsAllRows THEN Range(received) = Range(wanted)
           ELSE SameOrder(Top(got), Top(wanted)) /\ Range(got) \subseteq Range(wanted)

(* The cases in which the code is known to give up rows or their order; the
   README has an example of each. *)
NullsGap == (plan.sorted \/ planLimit # NoLimit) /\ \E i \in DOMAIN plan.keys : plan.keys[i].nullsFirst # plan.keys[i].reversed
MisreadGap == \E r \in Range(plan.restrictions) : Misread(r)
OffsetGap == query.offset.kind = "param"
OverflowGap == LimitOf + OffsetOf > MaxInt
ShapeGap == query.shape \in {"window", "ties"}
ExpressionGap == \E i \in DOMAIN query.order : query.order[i].expr
SchemaGap == \E c \in Range(Connections) : SchemaOf(c) # Schema
ModeGap == Schema.mode \notin {"static", "dynamic"}
GetKeyGap == \E k \in Range(Schema.getKeys) : k \notin Range(Schema.listKeys)
LimitGap ==
    planLimit # NoLimit
      /\ (panicked \/ OffsetGap \/ OverflowGap \/ ShapeGap \/ ExpressionGap \/ SchemaGap \/ ModeGap \/ GetKeyGap)
KnownGap == MisreadGap \/ NullsGap \/ LimitGap

(* No plan changes the answer of a query: whatever path is taken, whatever quals,
   order and limit are pushed down to however many connections, and whatever
   other quals the plugin applies, the query returns what it would from the whole
   table; but for the known gaps. *)
AnswerIsRight == phase = "done" /\ ~KnownGap => RightAnswer

(* A limit is pushed down only if all sort clauses are (CHANGELOG.md:108). *)
LimitOnlyIfAllSorted ==
    phase = "execute" /\ (\E c \in DOMAIN limits : limits[c] # NoLimit) =>
        Len(plan.keys) = Len(query.order)
=============================================================================
