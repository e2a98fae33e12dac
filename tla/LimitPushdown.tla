---------------------------- MODULE LimitPushdown ---------------------------
(* When a LIMIT and an ORDER BY are given to the plugin: the decisions the C
   planner, the Go callbacks and the hub take one after the other (fdw/fdw.c,
   fdw/query.c, fdw.go, hub_base.go, hub_remote.go, hub_local.go). *)
EXTENDS Integers, Sequences, FiniteSets, Functions

CONSTANT MaxInt     \* the largest int of C

ASSUME LimitAssumption == MaxInt \in Nat \ {0}

NoLimit == -1

(* atoi and the sum of two ints wrap around. *)
ToInt(n) == ((n + MaxInt + 1) % (2 * (MaxInt + 1))) - (MaxInt + 1)

(* An offset that is no constant counts as none; window functions, WITH TIES and
   set-returning targets are not looked for. *)
OffsetVal(offset) == IF offset.kind = "const" THEN ToInt(offset.value) ELSE 0
deparseLimit(q) ==
    IF q.shape \in {"grouped", "distinct", "aggregate", "join"} \/ q.limit.kind # "const"
    THEN NoLimit
    ELSE ToInt(ToInt(q.limit.value) + OffsetVal(q.offset))

(* A sort key that is no column empties the whole list. *)
deparse_sortgroup(order) == IF \A i \in DOMAIN order : ~order[i].expr THEN order ELSE <<>>

RequiredOrder(key) == IF key.reversed THEN "desc" ELSE "asc"
CanSort(key, sortable) == sortable[key.col] \in {RequiredOrder(key), "all"}

(* The keys up to the first one the plugin cannot sort by. *)
goFdwCanSort(deparsed, sortable) ==
    LET all == {m \in 1 .. Len(deparsed) : \A i \in 1 .. m : CanSort(deparsed[i], sortable)}
    IN  SubSeq(deparsed, 1, Cardinality(all))

(* all: whether no sort key is left to Postgres alone. An empty list, also one
   emptied by an expression, counts as all. *)
computeDeparsedSortGroup(deparsed, sortable) ==
    LET keys == goFdwCanSort(deparsed, sortable)
    IN  [keys |-> keys, all |-> Len(keys) = Len(deparsed)]
SortPushdown(order, sortable) ==
    LET deparsed == deparse_sortgroup(order)
    IN  IF deparsed = <<>> THEN [keys |-> <<>>, all |-> TRUE] ELSE computeDeparsedSortGroup(deparsed, sortable)

(* The columns and their directions: where nulls go is not passed on. *)
getSortColumns(keys) == [i \in DOMAIN keys |-> [col |-> keys[i].col, order |-> RequiredOrder(keys[i])]]

(* mutant: the sort keys left to Postgres are not asked about *)
BeginLimitAlways(planLimit, canPushdownAllSortFields) == planLimit

BeginLimit(planLimit, canPushdownAllSortFields) ==
    IF canPushdownAllSortFields THEN planLimit ELSE NoLimit

------------------------------------------------------------------------------
(* The key column of a name: those of Get replace those of List. *)
Named(keys, c) == {k \in Range(keys) : k.name = c}
KeyColumn(schema, c) ==
    IF Named(schema.getKeys, c) # {} THEN Named(schema.getKeys, c) ELSE Named(schema.listKeys, c)

IsSupportedQual(schema, column, operator) ==
    \E k \in KeyColumn(schema, column) : operator \in k.operators

(* mutant: a key column is enough, whatever operators it lists *)
shouldPushdownLimitByColumn(schema, qualMap, unhandledRestrictions) ==
    unhandledRestrictions = 0 /\ \A c \in DOMAIN qualMap : KeyColumn(schema, c) # {}

shouldPushdownLimit(schema, qualMap, unhandledRestrictions) ==
    /\ unhandledRestrictions = 0
    /\ \A c \in DOMAIN qualMap : \A q \in qualMap[c] : IsSupportedQual(schema, c, q.operator)

(* The schema of the first connection decides for all; under a mode that is
   neither static nor dynamic nothing is checked. *)
buildConnectionLimitMap(connections, schemas, qualMap, unhandledRestrictions, limit) ==
    LET schema == schemas[connections[1]]
        checked == schema.mode \in {"static", "dynamic"}
    IN  [c \in Range(connections) |->
            IF checked /\ ~shouldPushdownLimit(schema, qualMap, unhandledRestrictions) THEN NoLimit ELSE limit]
=============================================================================
