------------------------------ MODULE PathKeys ------------------------------
(* The parameterised paths a table's key columns give the planner
   (types/pathkeys.go, hub_base.go, fdw.go, fdw/query.c). A path key is the set
   of its columns and its cost; order and repetition do not reach the planner. *)
EXTENDS Integers, Sequences, FiniteSets, Functions

requiredKeyColumnBaseCost == 1
optionalKeyColumnBaseCost == 100
keyColumnOnlyCostMultiplier == 2

PathKey(columns, rows) == [columns |-> columns, rows |-> rows]
NoKeys == [paths |-> {}, panics |-> FALSE]

KeyNames(keys, require) == {k.name : k \in {x \in Range(keys) : x.require = require}}

(* mutant: an any-of column is a path without the required ones *)
requiredColumnPathsApart(keys) ==
    {{a} : a \in KeyNames(keys, "anyof")}
      \cup (IF KeyNames(keys, "required") = {} THEN {} ELSE {KeyNames(keys, "required")})

(* Every any-of column gives a path of its own with all required ones; an
   optional column is added to each of these, or stands alone. *)
requiredColumnPaths(keys) ==
    LET required == KeyNames(keys, "required")
        anyOf == KeyNames(keys, "anyof")
    IN  IF anyOf # {} THEN {required \cup {a} : a \in anyOf}
        ELSE IF required # {} THEN {required} ELSE {}

keyColumnsToColumnPath(keys) ==
    LET paths == requiredColumnPaths(keys)
        optional == KeyNames(keys, "optional")
    IN  IF paths # {} THEN paths \cup {p \cup {o} : p \in paths, o \in optional}
        ELSE {{o} : o \in optional}

baseCost(keys) ==
    IF requiredColumnPaths(keys) # {} THEN requiredKeyColumnBaseCost ELSE optionalKeyColumnBaseCost

(* Each column set alone, and with each other column at a lower cost. *)
columnPathsToPathKeys(paths, others, cost) ==
    {PathKey(p, cost * keyColumnOnlyCostMultiplier) : p \in paths}
      \cup UNION {{PathKey(p \cup {c}, cost) : c \in others} : p \in paths}

(* The other columns go into a slice of Len(all) - Len(keys) places. *)
removeKeyColumnsFromAllColumns(keys, all) == {c \in all : \A k \in Range(keys) : k.name # c}
(* mutant: the last place of the slice is not used *)
SliceOverrunEarly(keys, all) ==
    Cardinality(removeKeyColumnsFromAllColumns(keys, all)) >= Cardinality(all) - Len(keys)

SliceOverrun(keys, all) ==
    Cardinality(removeKeyColumnsFromAllColumns(keys, all)) > Cardinality(all) - Len(keys)

KeyColumnsToPathKeys(keys, all) ==
    [paths |-> LET paths == keyColumnsToColumnPath(keys)
                   others == removeKeyColumnsFromAllColumns(keys, all)
               IN  columnPathsToPathKeys(paths, others, baseCost(keys)),
     panics |-> SliceOverrun(keys, all)]

(* The form older plugins use: one column, any of several, or all of several. *)
NoColumnSet == [single |-> {}, any |-> {}, all |-> {}]
LegacyKeyColumnsToColumnPaths(k) ==
    {{c} : c \in k.single \cup k.any} \cup (IF k.all = {} THEN {} ELSE {k.all})

LegacyKeyColumnsToPathKeys(required, optional, all) ==
    LET requiredSets == LegacyKeyColumnsToColumnPaths(required)
        optionalSets == LegacyKeyColumnsToColumnPaths(optional)
        paths == IF requiredSets = {} THEN optionalSets ELSE requiredSets
    IN  UNION {{PathKey(p, keyColumnOnlyCostMultiplier)} \cup {PathKey(p \cup {c}, 1) : c \in all \ p} : p \in paths}

GetPathKeys(schema) ==
    IF schema.legacy
    THEN [paths |-> LegacyKeyColumnsToPathKeys(schema.legacyRequired, schema.legacyOptional, schema.columns),
          panics |-> FALSE]
    ELSE IF schema.listKeys # <<>> THEN KeyColumnsToPathKeys(schema.listKeys, schema.columns)
    ELSE NoKeys

(* The columns the foreign table does not have are dropped from a key. *)
goFdwGetPathKeys(schema, attributes) ==
    {PathKey(k.columns \cap attributes, k.rows) : k \in GetPathKeys(schema).paths}

(* A join clause says which columns of this table it mentions and whether it
   mentions another table. A path needs a clause for each of its columns, one of
   them with another table. *)
ClausesFor(key, joins) == {j \in joins : j.columns \cap key.columns # {}}
(* mutant: every column's clause must be with another table *)
HasPathAllOuter(key, joins) ==
    key.columns # {} /\ \A c \in key.columns : \E j \in joins : c \in j.columns /\ j.outer

HasPath(key, joins) ==
    /\ key.columns # {}
    /\ \A c \in key.columns : \E j \in joins : c \in j.columns
    /\ \E j \in ClausesFor(key, joins) : j.outer

findPaths(pathKeys, joins) ==
    {[clauses |-> ClausesFor(k, joins), rows |-> k.rows] : k \in {x \in pathKeys : HasPath(x, joins)}}

------------------------------------------------------------------------------
(* What a table needs before it can be listed, and what lets a join help to list
   it, stated without paths. *)
GivesSet(k, given) == (k.single \cup k.any) \cap given # {} \/ (k.all # {} /\ k.all \subseteq given)

GivesKeys(schema, given) ==
    IF schema.legacy
    THEN schema.legacyRequired = NoColumnSet \/ GivesSet(schema.legacyRequired, given)
    ELSE /\ KeyNames(schema.listKeys, "required") \subseteq given
         /\ KeyNames(schema.listKeys, "anyof") = {} \/ KeyNames(schema.listKeys, "anyof") \cap given # {}

GivesSomeKey(schema, given) ==
    IF schema.legacy
    THEN GivesSet(schema.legacyRequired, given)
           \/ (schema.legacyRequired = NoColumnSet /\ GivesSet(schema.legacyOptional, given))
    ELSE \E k \in Range(schema.listKeys) : k.name \in given
=============================================================================
