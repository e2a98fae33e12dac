-------------------------- MODULE ScanPlanningProofs --------------------------
(***************************************************************************)
(* What planning promises for every query, schema and table: the account   *)
(* of the restrictions, and from it that a limit is pushed down only when  *)
(* the plugin applies them all; that a qual means its restriction; which   *)
(* tables can be planned at all; and last, that no plan changes an answer. *)
(***************************************************************************)
EXTENDS ScanPlanning, QualTranslationProofs, OrderProofs, SequenceTheorems

\* The restrictions a plan can have: those of the query and of its join clauses.
PlanRestrictions == Range(query.restrictions) \cup {j.restriction : j \in query.joins}

\* The plan is made of the query's own parts.
PlanOfQuery ==
    /\ query \in Queries
    /\ plan.restrictions \in Seq(PlanRestrictions)
    /\ \A p \in paths : p.clauses \subseteq query.joins

\* The paths offered are those of the schema; a query fails where their making panics.
PathsOfSchema ==
    /\ phase = "failed" => GetPathKeys(Schema).panics
    /\ phase = "plan" =>
          /\ ~GetPathKeys(Schema).panics
          /\ paths = UnsortedPaths \cup (IF Sort.keys = <<>> THEN {} ELSE {SortedPath(p) : p \in UnsortedPaths})

\* Before the scan begins nothing is converted.
NothingBefore ==
    phase \in {"relsize", "paths", "plan"} => next = 1 /\ unhandled = 0 /\ quals = <<>> /\ ~panicked

\* The account restrictionsToQuals keeps: what it passed without counting is converted,
\* and after a panic it passes no more.
Account ==
    /\ quals \in Seq(Range(quals))
    /\ ~panicked /\ unhandled = 0 => Converted = 1 .. (next - 1)
    /\ panicked => next = Len(plan.restrictions) + 1

\* A request was made after the last restriction, with the limits of the account.
LimitsOfAccount ==
    phase \in {"execute", "done"} =>
        /\ next = Len(plan.restrictions) + 1
        /\ limits = buildConnectionLimitMap(Connections, [c \in Range(Connections) |-> SchemaOf(c)],
                                            buildQualMap(QualList), unhandled,
                                            BeginLimit(planLimit, plan.all))

\* The inductive invariant.
PInv ==
    /\ TypeOK
    /\ PlanOfQuery
    /\ PathsOfSchema
    /\ NothingBefore
    /\ Account
    /\ LimitsOfAccount

-----------------------------------------------------------------------------
(* Lists and limits.                                                       *)

\* atoi and the sum wrap around, and so stay ints.
LEMMA WrapsToInt ==
    ASSUME NEW n \in Int
    PROVE  ToInt(n) \in -(MaxInt + 1) .. MaxInt
BY LimitAssumption DEF ToInt

LEMMA PlanLimitIsInt ==
    ASSUME NEW q \in Queries
    PROVE  deparseLimit(q) \in -(MaxInt + 1) .. MaxInt
<1>1. NoLimit \in -(MaxInt + 1) .. MaxInt /\ MaxInt \in Nat
  BY LimitAssumption DEF NoLimit
<1>2. q.limit.value \in Int /\ q.offset.value \in Int
  BY PlanningAssumption
<1>3. ToInt(q.limit.value) \in Int /\ ToInt(q.offset.value) \in Int
  BY <1>1, <1>2, WrapsToInt
<1>4. OffsetVal(q.offset) \in Int
  BY <1>3 DEF OffsetVal
<1>5. ToInt(q.limit.value) + OffsetVal(q.offset) \in Int
  BY <1>3, <1>4
<1>6. ToInt(ToInt(q.limit.value) + OffsetVal(q.offset)) \in -(MaxInt + 1) .. MaxInt
  BY <1>5, WrapsToInt
<1> QED BY <1>1, <1>6 DEF deparseLimit

\* The elements of a list grow by what is appended.
LEMMA AppendedQual ==
    ASSUME NEW s, s \in Seq(Range(s)), NEW e
    PROVE  /\ Append(s, e) \in Seq(Range(Append(s, e)))
           /\ Len(Append(s, e)) = Len(s) + 1
           /\ \A i \in 1 .. Len(s) : Append(s, e)[i] = s[i]
           /\ Append(s, e)[Len(s) + 1] = e
<1> DEFINE S == Range(s) \cup {e}
<1>1. s \in Seq(S) /\ e \in S
  <2>1. Range(s) \subseteq S
    OBVIOUS
  <2> HIDE DEF S
  <2>2. \A T, U : T \subseteq U => Seq(T) \subseteq Seq(U)
    OBVIOUS
  <2>3. e \in S
    BY DEF S
  <2> QED BY <2>1, <2>2, <2>3
<1> HIDE DEF S
<1>2. /\ Append(s, e) \in Seq(S) /\ Len(Append(s, e)) = Len(s) + 1
      /\ \A i \in 1 .. Len(s) : Append(s, e)[i] = s[i]
      /\ Append(s, e)[Len(s) + 1] = e
  BY <1>1
<1>3. \A t \in Seq(S) : t \in Seq(Range(t))
  BY DEF Range
<1> QED BY <1>2, <1>3

\* The join clauses' restrictions are listed.
LEMMA ListedOnce ==
    ASSUME NEW S, IsFiniteSet(S)
    PROVE  SetToSeq(S) \in Seq(S)
<1>1. Cardinality(S) \in Nat
  BY FS_CardinalityType
<1>2. PICK f : f \in Bijection(1 .. Cardinality(S), S)
  BY FS_CardinalityType, FS_NatBijection DEF ExistsBijection
<1>3. f \in [1 .. Cardinality(S) -> S] /\ IsInjective(f)
  BY <1>2 DEF Bijection, Injection, IsInjective
<1>4. SetToSeq(S) \in [1 .. Cardinality(S) -> S]
  BY <1>3 DEF SetToSeq
<1> QED BY <1>1, <1>4

-----------------------------------------------------------------------------
(* Steps.                                                                  *)

LEMMA InitImpliesPInv == Init => PInv
<1> SUFFICES ASSUME Init PROVE PInv
  OBVIOUS
<1>1. NoLimit \in -(MaxInt + 1) .. MaxInt
  BY LimitAssumption DEF NoLimit
<1>2. plan.restrictions = <<>> /\ Len(plan.restrictions) = 0
  BY DEF Init, NoPlan
<1>3. quals = <<>> /\ Len(quals) = 0 /\ DOMAIN quals = {}
  BY DEF Init
<1>4. TypeOK
  BY <1>1, <1>2, <1>3, PlanningAssumption DEF Init, TypeOK
<1>5. PlanOfQuery
  BY <1>2 DEF Init, PlanOfQuery
<1>6. Account
  BY <1>3 DEF Init, Account, Converted
<1> QED BY <1>4, <1>5, <1>6 DEF Init, PInv, PathsOfSchema, NothingBefore, LimitsOfAccount

\* The planner's callbacks come before any conversion.
LEMMA PlanningKeeps ==
    ASSUME PInv,
           GetForeignRelSize \/ GetForeignPaths \/ GetForeignPathsFails \/ GetForeignPlan
    PROVE  PInv'
<1>1. /\ UNCHANGED <<query, quals, next, unhandled, panicked, param, scans>>
      /\ phase \in {"relsize", "paths", "plan"} /\ phase' \in {"paths", "plan", "begin", "failed"}
  BY DEF GetForeignRelSize, GetForeignPaths, GetForeignPathsFails, GetForeignPlan, qualVars,
         planVars
<1>2. next = 1 /\ unhandled = 0 /\ quals = <<>> /\ ~panicked
  BY <1>1 DEF PInv, NothingBefore
<1>3. planLimit' \in -(MaxInt + 1) .. MaxInt
  BY PlanLimitIsInt DEF PInv, TypeOK, PlanOfQuery, GetForeignRelSize, GetForeignPaths,
                        GetForeignPathsFails, GetForeignPlan, planVars
<1>4. PlanOfQuery'
  <2>1. CASE GetForeignRelSize \/ GetForeignPathsFails
    BY <1>1, <2>1 DEF PInv, PlanOfQuery, PlanRestrictions, GetForeignRelSize,
                      GetForeignPathsFails, planVars
  <2>2. CASE GetForeignPaths
    <3>1. \A p \in UnsortedPaths : /\ p.clauses \subseteq query.joins
                                   /\ SortedPath(p).clauses = p.clauses
      BY DEF UnsortedPaths, findPaths, ClausesFor, SortedPath
    <3>2. \A p \in paths' : p \in UnsortedPaths \/ \E u \in UnsortedPaths : p = SortedPath(u)
      BY <2>2 DEF GetForeignPaths
    <3>3. plan' = plan
      BY <2>2 DEF GetForeignPaths
    <3> QED BY <1>1, <3>1, <3>2, <3>3 DEF PInv, PlanOfQuery, PlanRestrictions
  <2>3. CASE GetForeignPlan
    <3>1. PICK path \in paths :
              plan'.restrictions = query.restrictions \o ClauseRestrictions(path)
      BY <2>3 DEF GetForeignPlan
    <3> DEFINE R == {j.restriction : j \in {x \in path.clauses : x.outer}}
    <3>2. path.clauses \subseteq query.joins /\ query \in Queries
      BY <3>1 DEF PInv, PlanOfQuery
    <3>3. IsFiniteSet(R)
      <4>1. IsFiniteSet({x \in path.clauses : x.outer})
        BY <3>2, PlanningAssumption, FS_Subset
      <4> DEFINE J == {x \in path.clauses : x.outer}
                 f == [j \in J |-> j.restriction]
      <4>2. f \in Surjection(J, R)
        BY DEF Surjection
      <4> QED BY <4>1, <4>2, FS_Surjection
    <3>4. SetToSeq(R) \in Seq(R)
      BY <3>3, ListedOnce
    <3>5. R \subseteq PlanRestrictions /\ Range(query.restrictions) \subseteq PlanRestrictions
      BY <3>2 DEF PlanRestrictions
    <3> HIDE DEF R
    <3>6. \A S, T : S \subseteq T => Seq(S) \subseteq Seq(T)
      OBVIOUS
    <3>7. SetToSeq(R) \in Seq(PlanRestrictions) /\ query.restrictions \in Seq(PlanRestrictions)
      BY <3>2, <3>4, <3>5, <3>6, PlanningAssumption
    <3>8. ClauseRestrictions(path) = SetToSeq(R)
      BY DEF ClauseRestrictions, R
    <3>9. plan'.restrictions \in Seq(PlanRestrictions)
      BY <3>1, <3>7, <3>8
    <3>10. paths' = paths
      BY <2>3 DEF GetForeignPlan
    <3> QED BY <1>1, <3>9, <3>10 DEF PInv, PlanOfQuery, PlanRestrictions
  <2> QED BY <2>1, <2>2, <2>3
<1>5. Len(plan'.restrictions) \in Nat
  BY <1>4 DEF PlanOfQuery
<1>6. TypeOK'
  BY <1>1, <1>2, <1>3, <1>5 DEF PInv, TypeOK
<1>7. NothingBefore' /\ Account' /\ LimitsOfAccount'
  BY <1>1, <1>2 DEF PInv, NothingBefore, Account, Converted, LimitsOfAccount
<1>8. PathsOfSchema'
  BY <1>1 DEF PathsOfSchema, GetForeignRelSize, GetForeignPaths, GetForeignPathsFails,
              GetForeignPlan, UnsortedPaths, Sort, Schema, SchemaOf, Connections
<1> QED BY <1>4, <1>6, <1>7, <1>8 DEF PInv

\* A begun scan starts its account anew.
LEMMA BeginKeeps == PInv /\ BeginForeignScan => PInv'
<1> SUFFICES ASSUME PInv, BeginForeignScan PROVE PInv'
  OBVIOUS
<1>1. /\ phase = "begin" /\ phase' = "convert" /\ quals' = <<>> /\ next' = 1 /\ unhandled' = 0
      /\ panicked' = FALSE
      /\ UNCHANGED <<query, planLimit, paths, plan, param, scans, limits>>
  BY DEF BeginForeignScan, planVars
<1>2. Len(plan.restrictions) \in Nat
  BY DEF PInv, PlanOfQuery
<1>3. quals' = <<>> /\ Len(quals') = 0 /\ DOMAIN quals' = {}
  BY <1>1
<1>4. TypeOK'
  BY <1>1, <1>2, <1>3 DEF PInv, TypeOK
<1>5. PlanOfQuery'
  BY <1>1 DEF PInv, PlanOfQuery, PlanRestrictions
<1>6. Account'
  BY <1>1, <1>3 DEF Account, Converted
<1> QED BY <1>1, <1>4, <1>5, <1>6 DEF PInv, PathsOfSchema, NothingBefore, LimitsOfAccount

\* A restriction becomes a qual or is counted; a panic ends the account.
LEMMA ConversionKeeps ==
    ASSUME PInv, ConvertRestriction \/ ConversionPanics
    PROVE  PInv'
<1>1. /\ phase = "convert" /\ phase' = "convert"
      /\ next <= Len(plan.restrictions)
      /\ UNCHANGED <<query, planLimit, paths, plan, param, scans, limits>>
  BY DEF ConvertRestriction, ConversionPanics, planVars
<1>2. /\ Len(plan.restrictions) \in Nat /\ next \in Nat /\ unhandled \in Nat
      /\ quals \in Seq(Range(quals)) /\ Len(quals) \in Nat
      /\ 1 <= next /\ unhandled <= Len(plan.restrictions)
  BY DEF PInv, PlanOfQuery, TypeOK, Account
<1>3. PlanOfQuery' /\ PathsOfSchema' /\ NothingBefore' /\ LimitsOfAccount'
  BY <1>1 DEF PInv, PlanOfQuery, PlanRestrictions, PathsOfSchema, NothingBefore, LimitsOfAccount
<1>4. CASE ConversionPanics
  BY <1>1, <1>2, <1>3, <1>4 DEF ConversionPanics, PInv, TypeOK, Account
<1>5. CASE ConvertRestriction
  <2>1. /\ next' = next + 1 /\ panicked' = panicked
        /\ \/ unhandled' = unhandled + 1 /\ quals' = quals
           \/ /\ unhandled' = unhandled
              /\ \E q : quals' = Append(quals, [qual |-> q[1], of |-> next])
    BY <1>5 DEF ConvertRestriction
  <2>2. ~panicked /\ Len(quals) + unhandled = next - 1
    BY <1>1, <1>2 DEF PInv, TypeOK, Account
  <2>3. CASE unhandled' = unhandled + 1 /\ quals' = quals
    <3>1. unhandled' # 0
      BY <1>2, <2>3
    <3>2. Account'
      BY <1>1, <1>2, <2>1, <2>2, <2>3, <3>1 DEF PInv, Account
    <3>3. unhandled' <= Len(plan.restrictions)
      BY <1>1, <1>2, <2>1, <2>2, <2>3 DEF PInv, TypeOK
    <3> QED BY <1>1, <1>2, <1>3, <2>1, <2>2, <2>3, <3>2, <3>3 DEF PInv, TypeOK
  <2>4. CASE unhandled' = unhandled /\ \E q : quals' = Append(quals, [qual |-> q[1], of |-> next])
    <3>1. PICK q : quals' = Append(quals, [qual |-> q[1], of |-> next])
      BY <2>4
    <3>2. /\ quals' \in Seq(Range(quals')) /\ Len(quals') = Len(quals) + 1
          /\ \A i \in 1 .. Len(quals) : quals'[i] = quals[i]
          /\ quals'[Len(quals) + 1].of = next
      BY <1>2, <3>1, AppendedQual
    <3>3. /\ DOMAIN quals = 1 .. Len(quals)
          /\ DOMAIN quals' = 1 .. (Len(quals) + 1)
      BY <1>2, <3>2
    <3>4. Converted' = Converted \cup {next}
      BY <1>2, <3>2, <3>3 DEF Converted
    <3>5. Account'
      BY <1>2, <2>1, <2>2, <2>4, <3>2, <3>4 DEF PInv, Account
    <3> QED BY <1>1, <1>2, <1>3, <2>1, <2>2, <2>4, <3>2, <3>5 DEF PInv, TypeOK
  <2> QED BY <2>1, <2>3, <2>4
<1> QED BY <1>4, <1>5

\* The request is made when the last restriction is accounted for.
LEMMA GetIteratorKeeps == PInv /\ GetIterator => PInv'
<1> SUFFICES ASSUME PInv, GetIterator PROVE PInv'
  OBVIOUS
<1>1. /\ phase = "convert" /\ phase' = "execute" /\ next > Len(plan.restrictions)
      /\ limits' = buildConnectionLimitMap(Connections, [c \in Range(Connections) |-> SchemaOf(c)],
                                           buildQualMap(QualList), unhandled,
                                           BeginLimit(planLimit, plan.all))
      /\ UNCHANGED <<query, planLimit, paths, plan, quals, next, unhandled, panicked, param, scans>>
  BY DEF GetIterator, planVars, qualVars
<1>2. next = Len(plan.restrictions) + 1
  BY <1>1 DEF PInv, TypeOK, PlanOfQuery
<1>3. LimitsOfAccount'
  BY <1>1, <1>2 DEF LimitsOfAccount, Connections, SchemaOf, QualList
<1>4. TypeOK' /\ PlanOfQuery' /\ PathsOfSchema' /\ NothingBefore' /\ Account'
  BY <1>1 DEF PInv, TypeOK, PlanOfQuery, PlanRestrictions, PathsOfSchema, NothingBefore, Account, Converted
<1> QED BY <1>3, <1>4 DEF PInv

\* The rest of a scan leaves the account and the limits as they are.
LEMMA ScanKeeps ==
    ASSUME PInv, IterateForeignScan \/ ReScanForeignScan \/ EndForeignScan
    PROVE  PInv'
<1>1. /\ UNCHANGED <<query, planLimit, paths, plan, quals, next, unhandled, panicked, limits>>
      /\ phase \in {"execute", "done"} /\ phase' \in {"done", "begin", "over"}
      /\ param' \in Values \cup {Null}
  BY DEF IterateForeignScan, ReScanForeignScan, EndForeignScan, planVars, qualVars, PInv, TypeOK
<1>2. scans' \in 0 .. MaxScans
  BY PlanningAssumption
     DEF IterateForeignScan, ReScanForeignScan, EndForeignScan, PInv, TypeOK
<1>3. TypeOK'
  BY <1>1, <1>2 DEF PInv, TypeOK
<1>4. LimitsOfAccount'
  BY <1>1 DEF PInv, LimitsOfAccount, Connections, SchemaOf, QualList
<1>5. PlanOfQuery' /\ PathsOfSchema' /\ NothingBefore' /\ Account'
  BY <1>1 DEF PInv, PlanOfQuery, PlanRestrictions, PathsOfSchema, NothingBefore, Account, Converted
<1> QED BY <1>3, <1>4, <1>5 DEF PInv

-----------------------------------------------------------------------------
(* The restrictions and the limit.                                         *)

\* Through every plan and rescan the account of the restrictions is kept.
THEOREM PlanningInvariance == Spec => []PInv
<1>1. PInv /\ [Next]_vars => PInv'
  <2> SUFFICES ASSUME PInv, [Next]_vars PROVE PInv'
    OBVIOUS
  <2>1. CASE UNCHANGED vars
    BY <2>1 DEF vars, planVars, qualVars, PInv, TypeOK, PlanOfQuery, PlanRestrictions,
                PathsOfSchema, UnsortedPaths, Sort, Schema, NothingBefore, Account, Converted,
                LimitsOfAccount, Connections, SchemaOf, QualList
  <2>2. CASE Over
    BY <2>2 DEF Over, vars, planVars, qualVars, PInv, TypeOK, PlanOfQuery, PlanRestrictions,
                PathsOfSchema, UnsortedPaths, Sort, Schema, NothingBefore, Account, Converted,
                LimitsOfAccount, Connections, SchemaOf, QualList
  <2> QED BY <2>1, <2>2, PlanningKeeps, BeginKeeps, ConversionKeeps, GetIteratorKeeps, ScanKeeps
          DEF Next
<1> QED BY <1>1, InitImpliesPInv, PTL DEF Spec

\* The types, with the account.
THEOREM PlanningTypeCorrect == Spec => []TypeOK
BY PlanningInvariance, PTL DEF PInv

\* Of a limit that is sent: every restriction became a qual, and the schema of the
\* first connection lists a key column with the operator of each.
LEMMA LimitNeedsQuals == PInv => NoLimitWithUnconverted
<1> SUFFICES ASSUME PInv, phase \in {"execute", "done"}, ~panicked,
                    Schema.mode \in {"static", "dynamic"},
                    NEW c \in DOMAIN limits, limits[c] # NoLimit
             PROVE  /\ Converted = DOMAIN plan.restrictions
                    /\ \A q \in Range(QualList) :
                          \E k \in Range(Schema.listKeys) \cup Range(Schema.getKeys) :
                              k.name = q.field /\ q.operator \in k.operators
  BY DEF NoLimitWithUnconverted
<1> DEFINE schemas == [d \in Range(Connections) |-> SchemaOf(d)]
           limit == BeginLimit(planLimit, plan.all)
           qualMap == buildQualMap(QualList)
           first == schemas[Connections[1]]
<1>1. /\ next = Len(plan.restrictions) + 1
      /\ limits = buildConnectionLimitMap(Connections, schemas, qualMap, unhandled, limit)
  BY DEF PInv, LimitsOfAccount
<1> HIDE DEF schemas, limit, qualMap
<1>2. limits = [d \in Range(Connections) |->
                   IF first.mode \in {"static", "dynamic"} /\ ~shouldPushdownLimit(first, qualMap, unhandled)
                   THEN NoLimit ELSE limit]
  BY <1>1 DEF buildConnectionLimitMap
<1>3. first = Schema
  <2>1. Connections[1] \in Range(Connections)
    BY PlanningAssumption DEF PInv, PlanOfQuery, Connections, Range
  <2> QED BY <2>1 DEF schemas, Schema
<1>4. shouldPushdownLimit(Schema, qualMap, unhandled)
  BY <1>2, <1>3
<1>5. Converted = DOMAIN plan.restrictions
  <2>1. Converted = 1 .. (next - 1)
    BY <1>4 DEF shouldPushdownLimit, PInv, Account
  <2>2. DOMAIN plan.restrictions = 1 .. Len(plan.restrictions) /\ Len(plan.restrictions) \in Nat
    BY DEF PInv, PlanOfQuery
  <2> QED BY <1>1, <2>1, <2>2
<1>6. ASSUME NEW q \in Range(QualList)
      PROVE  \E k \in Range(Schema.listKeys) \cup Range(Schema.getKeys) :
                 k.name = q.field /\ q.operator \in k.operators
  <2>1. q.field \in DOMAIN qualMap /\ q \in qualMap[q.field]
    BY DEF qualMap, buildQualMap
  <2>2. IsSupportedQual(Schema, q.field, q.operator)
    BY <1>4, <2>1 DEF shouldPushdownLimit
  <2> QED BY <2>2 DEF IsSupportedQual, KeyColumn, Named
<1> QED BY <1>5, <1>6

\* A limit is never sent past a restriction that became no qual or whose qual the
\* plugin lists no operator for, but after a recovered panic or in an unset mode.
THEOREM LimitKnowsRestrictions == Spec => []NoLimitWithUnconverted
BY PlanningInvariance, LimitNeedsQuals, PTL

-----------------------------------------------------------------------------
(* The meaning of the quals.                                               *)

\* Each qual of a scan was made of its restriction at the value the parameter has now:
\* a rescan throws away those of the value before it.
QualsOfParam ==
    phase \in {"convert", "execute", "done"} =>
        \A i \in DOMAIN quals :
            /\ quals[i].of \in DOMAIN plan.restrictions
            /\ \E made \in singleRestrictionToQual(plan.restrictions[quals[i].of], param) :
                  made # NoQual /\ quals[i].qual = made[1]

\* A step keeps the quals, empties them, or adds one of the restriction it is at.
LEMMA QualsOfParamKept == PInv /\ QualsOfParam /\ [Next]_vars => QualsOfParam'
<1> SUFFICES ASSUME PInv, QualsOfParam, [Next]_vars, phase' \in {"convert", "execute", "done"}
             PROVE  QualsOfParam'
  BY DEF QualsOfParam
<1>1. CASE /\ UNCHANGED <<quals, plan, param>>
           /\ phase \in {"convert", "execute", "done"}
  BY <1>1 DEF QualsOfParam
<1>2. CASE BeginForeignScan
  BY <1>2 DEF BeginForeignScan, QualsOfParam
<1>3. CASE ConvertRestriction
  <2>1. /\ phase = "convert" /\ next <= Len(plan.restrictions)
        /\ plan' = plan /\ param' = param
    BY <1>3 DEF ConvertRestriction, planVars
  <2>2. PICK made \in singleRestrictionToQual(plan.restrictions[next], param) :
            IF made = NoQual THEN quals' = quals
            ELSE quals' = Append(quals, [qual |-> made[1], of |-> next])
    BY <1>3 DEF ConvertRestriction
  <2>3. CASE made = NoQual
    BY <2>1, <2>2, <2>3 DEF QualsOfParam
  <2>4. CASE made # NoQual
    <3> DEFINE added == [qual |-> made[1], of |-> next]
    <3>1. added.qual = made[1] /\ added.of = next
      OBVIOUS
    <3>2. quals' = Append(quals, added)
      BY <2>2, <2>4
    <3> HIDE DEF added
    <3>3. quals \in Seq(Range(quals)) /\ Len(quals) \in Nat
      BY DEF PInv, Account
    <3>4. /\ quals' \in Seq(Range(quals')) /\ Len(quals') = Len(quals) + 1
          /\ \A i \in 1 .. Len(quals) : quals'[i] = quals[i]
          /\ quals'[Len(quals) + 1] = added
      BY <3>2, <3>3, AppendedQual
    <3>5. next \in DOMAIN plan.restrictions
      BY <2>1 DEF PInv, TypeOK, PlanOfQuery
    <3>6. SUFFICES ASSUME NEW i \in DOMAIN quals'
                   PROVE  /\ quals'[i].of \in DOMAIN plan.restrictions
                          /\ \E q \in singleRestrictionToQual(plan.restrictions[quals'[i].of], param) :
                                q # NoQual /\ quals'[i].qual = q[1]
      BY <2>1 DEF QualsOfParam
    <3>7. CASE i = Len(quals) + 1
      BY <2>4, <3>1, <3>4, <3>5, <3>7
    <3>8. CASE i \in 1 .. Len(quals)
      <4>1. quals'[i] = quals[i] /\ i \in DOMAIN quals
        BY <3>3, <3>4, <3>8
      <4> QED BY <2>1, <4>1 DEF QualsOfParam
    <3> QED BY <3>3, <3>4, <3>6, <3>7, <3>8
  <2> QED BY <2>3, <2>4
<1>4. CASE ConversionPanics \/ GetIterator \/ IterateForeignScan
  BY <1>1, <1>4 DEF ConversionPanics, GetIterator, IterateForeignScan, planVars, qualVars
<1>5. CASE Over \/ UNCHANGED vars
  BY <1>1, <1>5 DEF Over, vars, planVars, qualVars
<1>6. CASE \/ GetForeignRelSize \/ GetForeignPaths \/ GetForeignPathsFails \/ GetForeignPlan
           \/ ReScanForeignScan \/ EndForeignScan
  BY <1>6 DEF GetForeignRelSize, GetForeignPaths, GetForeignPathsFails, GetForeignPlan,
              ReScanForeignScan, EndForeignScan
<1> QED BY <1>2, <1>3, <1>4, <1>5, <1>6 DEF Next

\* A qual holds of a row, or it does not.
LEMMA QualDecides ==
    ASSUME NEW q, NEW row
    PROVE  QualHolds(q, row) \in BOOLEAN
BY DEF QualHolds

\* The meaning of one qual of a scan, for any row.
LEMMA QualMeans ==
    ASSUME PInv, QualsOfParam, phase \in {"convert", "execute", "done"},
           NEW i \in DOMAIN quals, ~Misread(plan.restrictions[quals[i].of]),
           NEW row, IsRow(row)
    PROVE  QualHolds(quals[i].qual, row) <=> Keeps(plan.restrictions[quals[i].of], row, param)
<1> DEFINE r == plan.restrictions[quals[i].of]
<1>1. IsCondition(r)
  <2>1. plan.restrictions \in Seq(PlanRestrictions) /\ query \in Queries
    BY DEF PInv, PlanOfQuery
  <2>2. r \in PlanRestrictions
    BY <2>1 DEF QualsOfParam
  <2> QED BY <2>1, <2>2, PlanningAssumption DEF PlanRestrictions
<1>2. PICK made \in singleRestrictionToQual(r, param) : made # NoQual /\ quals[i].qual = made[1]
  BY DEF QualsOfParam
<1>3. param \in Values \cup {Null}
  BY DEF PInv, TypeOK
<1> HIDE DEF r
<1>4. QualHolds(made[1], row) <=> Keeps(r, row, param)
  BY <1>1, <1>2, <1>3, QualMeaning DEF r
<1> QED BY <1>2, <1>4 DEF r

LEMMA QualsMean == PInv /\ QualsOfParam => QualMeansRestriction
<1> SUFFICES ASSUME PInv, QualsOfParam, phase \in {"convert", "execute", "done"},
                    NEW i \in DOMAIN quals, ~Misread(plan.restrictions[quals[i].of]),
                    NEW row \in Rows
             PROVE  QualHolds(quals[i].qual, row)
                        = Keeps(plan.restrictions[quals[i].of], row, param)
  BY DEF QualMeansRestriction
<1>1. QualHolds(quals[i].qual, row) <=> Keeps(plan.restrictions[quals[i].of], row, param)
  BY QualMeans DEF Rows, IsRow
<1>2. Keeps(plan.restrictions[quals[i].of], row, param) \in BOOLEAN
  BY DEF Keeps
<1> QED BY <1>1, <1>2, QualDecides

\* Whatever the columns, values and restrictions, and through every rescan, each qual of
\* a scan holds of exactly the rows Postgres would keep by its restriction at the value
\* the parameter has, unless Misread lists the restriction.
THEOREM QualsMeanRestrictions == Spec => []QualMeansRestriction
<1>1. Init => QualsOfParam
  BY DEF Init, QualsOfParam
<1> QED BY <1>1, PlanningInvariance, QualsOfParamKept, QualsMean, PTL DEF Spec

-----------------------------------------------------------------------------
(* Path keys.                                                              *)

Names(keys) == {k.name : k \in Range(keys)}

LEMMA NamesCounted ==
    ASSUME NEW keys, keys \in Seq(Range(keys))
    PROVE  /\ IsFiniteSet(Names(keys))
           /\ Cardinality(Names(keys)) \in Nat /\ Len(keys) \in Nat
           /\ Cardinality(Names(keys)) <= Len(keys)
<1> DEFINE f == [i \in 1 .. Len(keys) |-> keys[i].name]
<1>1. Len(keys) \in Nat /\ DOMAIN keys = 1 .. Len(keys)
  OBVIOUS
<1>2. f \in Surjection(1 .. Len(keys), Names(keys))
  BY <1>1 DEF Surjection, Names, Range
<1>3. IsFiniteSet(1 .. Len(keys)) /\ Cardinality(1 .. Len(keys)) = Len(keys)
  BY <1>1, FS_Interval
<1> QED BY <1>1, <1>2, <1>3, FS_Surjection, FS_CardinalityType

\* The slice is large enough only when all key columns are columns, and it is when they
\* are and none is listed twice.
LEMMA SliceFits ==
    ASSUME NEW keys, keys \in Seq(Range(keys)), NEW all, IsFiniteSet(all)
    PROVE  /\ ~SliceOverrun(keys, all) => Names(keys) \subseteq all
           /\ Names(keys) \subseteq all /\ Cardinality(Names(keys)) = Len(keys)
                => ~SliceOverrun(keys, all)
<1>1. removeKeyColumnsFromAllColumns(keys, all) = all \ Names(keys)
  BY DEF removeKeyColumnsFromAllColumns, Names
<1>2. /\ Cardinality(all \ Names(keys)) = Cardinality(all) - Cardinality(all \cap Names(keys))
      /\ Cardinality(all) \in Nat
  BY FS_Difference, FS_CardinalityType
<1>3. /\ IsFiniteSet(all \cap Names(keys))
      /\ Cardinality(all \cap Names(keys)) \in Nat
      /\ Cardinality(all \cap Names(keys)) <= Cardinality(Names(keys))
      /\ Cardinality(Names(keys)) = Cardinality(all \cap Names(keys))
            => Names(keys) = all \cap Names(keys)
  BY NamesCounted, FS_Subset, FS_CardinalityType
<1>4. SliceOverrun(keys, all)
         <=> Cardinality(all) - Cardinality(all \cap Names(keys)) > Cardinality(all) - Len(keys)
  BY <1>1, <1>2 DEF SliceOverrun
<1>5. Names(keys) \subseteq all => all \cap Names(keys) = Names(keys)
  OBVIOUS
<1>6. /\ Cardinality(Names(keys)) \in Nat /\ Len(keys) \in Nat
      /\ Cardinality(Names(keys)) <= Len(keys)
  BY NamesCounted
<1>7. ASSUME ~SliceOverrun(keys, all) PROVE Names(keys) \subseteq all
  <2>1. Cardinality(all \cap Names(keys)) >= Len(keys)
    BY <1>2, <1>3, <1>4, <1>6, <1>7
  <2>2. Cardinality(Names(keys)) = Cardinality(all \cap Names(keys))
    BY <1>3, <1>6, <2>1
  <2> QED BY <1>3, <2>2
<1>8. ASSUME Names(keys) \subseteq all, Cardinality(Names(keys)) = Len(keys)
      PROVE  ~SliceOverrun(keys, all)
  <2>1. Cardinality(all \cap Names(keys)) = Len(keys)
    BY <1>5, <1>8
  <2> QED BY <1>2, <1>4, <1>6, <2>1
<1> QED BY <1>7, <1>8

\* Every path of a key column list holds all required columns and, if there are any-of
\* columns, one of them.
LEMMA ColumnPathsGiveKeys ==
    ASSUME NEW keys, NEW p \in keyColumnsToColumnPath(keys)
    PROVE  /\ p \subseteq Names(keys)
           /\ KeyNames(keys, "required") \subseteq p
           /\ KeyNames(keys, "anyof") = {} \/ KeyNames(keys, "anyof") \cap p # {}
<1>1. \A require \in {"required", "anyof", "optional"} : KeyNames(keys, require) \subseteq Names(keys)
  BY DEF KeyNames, Names
<1>2. \A r \in requiredColumnPaths(keys) :
          /\ r \subseteq Names(keys)
          /\ KeyNames(keys, "required") \subseteq r
          /\ KeyNames(keys, "anyof") = {} \/ KeyNames(keys, "anyof") \cap r # {}
  BY <1>1 DEF requiredColumnPaths
<1>3. CASE requiredColumnPaths(keys) # {}
  BY <1>1, <1>2, <1>3 DEF keyColumnsToColumnPath
<1>4. CASE requiredColumnPaths(keys) = {}
  <2>1. KeyNames(keys, "required") = {} /\ KeyNames(keys, "anyof") = {}
    BY <1>4 DEF requiredColumnPaths
  <2> QED BY <1>1, <1>4, <2>1 DEF keyColumnsToColumnPath
<1> QED BY <1>3, <1>4

\* The schema a query is planned with is one of the plugin's.
LEMMA SchemaIsOne ==
    PInv => \E n \in DOMAIN Schemas : Schema = Schemas[n]
BY PlanningAssumption DEF PInv, PlanOfQuery, Schema, SchemaOf, Connections

\* A legacy set of key columns without paths is the empty one; each path gives the set.
LEMMA LegacyPathsGiveKeys ==
    ASSUME NEW columns, NEW k \in LegacyKeyColumns(columns)
    PROVE  /\ LegacyKeyColumnsToColumnPaths(k) = {} => k = NoColumnSet
           /\ \A p \in LegacyKeyColumnsToColumnPaths(k) : p \subseteq columns /\ p # {} /\ GivesSet(k, p)
           /\ \A given : GivesSet(k, given) =>
                 \E p \in LegacyKeyColumnsToColumnPaths(k) : p \subseteq given
<1>1. ASSUME LegacyKeyColumnsToColumnPaths(k) = {}
      PROVE  k = NoColumnSet
  <2>1. k.single = {} /\ k.any = {} /\ k.all = {}
    BY <1>1 DEF LegacyKeyColumnsToColumnPaths
  <2> QED BY <2>1 DEF LegacyKeyColumns, NoColumnSet
<1>2. k.single \subseteq columns /\ k.any \subseteq columns /\ k.all \subseteq columns
  BY DEF LegacyKeyColumns
<1>3. ASSUME NEW p \in LegacyKeyColumnsToColumnPaths(k)
      PROVE  p \subseteq columns /\ p # {} /\ GivesSet(k, p)
  BY <1>2 DEF LegacyKeyColumnsToColumnPaths, GivesSet
<1>4. ASSUME NEW given, GivesSet(k, given)
      PROVE  \E p \in LegacyKeyColumnsToColumnPaths(k) : p \subseteq given
  <2>1. CASE (k.single \cup k.any) \cap given # {}
    <3>1. PICK c \in k.single \cup k.any : c \in given
      BY <2>1
    <3>2. {c} \in LegacyKeyColumnsToColumnPaths(k) /\ {c} \subseteq given
      BY <3>1 DEF LegacyKeyColumnsToColumnPaths
    <3> QED BY <3>2
  <2>2. CASE k.all # {} /\ k.all \subseteq given
    BY <2>2 DEF LegacyKeyColumnsToColumnPaths
  <2> QED BY <1>4, <2>1, <2>2 DEF GivesSet
<1> QED BY <1>1, <1>3, <1>4

\* More columns give no fewer keys.
LEMMA GivesMore ==
    ASSUME NEW schema, NEW some, NEW given, some \subseteq given, GivesKeys(schema, some)
    PROVE  GivesKeys(schema, given)
<1>1. CASE schema.legacy
  BY <1>1 DEF GivesKeys, GivesSet
<1>2. CASE ~schema.legacy
  BY <1>2 DEF GivesKeys
<1> QED BY <1>1, <1>2

\* Every path key is of columns of the table and gives it the keys it needs.
LEMMA PathKeysGiveKeys ==
    ASSUME NEW n \in DOMAIN Schemas, ~GetPathKeys(Schemas[n]).panics,
           NEW key \in GetPathKeys(Schemas[n]).paths
    PROVE  key.columns \subseteq Schemas[n].columns /\ GivesKeys(Schemas[n], key.columns)
<1> DEFINE schema == Schemas[n]
<1>1. /\ schema.listKeys \in Seq(Range(schema.listKeys))
      /\ IsFiniteSet(schema.columns)
      /\ schema.legacyRequired \in LegacyKeyColumns(schema.columns)
      /\ schema.legacyOptional \in LegacyKeyColumns(schema.columns)
  BY PlanningAssumption
<1> HIDE DEF schema
<1>2. ~GetPathKeys(schema).panics /\ key \in GetPathKeys(schema).paths
  BY DEF schema
<1>3. CASE schema.legacy
  <2> DEFINE required == LegacyKeyColumnsToColumnPaths(schema.legacyRequired)
             columnPaths == IF required = {} THEN LegacyKeyColumnsToColumnPaths(schema.legacyOptional) ELSE required
  <2>1. key \in LegacyKeyColumnsToPathKeys(schema.legacyRequired, schema.legacyOptional, schema.columns)
    BY <1>2, <1>3 DEF GetPathKeys
  <2>2. PICK p \in columnPaths :
            key \in {PathKey(p, keyColumnOnlyCostMultiplier)}
                     \cup {PathKey(p \cup {c}, 1) : c \in schema.columns \ p}
    BY <2>1 DEF LegacyKeyColumnsToPathKeys
  <2>3. p \subseteq key.columns /\ (p \subseteq schema.columns => key.columns \subseteq schema.columns)
    BY <2>2 DEF PathKey
  <2>4. p \subseteq schema.columns
    BY <1>1, LegacyPathsGiveKeys
  <2>5. GivesKeys(schema, p)
    BY <1>1, <1>3, LegacyPathsGiveKeys DEF GivesKeys
  <2> QED BY <2>3, <2>4, <2>5, GivesMore DEF schema
<1>4. CASE ~schema.legacy
  <2> DEFINE keys == schema.listKeys
             others == removeKeyColumnsFromAllColumns(keys, schema.columns)
  <2>1. /\ key \in columnPathsToPathKeys(keyColumnsToColumnPath(keys), others, baseCost(keys))
        /\ ~SliceOverrun(keys, schema.columns)
    BY <1>2, <1>4 DEF GetPathKeys, KeyColumnsToPathKeys, NoKeys
  <2>2. PICK p \in keyColumnsToColumnPath(keys) :
            key.columns = p \/ \E c \in others : key.columns = p \cup {c}
    BY <2>1 DEF columnPathsToPathKeys, PathKey
  <2>3. others \subseteq schema.columns
    BY DEF removeKeyColumnsFromAllColumns
  <2>4. p \subseteq schema.columns
    BY <1>1, <2>1, SliceFits, ColumnPathsGiveKeys
  <2>5. GivesKeys(schema, p)
    BY <1>4, ColumnPathsGiveKeys DEF GivesKeys
  <2>6. p \subseteq key.columns /\ key.columns \subseteq schema.columns
    BY <2>2, <2>3, <2>4
  <2> QED BY <2>5, <2>6, GivesMore DEF schema
<1> QED BY <1>3, <1>4

\* The paths with clauses are those of the path keys that the joins give.
LEMMA PathsOfJoins ==
    ASSUME PInv, phase = "plan"
    PROVE  /\ \A p \in paths : p.clauses # {} =>
                 \E key \in goFdwGetPathKeys(Schema, Columns) :
                     HasPath(key, query.joins) /\ p.clauses = ClausesFor(key, query.joins)
           /\ \A key \in goFdwGetPathKeys(Schema, Columns) :
                 HasPath(key, query.joins) =>
                     \E p \in paths : p.clauses = ClausesFor(key, query.joins)
<1>1. paths = UnsortedPaths \cup (IF Sort.keys = <<>> THEN {} ELSE {SortedPath(p) : p \in UnsortedPaths})
  BY DEF PInv, PathsOfSchema
<1>2. \A u \in UnsortedPaths : SortedPath(u).clauses = u.clauses
  BY DEF UnsortedPaths, SortedPath
<1>3. \A u \in UnsortedPaths : u.clauses # {} =>
          \E key \in goFdwGetPathKeys(Schema, Columns) :
              HasPath(key, query.joins) /\ u.clauses = ClausesFor(key, query.joins)
  BY DEF UnsortedPaths, findPaths
<1>4. \A key \in goFdwGetPathKeys(Schema, Columns) : HasPath(key, query.joins) =>
          \E u \in UnsortedPaths : u.clauses = ClausesFor(key, query.joins)
  <2> SUFFICES ASSUME NEW key \in goFdwGetPathKeys(Schema, Columns), HasPath(key, query.joins)
               PROVE  \E u \in UnsortedPaths : u.clauses = ClausesFor(key, query.joins)
    OBVIOUS
  <2> DEFINE u == [sorted |-> FALSE, private |-> FALSE, clauses |-> ClausesFor(key, query.joins)]
         f == [clauses |-> ClausesFor(key, query.joins), rows |-> key.rows]
  <2>1. f \in findPaths(goFdwGetPathKeys(Schema, Columns), query.joins)
    BY DEF findPaths
  <2>2. u \in UnsortedPaths
    <3>1. u = [sorted |-> FALSE, private |-> FALSE, clauses |-> f.clauses]
      OBVIOUS
    <3> HIDE DEF u, f
    <3> QED BY <2>1, <3>1 DEF UnsortedPaths
  <2>3. u.clauses = ClausesFor(key, query.joins)
    OBVIOUS
  <2> QED BY <2>2, <2>3
<1>5. \A p \in paths : \E u \in UnsortedPaths : p.clauses = u.clauses
  BY <1>1, <1>2
<1>6. UnsortedPaths \subseteq paths
  BY <1>1
<1> QED BY <1>3, <1>4, <1>5, <1>6

\* A parameterised path has a clause for each column of its key.
LEMMA PathClausesGive == PInv => PathsGiveKeys
<1> SUFFICES ASSUME PInv, phase = "plan", Schema.columns = Columns,
                    NEW p \in paths, p.clauses # {}
             PROVE  GivesKeys(Schema, UNION {j.columns : j \in p.clauses})
  BY DEF PathsGiveKeys
<1>1. PICK key \in goFdwGetPathKeys(Schema, Columns) :
          HasPath(key, query.joins) /\ p.clauses = ClausesFor(key, query.joins)
  BY PathsOfJoins
<1>2. PICK k \in GetPathKeys(Schema).paths : key = PathKey(k.columns \cap Columns, k.rows)
  BY DEF goFdwGetPathKeys
<1>3. ~GetPathKeys(Schema).panics
  BY DEF PInv, PathsOfSchema
<1>4. k.columns \subseteq Schema.columns /\ GivesKeys(Schema, k.columns)
  BY <1>3, SchemaIsOne, PathKeysGiveKeys
<1>5. key.columns = k.columns
  BY <1>2, <1>4 DEF PathKey
<1>6. \A c \in key.columns : \E j \in p.clauses : c \in j.columns
  BY <1>1 DEF HasPath, ClausesFor
<1> QED BY <1>4, <1>5, <1>6, GivesMore

\* Any parameterised path of any table gives it the keys it requires.
THEOREM PathsGive == Spec => []PathsGiveKeys
BY PlanningInvariance, PathClausesGive, PTL

-----------------------------------------------------------------------------
(* A path when the keys are given.                                         *)

LEMMA OtherColumnAdded ==
    ASSUME NEW columnPaths, NEW others, NEW cost, NEW p \in columnPaths, NEW c \in others
    PROVE  PathKey(p \cup {c}, cost) \in columnPathsToPathKeys(columnPaths, others, cost)
<1> DEFINE with(q) == {PathKey(q \cup {d}, cost) : d \in others}
<1>1. PathKey(p \cup {c}, cost) \in with(p)
  OBVIOUS
<1>2. columnPathsToPathKeys(columnPaths, others, cost)
          = {PathKey(q, cost * keyColumnOnlyCostMultiplier) : q \in columnPaths}
              \cup UNION {with(q) : q \in columnPaths}
  BY DEF columnPathsToPathKeys
<1> HIDE DEF with
<1> QED BY <1>1, <1>2

\* Of a key column list: if the joins give its keys, then for any given column of the
\* table there is a path key of given columns with it.
LEMMA ColumnKeyWith ==
    ASSUME NEW keys, NEW all, NEW given, NEW c \in all, c \in given,
           \A k \in Range(keys) : k.require \in {"required", "anyof", "optional"},
           KeyNames(keys, "required") \subseteq given,
           KeyNames(keys, "anyof") = {} \/ KeyNames(keys, "anyof") \cap given # {},
           \E k \in Range(keys) : k.name \in given
    PROVE  \E key \in KeyColumnsToPathKeys(keys, all).paths : c \in key.columns /\ key.columns \subseteq given
<1> DEFINE required == KeyNames(keys, "required")
           anyOf == KeyNames(keys, "anyof")
           optional == KeyNames(keys, "optional")
           others == removeKeyColumnsFromAllColumns(keys, all)
           columnPaths == keyColumnsToColumnPath(keys)
<1>1. c \in others \/ c \in required \cup anyOf \cup optional
  BY DEF removeKeyColumnsFromAllColumns, KeyNames
<1>2. SUFFICES \E p \in columnPaths : p \subseteq given /\ (c \in p \/ c \in others)
  <2>1. PICK p \in columnPaths : p \subseteq given /\ (c \in p \/ c \in others)
    BY <1>2
  <2>2. KeyColumnsToPathKeys(keys, all).paths = columnPathsToPathKeys(columnPaths, others, baseCost(keys))
    BY DEF KeyColumnsToPathKeys
  <2> HIDE DEF others, columnPaths
  <2>3. CASE c \in p
    <3> DEFINE key == PathKey(p, baseCost(keys) * keyColumnOnlyCostMultiplier)
    <3>1. key \in KeyColumnsToPathKeys(keys, all).paths
      BY <2>1, <2>2 DEF columnPathsToPathKeys
    <3>2. key.columns = p
      BY DEF PathKey
    <3> HIDE DEF key
    <3> QED BY <2>1, <2>3, <3>1, <3>2
  <2>4. CASE c \in others
    <3> DEFINE key == PathKey(p \cup {c}, baseCost(keys))
    <3>1. key \in columnPathsToPathKeys(columnPaths, others, baseCost(keys))
      BY <2>1, <2>4, OtherColumnAdded
    <3>2. key.columns = p \cup {c}
      BY DEF PathKey
    <3>3. key \in KeyColumnsToPathKeys(keys, all).paths
      BY <2>2, <3>1
    <3> HIDE DEF key
    <3> QED BY <2>1, <3>2, <3>3
  <2> QED BY <2>1, <2>3, <2>4
<1>3. requiredColumnPaths(keys) \subseteq columnPaths
  BY DEF keyColumnsToColumnPath
<1>4. CASE required = {} /\ anyOf = {}
  <2>1. columnPaths = {{o} : o \in optional}
    BY <1>4 DEF keyColumnsToColumnPath, requiredColumnPaths
  <2>2. PICK k \in Range(keys) : k.name \in given
    OBVIOUS
  <2>3. k.name \in optional
    BY <1>4, <2>2 DEF KeyNames
  <2>4. {k.name} \in columnPaths /\ {k.name} \subseteq given
    BY <2>1, <2>2, <2>3
  <2>5. c \in optional => {c} \in columnPaths /\ {c} \subseteq given
    BY <2>1
  <2> HIDE DEF columnPaths, others, optional
  <2> QED BY <1>1, <1>4, <2>4, <2>5
<1>5. CASE required # {} \/ anyOf # {}
  <2>1. PICK p \in requiredColumnPaths(keys) : p \subseteq given
    <3>1. CASE anyOf # {}
      <4>1. PICK a \in anyOf : a \in given
        BY <3>1
      <4>2. required \cup {a} \in requiredColumnPaths(keys)
        BY <4>1 DEF requiredColumnPaths
      <4> QED BY <4>1, <4>2
    <3>2. CASE anyOf = {}
      <4>1. required \in requiredColumnPaths(keys)
        BY <1>5, <3>2 DEF requiredColumnPaths
      <4> QED BY <4>1
    <3> QED BY <3>1, <3>2
  <2>2. required \subseteq p
    BY <2>1 DEF requiredColumnPaths
  <2>3. CASE c \in others \/ c \in required
    BY <1>3, <2>1, <2>2, <2>3
  <2>4. CASE c \in anyOf
    <3>1. required \cup {c} \in requiredColumnPaths(keys)
      BY <2>4 DEF requiredColumnPaths
    <3> QED BY <1>3, <3>1
  <2>5. CASE c \in optional
    <3>1. p \cup {c} \in columnPaths
      BY <2>1, <2>5 DEF keyColumnsToColumnPath
    <3> QED BY <2>1, <3>1
  <2> QED BY <1>1, <2>3, <2>4, <2>5
<1> QED BY <1>4, <1>5

\* The same of the sets of an older plugin.
LEMMA LegacyKeyWith ==
    ASSUME NEW all, NEW required \in LegacyKeyColumns(all), NEW optional \in LegacyKeyColumns(all),
           NEW given, NEW c \in all, c \in given,
           GivesSet(required, given) \/ (required = NoColumnSet /\ GivesSet(optional, given))
    PROVE  \E key \in LegacyKeyColumnsToPathKeys(required, optional, all) :
               c \in key.columns /\ key.columns \subseteq given
<1> DEFINE sets == LegacyKeyColumnsToColumnPaths(required)
           columnPaths == IF sets = {} THEN LegacyKeyColumnsToColumnPaths(optional) ELSE sets
<1>1. \E p \in columnPaths : p \subseteq given
  <2>1. CASE GivesSet(required, given)
    BY <2>1, LegacyPathsGiveKeys
  <2>2. CASE required = NoColumnSet /\ GivesSet(optional, given)
    <3>1. sets = {}
      BY <2>2 DEF LegacyKeyColumnsToColumnPaths, NoColumnSet
    <3> QED BY <2>2, <3>1, LegacyPathsGiveKeys
  <2> QED BY <2>1, <2>2
<1>2. PICK p \in columnPaths : p \subseteq given
  BY <1>1
<1>3. LegacyKeyColumnsToPathKeys(required, optional, all)
          = UNION {{PathKey(q, keyColumnOnlyCostMultiplier)} \cup {PathKey(q \cup {d}, 1) : d \in all \ q} : q \in columnPaths}
  BY DEF LegacyKeyColumnsToPathKeys
<1> HIDE DEF columnPaths
<1>4. CASE c \in p
  <2>1. PathKey(p, keyColumnOnlyCostMultiplier) \in LegacyKeyColumnsToPathKeys(required, optional, all)
    BY <1>3
  <2> QED BY <1>2, <1>4, <2>1 DEF PathKey
<1>5. CASE c \notin p
  <2> DEFINE key == PathKey(p \cup {c}, 1)
             keysOf(q) == {PathKey(q, keyColumnOnlyCostMultiplier)} \cup {PathKey(q \cup {d}, 1) : d \in all \ q}
  <2>1. key \in keysOf(p)
    BY <1>5
  <2>2. key.columns = p \cup {c}
    BY DEF PathKey
  <2>3. LegacyKeyColumnsToPathKeys(required, optional, all) = UNION {keysOf(q) : q \in columnPaths}
    BY <1>3
  <2> HIDE DEF key, keysOf
  <2>4. key \in LegacyKeyColumnsToPathKeys(required, optional, all)
    BY <1>2, <2>1, <2>3
  <2> QED BY <1>2, <2>2, <2>4
<1> QED BY <1>4, <1>5

\* The key with a column of the clause with another table is the key of a path.
LEMMA GivenKeysHavePath == PInv => PathWhenKeysGiven
<1> DEFINE given == UNION {j.columns : j \in query.joins}
<1> SUFFICES ASSUME PInv, phase = "plan", Schema.columns = Columns,
                    GivesKeys(Schema, given), GivesSomeKey(Schema, given),
                    NEW outer \in query.joins, outer.outer
             PROVE  \E p \in paths : p.clauses # {}
  BY DEF PathWhenKeysGiven
<1>1. PICK c \in outer.columns : c \in Columns
  BY PlanningAssumption DEF PInv, PlanOfQuery
<1>2. given \subseteq Columns
  BY PlanningAssumption DEF PInv, PlanOfQuery
<1>3. c \in given
  BY <1>1
<1>4. \E key \in GetPathKeys(Schema).paths : c \in key.columns /\ key.columns \subseteq given
  <2>1. PICK n \in DOMAIN Schemas : Schema = Schemas[n]
    BY SchemaIsOne
  <2> HIDE DEF given
  <2>2. CASE Schema.legacy
    <3>1. GetPathKeys(Schema).paths
              = LegacyKeyColumnsToPathKeys(Schema.legacyRequired, Schema.legacyOptional, Schema.columns)
      BY <2>2 DEF GetPathKeys
    <3>2. /\ Schema.legacyRequired \in LegacyKeyColumns(Schema.columns)
          /\ Schema.legacyOptional \in LegacyKeyColumns(Schema.columns)
      BY <2>1, PlanningAssumption
    <3>3. \/ GivesSet(Schema.legacyRequired, given)
          \/ Schema.legacyRequired = NoColumnSet /\ GivesSet(Schema.legacyOptional, given)
      BY <2>2 DEF GivesSomeKey
    <3> QED BY <1>1, <1>3, <3>1, <3>2, <3>3, LegacyKeyWith
  <2>3. CASE ~Schema.legacy
    <3>1. \E k \in Range(Schema.listKeys) : k.name \in given
      BY <2>3 DEF GivesSomeKey
    <3>2. Schema.listKeys # <<>>
      BY <3>1 DEF Range
    <3>3. GetPathKeys(Schema) = KeyColumnsToPathKeys(Schema.listKeys, Schema.columns)
      BY <2>3, <3>2 DEF GetPathKeys
    <3>4. \A k \in Range(Schema.listKeys) : k.require \in {"required", "anyof", "optional"}
      BY <2>1, PlanningAssumption
    <3>5. /\ KeyNames(Schema.listKeys, "required") \subseteq given
          /\ KeyNames(Schema.listKeys, "anyof") = {} \/ KeyNames(Schema.listKeys, "anyof") \cap given # {}
      BY <2>3 DEF GivesKeys
    <3> QED BY <1>1, <1>3, <3>1, <3>3, <3>4, <3>5, ColumnKeyWith
  <2> QED BY <2>2, <2>3
<1>5. PICK k \in GetPathKeys(Schema).paths : c \in k.columns /\ k.columns \subseteq given
  BY <1>4
<1> DEFINE key == PathKey(k.columns \cap Columns, k.rows)
<1>6. key \in goFdwGetPathKeys(Schema, Columns) /\ key.columns = k.columns
  BY <1>2, <1>5 DEF goFdwGetPathKeys, PathKey
<1>7. outer \in ClausesFor(key, query.joins)
  BY <1>1, <1>5, <1>6 DEF ClausesFor
<1>8. HasPath(key, query.joins)
  BY <1>5, <1>6, <1>7 DEF HasPath
<1> HIDE DEF key
<1>9. \E p \in paths : p.clauses = ClausesFor(key, query.joins)
  BY <1>6, <1>8, PathsOfJoins
<1> QED BY <1>7, <1>9

\* A join that can give a table its keys always has a parameterised path.
THEOREM PathWhenGiven == Spec => []PathWhenKeysGiven
BY PlanningInvariance, GivenKeysHavePath, PTL

\* A schema with proper key columns fits the slice.
LEMMA ProperKeysFit == PInv => PlansProperKeys
<1> SUFFICES ASSUME PInv, phase = "failed",
                    Cardinality(Names(Schema.listKeys)) = Len(Schema.listKeys),
                    Names(Schema.listKeys) \subseteq Schema.columns
             PROVE  FALSE
  BY DEF PlansProperKeys, Names
<1>1. Schema.listKeys \in Seq(Range(Schema.listKeys)) /\ IsFiniteSet(Schema.columns)
  BY SchemaIsOne, PlanningAssumption
<1>2. GetPathKeys(Schema).panics
  BY DEF PInv, PathsOfSchema
<1>3. SliceOverrun(Schema.listKeys, Schema.columns)
  BY <1>2 DEF GetPathKeys, KeyColumnsToPathKeys, NoKeys
<1> QED BY <1>1, <1>3, SliceFits

\* No table whose key columns are columns of it, each listed once, fails to be planned.
THEOREM PlansProper == Spec => []PlansProperKeys
BY PlanningInvariance, ProperKeysFit, PTL

-----------------------------------------------------------------------------
(* The order of rows.                                                      *)

SortKey == [col : Columns, reversed : BOOLEAN, nullsFirst : BOOLEAN, expr : BOOLEAN]

\* The rows of the table.
LEMMA TableRows ==
    ASSUME PInv
    PROVE  /\ DOMAIN Table = 1 .. Len(Table) /\ Len(Table) \in Nat
           /\ IsFiniteSet(DOMAIN Table)
           /\ \A i \in DOMAIN Table : IsRow(Table[i]) /\ Table[i].connection \in Range(Connections)
<1>1. query \in Queries
  BY DEF PInv, PlanOfQuery
<1>2. Table \in Seq(Range(Table))
  BY <1>1, PlanningAssumption DEF Table
<1>3. DOMAIN Table = 1 .. Len(Table) /\ Len(Table) \in Nat
  BY <1>2
<1>4. IsFiniteSet(DOMAIN Table)
  BY <1>3, FS_Interval
<1>5. ASSUME NEW i \in DOMAIN Table
      PROVE  IsRow(Table[i]) /\ Table[i].connection \in Range(Connections)
  <2>1. Table[i] \in Range(Table)
    BY DEF Range
  <2> QED BY <1>1, <2>1, PlanningAssumption DEF Table, Connections, IsRow
<1> QED BY <1>3, <1>4, <1>5

\* One key orders the values.
LEMMA ValuesOrdered ==
    ASSUME NEW key \in SortKey, NEW nullsFirst \in BOOLEAN,
           NEW x \in Int \cup {Null}, NEW y \in Int \cup {Null}, NEW z \in Int \cup {Null}
    PROVE  /\ ~ComesFirst(key, nullsFirst, x, x)
           /\ x = y \/ ComesFirst(key, nullsFirst, x, y) \/ ComesFirst(key, nullsFirst, y, x)
           /\ ComesFirst(key, nullsFirst, x, y) /\ ComesFirst(key, nullsFirst, y, z)
                => ComesFirst(key, nullsFirst, x, z)
<1>1. key.reversed \in BOOLEAN
  BY DEF SortKey
<1> QED BY <1>1 DEF ComesFirst

LEMMA ValuesOfKeys ==
    ASSUME PInv, NEW keys \in Seq(SortKey), NEW i \in DOMAIN Table
    PROVE  /\ DOMAIN KeyValues(keys, i) = DOMAIN keys
           /\ KeyValues(keys, i) = [k \in DOMAIN keys |-> KeyValues(keys, i)[k]]
           /\ \A k \in DOMAIN keys : KeyValues(keys, i)[k] \in Int \cup {Null}
<1>1. IsRow(Table[i])
  BY TableRows
<1>2. ASSUME NEW k \in DOMAIN keys
      PROVE  KeyValue(keys[k], Table[i]) \in Int \cup {Null}
  <2>1. keys[k] \in SortKey
    OBVIOUS
  <2>2. keys[k].col \in Columns
    BY <2>1 DEF SortKey
  <2>3. Table[i][keys[k].col] \in Values \cup {Null}
    BY <1>1, <2>2 DEF IsRow
  <2> DEFINE x == Table[i][keys[k].col]
  <2>4. \/ KeyValue(keys[k], Table[i]) = -x /\ x # Null
        \/ KeyValue(keys[k], Table[i]) = x
    BY DEF KeyValue
  <2>5. x \in Values \cup {Null} /\ Values \subseteq Int
    BY <2>3, ExpressionAssumption
  <2> HIDE DEF x
  <2>6. CASE x = Null
    BY <2>4, <2>6
  <2>7. CASE x \in Int
    <3>1. -x \in Int
      BY <2>7
    <3> QED BY <2>4, <2>7, <3>1
  <2> QED BY <2>5, <2>6, <2>7
<1> QED BY <1>2 DEF KeyValues

\* The keys, and the places of the rows, order the rows.
LEMMA RowsDiffer ==
    ASSUME PInv, NEW keys \in Seq(SortKey), NEW nulls \in [DOMAIN keys -> BOOLEAN],
           NEW i \in DOMAIN Table, NEW j \in DOMAIN Table
    PROVE  i = j \/ Before(keys, nulls, i, j) \/ Before(keys, nulls, j, i)
<1> DEFINE v == KeyValues(keys, i)
           w == KeyValues(keys, j)
<1>1. CASE v = w
  <2>1. i \in Int /\ j \in Int
    BY TableRows
  <2> QED BY <1>1, <2>1 DEF Before
<1>2. CASE v # w
  <2> DEFINE apart == {k \in DOMAIN keys : v[k] # w[k]}
  <2>1. apart # {} /\ apart \subseteq Nat
    <3>1. DOMAIN keys \subseteq Nat
      OBVIOUS
    <3>2. v = [k \in DOMAIN keys |-> v[k]] /\ w = [k \in DOMAIN keys |-> w[k]]
      BY ValuesOfKeys
    <3> HIDE DEF v, w
    <3> QED BY <1>2, <3>1, <3>2
  <2>2. PICK k \in apart : \A l \in apart : k <= l
    BY <2>1, LeastNumber
  <2>3. k \in DOMAIN keys /\ v[k] # w[k] /\ \A l \in 1 .. k - 1 : v[l] = w[l]
    <3>1. \A l \in 1 .. k - 1 : l \in DOMAIN keys /\ ~(k <= l)
      BY <2>1, <2>2
    <3> QED BY <2>2, <3>1
  <2>4. ComesFirst(keys[k], nulls[k], v[k], w[k]) \/ ComesFirst(keys[k], nulls[k], w[k], v[k])
    <3>1. keys[k] \in SortKey /\ nulls[k] \in BOOLEAN
      BY <2>3
    <3>2. v[k] \in Int \cup {Null} /\ w[k] \in Int \cup {Null}
      BY <2>3, ValuesOfKeys
    <3> HIDE DEF v, w
    <3> QED BY <2>3, <3>1, <3>2, ValuesOrdered
  <2>5. Below(keys, nulls, i, j) \/ Below(keys, nulls, j, i)
    BY <2>3, <2>4 DEF Below
  <2> QED BY <2>5 DEF Before
<1> QED BY <1>1, <1>2

LEMMA NotBeforeItself ==
    ASSUME PInv, NEW keys \in Seq(SortKey), NEW nulls \in [DOMAIN keys -> BOOLEAN],
           NEW i \in DOMAIN Table
    PROVE  ~Before(keys, nulls, i, i)
<1>1. \A k \in DOMAIN keys : keys[k] \in SortKey /\ nulls[k] \in BOOLEAN
                              /\ KeyValues(keys, i)[k] \in Int \cup {Null}
  BY ValuesOfKeys
<1>2. ~Below(keys, nulls, i, i)
  <2>1. ASSUME NEW k \in DOMAIN keys
        PROVE  ~ComesFirst(keys[k], nulls[k], KeyValues(keys, i)[k], KeyValues(keys, i)[k])
    <3> DEFINE key == keys[k]
               first == nulls[k]
               x == KeyValues(keys, i)[k]
    <3>1. key \in SortKey /\ first \in BOOLEAN /\ x \in Int \cup {Null}
      BY <1>1
    <3> HIDE DEF key, first, x
    <3>2. ~ComesFirst(key, first, x, x)
      BY <3>1, ValuesOrdered
    <3> QED BY <3>2 DEF key, first, x
  <2> QED BY <2>1 DEF Below
<1>3. ~(i < i)
  BY TableRows
<1> QED BY <1>2, <1>3 DEF Before

LEMMA BeforeFollows ==
    ASSUME PInv, NEW keys \in Seq(SortKey), NEW nulls \in [DOMAIN keys -> BOOLEAN],
           NEW i \in DOMAIN Table, NEW j \in DOMAIN Table, NEW h \in DOMAIN Table,
           Before(keys, nulls, i, j), Before(keys, nulls, j, h)
    PROVE  Before(keys, nulls, i, h)
<1> DEFINE u == KeyValues(keys, i)
           v == KeyValues(keys, j)
           w == KeyValues(keys, h)
<1>1. CASE u = v \/ v = w
  <2>1. i \in Int /\ j \in Int /\ h \in Int
    BY TableRows
  <2> QED BY <1>1, <2>1 DEF Before, Below
<1>2. CASE u # v /\ v # w
  <2>1. Below(keys, nulls, i, j) /\ Below(keys, nulls, j, h)
    BY <1>2 DEF Before
  <2>2. PICK k \in DOMAIN keys : /\ ComesFirst(keys[k], nulls[k], u[k], v[k])
                                 /\ \A l \in 1 .. k - 1 : u[l] = v[l]
    BY <2>1 DEF Below
  <2>3. PICK m \in DOMAIN keys : /\ ComesFirst(keys[m], nulls[m], v[m], w[m])
                                 /\ \A l \in 1 .. m - 1 : v[l] = w[l]
    BY <2>1 DEF Below
  <2>4. \A l \in DOMAIN keys : /\ keys[l] \in SortKey /\ nulls[l] \in BOOLEAN
                               /\ u[l] \in Int \cup {Null} /\ v[l] \in Int \cup {Null}
                               /\ w[l] \in Int \cup {Null}
    BY ValuesOfKeys
  <2>5. DOMAIN keys = 1 .. Len(keys) /\ Len(keys) \in Nat
    OBVIOUS
  <2> HIDE DEF u, v, w
  <2>6. \E n \in DOMAIN keys : /\ ComesFirst(keys[n], nulls[n], u[n], w[n])
                               /\ \A l \in 1 .. n - 1 : u[l] = w[l]
    <3>1. CASE k < m
      <4>1. v[k] = w[k] /\ \A l \in 1 .. k - 1 : v[l] = w[l]
        BY <2>3, <2>5, <3>1
      <4> QED BY <2>2, <4>1
    <3>2. CASE m < k
      <4>1. u[m] = v[m] /\ \A l \in 1 .. m - 1 : u[l] = v[l]
        BY <2>2, <2>5, <3>2
      <4> QED BY <2>3, <4>1
    <3>3. CASE k = m
      <4>1. ComesFirst(keys[k], nulls[k], u[k], w[k])
        <5> DEFINE key == keys[k]
                   first == nulls[k]
                   x == u[k]
                   y == v[k]
                   z == w[k]
        <5>1. /\ key \in SortKey /\ first \in BOOLEAN
              /\ x \in Int \cup {Null} /\ y \in Int \cup {Null} /\ z \in Int \cup {Null}
          BY <2>4
        <5>2. ComesFirst(key, first, x, y) /\ ComesFirst(key, first, y, z)
          BY <2>2, <2>3, <3>3
        <5> HIDE DEF key, first, x, y, z
        <5>3. ComesFirst(key, first, x, z)
          BY <5>1, <5>2, ValuesOrdered
        <5> QED BY <5>3 DEF key, first, x, z
      <4> QED BY <2>2, <2>3, <3>3, <4>1
    <3> QED BY <2>5, <3>1, <3>2, <3>3
  <2> QED BY <2>6 DEF Before, Below, u, w
<1> QED BY <1>1, <1>2

\* The rows ahead of each, among some rows.
Ahead(ids, keys, nulls) == [i \in ids |-> {j \in ids : Before(keys, nulls, j, i)}]

LEMMA RowsInOrder ==
    ASSUME PInv, NEW keys \in Seq(SortKey), NEW nulls \in [DOMAIN keys -> BOOLEAN],
           NEW ids, ids \subseteq DOMAIN Table
    PROVE  /\ IsFiniteSet(ids) /\ InOrder(ids, Ahead(ids, keys, nulls))
           /\ \A i \in ids : Place(ids, keys, nulls, i) = Cardinality(Ahead(ids, keys, nulls)[i])
<1>1. IsFiniteSet(ids)
  BY TableRows, FS_Subset
<1>2. \A i \in ids : Ahead(ids, keys, nulls)[i] = {j \in ids : Before(keys, nulls, j, i)}
  BY DEF Ahead
<1>3. \A i \in ids : Ahead(ids, keys, nulls)[i] \subseteq ids /\ i \notin Ahead(ids, keys, nulls)[i]
  BY <1>2, NotBeforeItself
<1>4. \A i, j \in ids : \/ i = j
                        \/ i \in Ahead(ids, keys, nulls)[j] \/ j \in Ahead(ids, keys, nulls)[i]
  BY <1>2, RowsDiffer
<1>5. ASSUME NEW i \in ids, NEW j \in ids, i \in Ahead(ids, keys, nulls)[j]
      PROVE  Ahead(ids, keys, nulls)[i] \subseteq Ahead(ids, keys, nulls)[j]
  <2>1. Before(keys, nulls, i, j)
    BY <1>2, <1>5
  <2>2. ASSUME NEW h \in ids, Before(keys, nulls, h, i)
        PROVE  Before(keys, nulls, h, j)
    BY <2>1, <2>2, BeforeFollows
  <2> QED BY <1>2, <2>2
<1> QED BY <1>1, <1>2, <1>3, <1>4, <1>5 DEF InOrder, Place

\* SortRows lists each of the rows once, each at its place.
LEMMA SortedRows ==
    ASSUME PInv, NEW keys \in Seq(SortKey), NEW nulls \in [DOMAIN keys -> BOOLEAN],
           NEW ids, ids \subseteq DOMAIN Table
    PROVE  /\ Cardinality(ids) \in Nat
           /\ SortRows(ids, keys, nulls) \in Seq(ids)
           /\ Len(SortRows(ids, keys, nulls)) = Cardinality(ids)
           /\ Range(SortRows(ids, keys, nulls)) = ids
           /\ \A k \in 1 .. Cardinality(ids) :
                 /\ SortRows(ids, keys, nulls)[k] \in ids
                 /\ Place(ids, keys, nulls, SortRows(ids, keys, nulls)[k]) = k - 1
           /\ \A i \in ids :
                 /\ Place(ids, keys, nulls, i) \in 0 .. Cardinality(ids) - 1
                 /\ SortRows(ids, keys, nulls)[Place(ids, keys, nulls, i) + 1] = i
<1> DEFINE n == Cardinality(ids)
           ahead == Ahead(ids, keys, nulls)
           place == [i \in ids |-> Place(ids, keys, nulls, i)]
           list == SortRows(ids, keys, nulls)
<1>1. n \in Nat
  BY RowsInOrder, FS_CardinalityType
<1>2. \A i \in ids : place[i] = Cardinality(ahead[i]) /\ place[i] = Place(ids, keys, nulls, i)
  BY RowsInOrder
<1>3. \A i \in ids : place[i] \in 0 .. n - 1
  <2>1. \A i \in ids : Cardinality(ahead[i]) \in Nat /\ Cardinality(ahead[i]) < n
    BY RowsInOrder, AheadIsLower
  <2> HIDE DEF place, ahead, n
  <2> QED BY <1>1, <1>2, <2>1
<1>4. /\ \A i, j \in ids : place[i] = place[j] => i = j
      /\ \A m \in 0 .. n - 1 : \E i \in ids : place[i] = m
  <2>1. /\ \A i, j \in ids : Cardinality(ahead[i]) = Cardinality(ahead[j]) => i = j
        /\ \A m \in 0 .. n - 1 : \E i \in ids : Cardinality(ahead[i]) = m
    BY RowsInOrder, PlacesFilled
  <2> HIDE DEF place, ahead, n
  <2> QED BY <1>2, <2>1
<1>5. list = [k \in 1 .. n |-> CHOOSE i \in ids : place[i] = k - 1]
  BY DEF SortRows
<1> HIDE DEF place, list, n, ahead
<1>6. \A k \in 1 .. n : list[k] \in ids /\ place[list[k]] = k - 1
  <2> SUFFICES ASSUME NEW k \in 1 .. n PROVE list[k] \in ids /\ place[list[k]] = k - 1
    OBVIOUS
  <2>1. k - 1 \in 0 .. n - 1
    BY <1>1
  <2>2. \E i \in ids : place[i] = k - 1
    BY <1>4, <2>1
  <2> QED BY <1>5, <2>2
<1>7. list \in Seq(ids) /\ Len(list) = n /\ DOMAIN list = 1 .. n
  <2>1. DOMAIN list = 1 .. n /\ list = [k \in 1 .. n |-> list[k]]
    BY <1>5
  <2>2. list \in [1 .. n -> ids]
    BY <1>6, <2>1
  <2> QED BY <1>1, <2>1, <2>2
<1>8. \A i \in ids : place[i] + 1 \in 1 .. n /\ list[place[i] + 1] = i
  <2> SUFFICES ASSUME NEW i \in ids PROVE place[i] + 1 \in 1 .. n /\ list[place[i] + 1] = i
    OBVIOUS
  <2>1. place[i] + 1 \in 1 .. n
    BY <1>1, <1>3
  <2>2. place[list[place[i] + 1]] = place[i]
    BY <1>3, <1>6, <2>1
  <2> QED BY <1>4, <1>6, <2>1, <2>2
<1>9. Range(list) = ids
  BY <1>6, <1>7, <1>8 DEF Range
<1> QED BY <1>1, <1>2, <1>3, <1>6, <1>7, <1>8, <1>9 DEF list, n

\* The places of the rows in the list.
LEMMA SortedPlaces ==
    ASSUME PInv, NEW keys \in Seq(SortKey), NEW nulls \in [DOMAIN keys -> BOOLEAN]
    PROVE  \A ids : ids \subseteq DOMAIN Table =>
              /\ \A k \in 1 .. Cardinality(ids) :
                    /\ SortRows(ids, keys, nulls)[k] \in ids
                    /\ Place(ids, keys, nulls, SortRows(ids, keys, nulls)[k]) = k - 1
              /\ \A i \in ids :
                    /\ Place(ids, keys, nulls, i) \in 0 .. Cardinality(ids) - 1
                    /\ SortRows(ids, keys, nulls)[Place(ids, keys, nulls, i) + 1] = i
BY SortedRows

\* No row of a sorted list sorts below the one before it.
LEMMA SortedAscends ==
    ASSUME PInv, NEW keys \in Seq(SortKey), NEW nulls \in [DOMAIN keys -> BOOLEAN],
           NEW ids, ids \subseteq DOMAIN Table, NEW k \in 1 .. Cardinality(ids) - 1
    PROVE  ~Below(keys, nulls, SortRows(ids, keys, nulls)[k + 1], SortRows(ids, keys, nulls)[k])
<1> DEFINE list == SortRows(ids, keys, nulls)
           x == list[k]
           y == list[k + 1]
<1>1. /\ x \in ids /\ y \in ids
      /\ Place(ids, keys, nulls, x) = k - 1 /\ Place(ids, keys, nulls, y) = k
  <2>1. Cardinality(ids) \in Nat
    BY SortedRows
  <2>2. k \in 1 .. Cardinality(ids) /\ k + 1 \in 1 .. Cardinality(ids)
    BY <2>1
  <2>3. \A m \in 1 .. Cardinality(ids) :
            list[m] \in ids /\ Place(ids, keys, nulls, list[m]) = m - 1
    BY SortedPlaces
  <2> HIDE DEF list
  <2>4. (k + 1) - 1 = k
    OBVIOUS
  <2> QED BY <2>2, <2>3, <2>4
<1> HIDE DEF x, y
<1>2. y \in Ahead(ids, keys, nulls)[x] => Place(ids, keys, nulls, y) < Place(ids, keys, nulls, x)
  BY <1>1, RowsInOrder, AheadIsLower
<1>3. ~Before(keys, nulls, y, x)
  <2>1. ~(k < k - 1)
    OBVIOUS
  <2>2. y \notin Ahead(ids, keys, nulls)[x]
    BY <1>1, <1>2, <2>1
  <2> QED BY <1>1, <2>2 DEF Ahead
<1> QED BY <1>3 DEF Before, x, y

\* Some rows that have the first n of all in order begin with those n when sorted.
LEMMA SortedPrefix ==
    ASSUME PInv, NEW keys \in Seq(SortKey), NEW nulls \in [DOMAIN keys -> BOOLEAN],
           NEW all, all \subseteq DOMAIN Table, NEW some, some \subseteq all, NEW n \in Nat,
           \A i \in all : Place(all, keys, nulls, i) < n => i \in some
    PROVE  /\ MinOf(Cardinality(some), n) = MinOf(Cardinality(all), n)
           /\ \A k \in 1 .. MinOf(Cardinality(all), n) :
                 SortRows(some, keys, nulls)[k] = SortRows(all, keys, nulls)[k]
<1>1. /\ Cardinality(all) \in Nat /\ Cardinality(some) \in Nat
      /\ Cardinality(some) <= Cardinality(all)
  BY RowsInOrder, FS_Subset, FS_CardinalityType
<1>2. ASSUME NEW i \in all, Place(all, keys, nulls, i) < n
      PROVE  i \in some /\ Place(some, keys, nulls, i) = Place(all, keys, nulls, i)
  <2>1. i \in some
    BY <1>2
  <2>2. Ahead(all, keys, nulls)[i] \cap some = Ahead(all, keys, nulls)[i]
    <3> DEFINE ahead == Ahead(all, keys, nulls)
    <3>1. IsFiniteSet(all) /\ InOrder(all, ahead)
      BY RowsInOrder
    <3>2. \A j \in all : Place(all, keys, nulls, j) = Cardinality(ahead[j])
      BY RowsInOrder
    <3>3. \A j \in all : Cardinality(ahead[j]) < n => j \in some
      BY <3>2
    <3>4. Cardinality(ahead[i]) < n
      BY <1>2, <3>2
    <3> HIDE DEF ahead
    <3>5. ahead[i] \cap some = ahead[i]
      BY <3>1, <3>3, <3>4, FirstPlacesKept
    <3> QED BY <3>5 DEF ahead
  <2>3. {j \in some : Before(keys, nulls, j, i)} = {j \in all : Before(keys, nulls, j, i)}
    BY <2>2 DEF Ahead
  <2> QED BY <2>1, <2>3 DEF Place
<1>3. ASSUME NEW k \in 1 .. Cardinality(all), k <= n
      PROVE  /\ k <= Cardinality(some)
             /\ SortRows(some, keys, nulls)[k] = SortRows(all, keys, nulls)[k]
  <2> DEFINE i == SortRows(all, keys, nulls)[k]
  <2>1. i \in all /\ Place(all, keys, nulls, i) = k - 1
    BY SortedRows
  <2> HIDE DEF i
  <2>2. i \in some /\ Place(some, keys, nulls, i) = k - 1
    BY <1>2, <1>3, <2>1
  <2>3. /\ k - 1 \in 0 .. Cardinality(some) - 1
        /\ SortRows(some, keys, nulls)[(k - 1) + 1] = i
    <3>1. some \subseteq DOMAIN Table
      OBVIOUS
    <3>2. \A j \in some :
             /\ Place(some, keys, nulls, j) \in 0 .. Cardinality(some) - 1
             /\ SortRows(some, keys, nulls)[Place(some, keys, nulls, j) + 1] = j
      BY <3>1, SortedPlaces
    <3> QED BY <2>2, <3>2
  <2>4. (k - 1) + 1 = k
    OBVIOUS
  <2> QED BY <1>1, <2>3, <2>4 DEF i
<1>4. MinOf(Cardinality(some), n) = MinOf(Cardinality(all), n)
  <2>1. CASE Cardinality(all) <= n
    <3>1. CASE Cardinality(all) = 0
      BY <1>1, <3>1 DEF MinOf
    <3>2. CASE Cardinality(all) # 0
      <4>1. Cardinality(all) <= Cardinality(some)
        BY <1>1, <1>3, <2>1, <3>2
      <4> QED BY <1>1, <4>1 DEF MinOf
    <3> QED BY <3>1, <3>2
  <2>2. CASE n < Cardinality(all)
    <3>1. CASE n = 0
      BY <1>1, <3>1 DEF MinOf
    <3>2. CASE n # 0
      <4>1. n <= Cardinality(some)
        BY <1>1, <1>3, <2>2, <3>2
      <4> QED BY <1>1, <2>2, <4>1 DEF MinOf
    <3> QED BY <3>1, <3>2
  <2> QED BY <1>1, <2>1, <2>2
<1>5. \A k \in 1 .. MinOf(Cardinality(all), n) : k \in 1 .. Cardinality(all) /\ k <= n
  BY <1>1 DEF MinOf
<1> QED BY <1>3, <1>4, <1>5

-----------------------------------------------------------------------------
(* The answer.                                                             *)

\* The limit of the query, and the sort keys of the path the planner took.
PlanOfPath ==
    /\ phase # "relsize" => planLimit = deparseLimit(query)
    /\ phase \in {"begin", "convert", "execute", "done"} =>
          \/ plan.keys = Sort.keys /\ plan.all = Sort.all /\ (plan.sorted => plan.keys # <<>>)
          \/ ~plan.sorted /\ plan.keys = <<>> /\ plan.all = TRUE /\ query.joins # {}

\* The rows Postgres received, when the plugin applied some quals more.
AppliedWith(extra) == [c \in Range(Connections) |-> Applied(SchemaOf(c)) \cup extra[c]]
RowsReceived(extra) ==
    SortRows({i \in Streamed(AppliedWith(extra)) : Kept(i)}, plan.keys, PluginNulls(plan.keys))
ReceivedOfPlan ==
    phase = "done" =>
        \E extra \in [Range(Connections) -> SUBSET Range(QualList)] : received = RowsReceived(extra)

\* The inductive invariant of the answer.
AInv == PInv /\ QualsOfParam /\ PlanOfPath /\ ReceivedOfPlan

LEMMA PlanOfPathKept == PInv /\ PlanOfPath /\ [Next]_vars => PlanOfPath'
<1> SUFFICES ASSUME PInv, PlanOfPath, [Next]_vars PROVE PlanOfPath'
  OBVIOUS
<1>1. CASE /\ UNCHANGED <<query, planLimit, plan>>
           /\ phase # "relsize" \/ phase' = "relsize"
           /\ \/ phase \in {"begin", "convert", "execute", "done"}
              \/ phase' \notin {"begin", "convert", "execute", "done"}
  BY <1>1 DEF PlanOfPath, Sort, Schema, SchemaOf, Connections
<1>2. CASE GetForeignRelSize
  BY <1>2 DEF GetForeignRelSize, PlanOfPath
<1>3. CASE GetForeignPlan
  <2>1. phase = "plan" /\ phase' = "begin" /\ query' = query /\ planLimit' = planLimit
    BY <1>3 DEF GetForeignPlan
  <2>2. PICK path \in paths :
            /\ plan'.sorted = path.sorted
            /\ plan'.keys = IF path.private THEN Sort.keys ELSE <<>>
            /\ plan'.all = (path.private => Sort.all)
    BY <1>3 DEF GetForeignPlan
  <2>3. paths = UnsortedPaths \cup (IF Sort.keys = <<>> THEN {} ELSE {SortedPath(p) : p \in UnsortedPaths})
    BY <2>1 DEF PInv, PathsOfSchema
  <2>4. \A p \in UnsortedPaths :
            /\ p.sorted = FALSE /\ p.private \in BOOLEAN
            /\ ~p.private => query.joins # {}
            /\ SortedPath(p).sorted = TRUE /\ SortedPath(p).private = TRUE
    <3>1. \A k : HasPath(k, query.joins) => query.joins # {}
      BY DEF HasPath, ClausesFor
    <3>2. ASSUME NEW p \in UnsortedPaths
          PROVE  \E clauses : \/ p = [sorted |-> FALSE, private |-> TRUE, clauses |-> clauses]
                              \/ /\ p = [sorted |-> FALSE, private |-> FALSE, clauses |-> clauses]
                                 /\ query.joins # {}
      <4>1. CASE p = [sorted |-> FALSE, private |-> TRUE, clauses |-> {}]
        BY <4>1
      <4>2. CASE \E f \in findPaths(goFdwGetPathKeys(Schema, Columns), query.joins) :
                    p = [sorted |-> FALSE, private |-> FALSE, clauses |-> f.clauses]
        <5>1. findPaths(goFdwGetPathKeys(Schema, Columns), query.joins) # {} => query.joins # {}
          BY <3>1 DEF findPaths
        <5> QED BY <4>2, <5>1
      <4> QED BY <4>1, <4>2 DEF UnsortedPaths
    <3> SUFFICES ASSUME NEW p \in UnsortedPaths
                 PROVE  /\ p.sorted = FALSE /\ p.private \in BOOLEAN
                        /\ ~p.private => query.joins # {}
                        /\ SortedPath(p).sorted = TRUE /\ SortedPath(p).private = TRUE
      OBVIOUS
    <3>3. PICK clauses : \/ p = [sorted |-> FALSE, private |-> TRUE, clauses |-> clauses]
                         \/ /\ p = [sorted |-> FALSE, private |-> FALSE, clauses |-> clauses]
                            /\ query.joins # {}
      BY <3>2
    <3>4. CASE p = [sorted |-> FALSE, private |-> TRUE, clauses |-> clauses]
      BY <3>4 DEF SortedPath
    <3>5. CASE /\ p = [sorted |-> FALSE, private |-> FALSE, clauses |-> clauses]
               /\ query.joins # {}
      BY <3>5 DEF SortedPath
    <3> QED BY <3>3, <3>4, <3>5
  <2>5. Sort.all \in BOOLEAN
    BY DEF Sort, SortPushdown, computeDeparsedSortGroup
  <2>6. Sort' = Sort
    BY <2>1 DEF Sort, Schema, SchemaOf, Connections
  <2>7. \/ plan'.keys = Sort.keys /\ plan'.all = Sort.all /\ (plan'.sorted => plan'.keys # <<>>)
        \/ ~plan'.sorted /\ plan'.keys = <<>> /\ plan'.all = TRUE /\ query.joins # {}
    <3>1. CASE path \in UnsortedPaths
      BY <2>2, <2>4, <2>5, <3>1
    <3>2. CASE path \notin UnsortedPaths
      <4>1. Sort.keys # <<>> /\ \E p \in UnsortedPaths : path = SortedPath(p)
        BY <2>3, <3>2
      <4> QED BY <2>2, <2>4, <2>5, <4>1
    <3> QED BY <3>1, <3>2
  <2> QED BY <2>1, <2>6, <2>7 DEF PlanOfPath
<1>4. CASE \/ GetForeignPaths \/ GetForeignPathsFails \/ BeginForeignScan \/ ConvertRestriction
           \/ ConversionPanics \/ GetIterator \/ IterateForeignScan \/ ReScanForeignScan
           \/ EndForeignScan
  BY <1>1, <1>4 DEF GetForeignPaths, GetForeignPathsFails, BeginForeignScan, ConvertRestriction,
       ConversionPanics, GetIterator, IterateForeignScan, ReScanForeignScan, EndForeignScan, planVars
<1>5. CASE Over \/ UNCHANGED vars
  BY <1>1, <1>5 DEF Over, vars, planVars
<1> QED BY <1>2, <1>3, <1>4, <1>5 DEF Next

\* What the received rows are made of stays, while the plan, the quals and the limits do.
LEMMA ReceivedFrame ==
    ASSUME UNCHANGED <<query, plan, quals, param, limits>>, NEW extra
    PROVE  /\ RowsReceived(extra)' = RowsReceived(extra)
           /\ Range(Connections)' = Range(Connections) /\ Range(QualList)' = Range(QualList)
<1>1. Table' = Table /\ Range(Connections)' = Range(Connections) /\ Range(QualList)' = Range(QualList)
  BY DEF Table, Connections, QualList
<1>2. \A c : SchemaOf(c)' = SchemaOf(c)
  BY DEF SchemaOf
<1>3. \A schema : Applied(schema)' = Applied(schema)
  BY <1>1 DEF Applied, AppliedKeys, GetUsable
<1>4. \A keys, i : KeyValues(keys, i)' = KeyValues(keys, i)
  BY <1>1 DEF KeyValues
<1>5. \A keys, nulls, i, j : Before(keys, nulls, i, j)' <=> Before(keys, nulls, i, j)
  BY <1>4 DEF Before, Below
<1>6. \A ids, keys, nulls, i : Place(ids, keys, nulls, i)' = Place(ids, keys, nulls, i)
  BY <1>5 DEF Place
<1>7. \A ids, keys, nulls : SortRows(ids, keys, nulls)' = SortRows(ids, keys, nulls)
  BY <1>6 DEF SortRows
<1>8. \A i : Kept(i)' <=> Kept(i)
  BY <1>1 DEF Kept
<1>9. AppliedWith(extra)' = AppliedWith(extra)
  BY <1>1, <1>2, <1>3 DEF AppliedWith
<1>10. \A ids, keys, limit : FirstOf(ids, keys, limit)' = FirstOf(ids, keys, limit)
  BY <1>6 DEF FirstOf, PluginNulls, getSortColumns
<1>11. \A c, applied : SentBy(c, applied)' = SentBy(c, applied)
  BY <1>1, <1>10 DEF SentBy
<1>12. \A applied : Streamed(applied)' = Streamed(applied)
  BY <1>1, <1>11 DEF Streamed
<1> QED BY <1>1, <1>7, <1>8, <1>9, <1>12 DEF RowsReceived, PluginNulls, getSortColumns

LEMMA ReceivedOfPlanKept == PInv /\ ReceivedOfPlan /\ [Next]_vars => ReceivedOfPlan'
<1> SUFFICES ASSUME ReceivedOfPlan, [Next]_vars, phase' = "done" PROVE ReceivedOfPlan'
  BY DEF ReceivedOfPlan
<1>1. ASSUME NEW extra \in [Range(Connections) -> SUBSET Range(QualList)],
             received' = RowsReceived(extra), UNCHANGED <<query, plan, quals, param, limits>>
      PROVE  ReceivedOfPlan'
  BY <1>1, ReceivedFrame DEF ReceivedOfPlan
<1>2. CASE IterateForeignScan
  <2>1. PICK extra \in [Range(Connections) -> SUBSET Range(QualList)] : received' = RowsReceived(extra)
    BY <1>2 DEF IterateForeignScan, RowsReceived, AppliedWith
  <2>2. UNCHANGED <<query, plan, quals, param, limits>>
    BY <1>2 DEF IterateForeignScan, planVars, qualVars
  <2> QED BY <1>1, <2>1, <2>2
<1>3. CASE UNCHANGED vars
  <2>1. UNCHANGED <<query, plan, quals, param, limits>> /\ received' = received /\ phase' = phase
    BY <1>3 DEF vars, planVars, qualVars
  <2> QED BY <1>1, <2>1 DEF ReceivedOfPlan
<1>4. CASE Over
  BY <1>3, <1>4 DEF Over
<1> QED BY <1>2, <1>3, <1>4
        DEF Next, GetForeignRelSize, GetForeignPaths, GetForeignPathsFails, GetForeignPlan,
            BeginForeignScan, ConvertRestriction, ConversionPanics, GetIterator,
            ReScanForeignScan, EndForeignScan

THEOREM AnswerInvariance == Spec => []AInv
<1>1. Init => AInv
  BY InitImpliesPInv DEF Init, AInv, QualsOfParam, PlanOfPath, ReceivedOfPlan
<1>2. AInv /\ PInv' /\ [Next]_vars => AInv'
  BY QualsOfParamKept, PlanOfPathKept, ReceivedOfPlanKept DEF AInv
<1> QED BY <1>1, <1>2, PlanningInvariance, PTL DEF Spec

\* Every connection has the same limit: none, or that of the query when no sort key is
\* left to Postgres.
LEMMA OneLimit ==
    ASSUME PInv, phase \in {"execute", "done"}
    PROVE  \/ \A c \in Range(Connections) : limits[c] = NoLimit
           \/ /\ plan.all /\ planLimit # NoLimit
              /\ \A c \in Range(Connections) : c \in DOMAIN limits /\ limits[c] = planLimit
<1> DEFINE schemas == [d \in Range(Connections) |-> SchemaOf(d)]
           limit == BeginLimit(planLimit, plan.all)
           qualMap == buildQualMap(QualList)
           first == schemas[Connections[1]]
<1>1. limits = buildConnectionLimitMap(Connections, schemas, qualMap, unhandled, limit)
  BY DEF PInv, LimitsOfAccount
<1>2. limit = NoLimit \/ (plan.all /\ limit = planLimit)
  BY DEF BeginLimit
<1> HIDE DEF schemas, limit, qualMap
<1>3. limits = [d \in Range(Connections) |->
                   IF first.mode \in {"static", "dynamic"} /\ ~shouldPushdownLimit(first, qualMap, unhandled)
                   THEN NoLimit ELSE limit]
  BY <1>1 DEF buildConnectionLimitMap
<1> QED BY <1>2, <1>3

\* The sort keys that are pushed down begin the order asked for; they are that order when
\* none is left to Postgres, and no expression has emptied them.
LEMMA KeysOfOrder ==
    ASSUME PInv
    PROVE  /\ query.order \in Seq(SortKey) /\ Sort.keys \in Seq(SortKey)
           /\ Sort.all /\ (Sort.keys # <<>> \/ ~ExpressionGap) => Sort.keys = query.order
<1> DEFINE order == query.order
           deparsed == deparse_sortgroup(order)
           sortable == Schema.sortable
           all == {m \in 1 .. Len(deparsed) : \A i \in 1 .. m : CanSort(deparsed[i], sortable)}
           n == Cardinality(all)
<1>1. order \in Seq(SortKey)
  BY PlanningAssumption DEF PInv, PlanOfQuery, SortKey
<1>2. deparsed = order \/ (deparsed = <<>> /\ ExpressionGap)
  BY DEF deparse_sortgroup, ExpressionGap
<1> HIDE DEF order, deparsed
<1>3. deparsed \in Seq(SortKey) /\ Len(deparsed) \in Nat
  <2>1. CASE deparsed = order
    BY <1>1, <2>1
  <2>2. CASE deparsed = <<>>
    BY <2>2
  <2> QED BY <1>2, <2>1, <2>2
<1>4. n \in 0 .. Len(deparsed)
  <2>1. IsFiniteSet(1 .. Len(deparsed)) /\ Cardinality(1 .. Len(deparsed)) = Len(deparsed)
    BY <1>3, FS_Interval
  <2>2. all \subseteq 1 .. Len(deparsed)
    OBVIOUS
  <2> HIDE DEF all
  <2>3. IsFiniteSet(all) /\ Cardinality(all) <= Cardinality(1 .. Len(deparsed))
    BY <2>1, <2>2, FS_Subset
  <2>4. Cardinality(all) \in Nat
    BY <2>3, FS_CardinalityType
  <2> QED BY <1>3, <2>1, <2>3, <2>4
<1> DEFINE keys == SubSeq(deparsed, 1, n)
<1>5. goFdwCanSort(deparsed, sortable) = keys
  BY DEF goFdwCanSort
<1>6. \/ deparsed = <<>> /\ Sort.keys = <<>>
      \/ deparsed # <<>> /\ Sort.keys = keys /\ Sort.all = (Len(keys) = Len(deparsed))
  BY <1>5 DEF Sort, SortPushdown, computeDeparsedSortGroup, deparsed, order
<1> HIDE DEF n
<1>7. keys \in Seq(SortKey) /\ Len(keys) = n
  <2>1. \A i \in 1 .. n : deparsed[i] \in SortKey
    BY <1>3, <1>4
  <2>2. n \in Int
    BY <1>4
  <2>3. keys \in Seq(SortKey) /\ Len(keys) = IF 1 <= n THEN n - 1 + 1 ELSE 0
    BY <2>1, <2>2, SubSeqProperties
  <2> QED BY <1>4, <2>3
<1>8. n = Len(deparsed) => keys = deparsed
  BY <1>3, SubSeqFull
<1> HIDE DEF keys
<1>9. Sort.keys \in Seq(SortKey)
  <2>1. CASE Sort.keys = <<>>
    BY <2>1
  <2> QED BY <1>6, <1>7, <2>1
<1>10. Sort.all /\ (Sort.keys # <<>> \/ ~ExpressionGap) => Sort.keys = order
  BY <1>2, <1>6, <1>7, <1>8
<1> QED BY <1>1, <1>9, <1>10 DEF order

LEMMA PlanKeys ==
    ASSUME AInv, phase \in {"execute", "done"}
    PROVE  /\ plan.keys \in Seq(SortKey)
           /\ PluginNulls(plan.keys) \in [DOMAIN plan.keys -> BOOLEAN]
           /\ PostgresNulls(plan.keys) \in [DOMAIN plan.keys -> BOOLEAN]
           /\ ~NullsGap /\ (plan.sorted \/ planLimit # NoLimit) =>
                 PluginNulls(plan.keys) = PostgresNulls(plan.keys)
<1>1. plan.keys \in Seq(SortKey)
  <2>1. plan.keys = Sort.keys \/ plan.keys = <<>>
    BY DEF AInv, PlanOfPath
  <2>2. Sort.keys \in Seq(SortKey)
    BY KeysOfOrder DEF AInv
  <2>3. CASE plan.keys = <<>>
    BY <2>3
  <2> QED BY <2>1, <2>2, <2>3
<1>2. \A k \in DOMAIN plan.keys : plan.keys[k].reversed \in BOOLEAN /\ plan.keys[k].nullsFirst \in BOOLEAN
  <2>1. \A k \in DOMAIN plan.keys : plan.keys[k] \in SortKey
    BY <1>1
  <2> QED BY <2>1 DEF SortKey
<1>3. \A k \in DOMAIN plan.keys : PluginNulls(plan.keys)[k] = plan.keys[k].reversed
  BY <1>2 DEF PluginNulls, getSortColumns, RequiredOrder
<1>4. PluginNulls(plan.keys) = [k \in DOMAIN plan.keys |-> plan.keys[k].reversed]
  BY <1>3 DEF PluginNulls
<1> QED BY <1>1, <1>2, <1>4 DEF PostgresNulls, NullsGap

\* A row that is kept meets the quals, and where every restriction became a qual, a row
\* that meets them is kept.
LEMMA QualsOfKept ==
    ASSUME AInv, phase \in {"execute", "done"}, ~MisreadGap, NEW i \in DOMAIN Table
    PROVE  /\ Kept(i) => \A q \in Range(QualList) : QualHolds(q, Table[i])
           /\ /\ Converted = DOMAIN plan.restrictions
              /\ \A q \in Range(QualList) : QualHolds(q, Table[i])
              => Kept(i)
<1>1. IsRow(Table[i])
  BY TableRows DEF AInv
<1>2. ASSUME NEW j \in DOMAIN quals
      PROVE  /\ quals[j].of \in DOMAIN plan.restrictions
             /\ QualHolds(quals[j].qual, Table[i])
                  <=> Keeps(plan.restrictions[quals[j].of], Table[i], param)
  <2>1. quals[j].of \in DOMAIN plan.restrictions
    BY DEF AInv, QualsOfParam
  <2>2. ~Misread(plan.restrictions[quals[j].of])
    BY <2>1 DEF MisreadGap, Range
  <2> QED BY <1>1, <2>1, <2>2, QualMeans DEF AInv
<1>3. Range(QualList) = {quals[j].qual : j \in DOMAIN quals}
  BY DEF QualList, Range
<1>4. Kept(i) <=> \A d \in DOMAIN plan.restrictions : Keeps(plan.restrictions[d], Table[i], param)
  BY DEF Kept, Range
<1> QED BY <1>2, <1>3, <1>4 DEF Converted

\* An int that does not overflow is itself.
LEMMA IntStays ==
    ASSUME NEW n \in 0 .. MaxInt
    PROVE  ToInt(n) = n
<1>1. MaxInt \in Nat
  BY LimitAssumption
<1>2. \A a, b \in Nat : a < b => a % b = a
  OBVIOUS
<1>3. n + MaxInt + 1 \in Nat /\ 2 * (MaxInt + 1) \in Nat /\ n + MaxInt + 1 < 2 * (MaxInt + 1)
  BY <1>1
<1>4. (n + MaxInt + 1) % (2 * (MaxInt + 1)) = n + MaxInt + 1
  BY <1>2, <1>3
<1> QED BY <1>1, <1>4 DEF ToInt

\* A limit that is pushed down is the number of rows LIMIT and OFFSET ask for.
LEMMA LimitCounts ==
    ASSUME AInv, phase = "done", planLimit # NoLimit, ~LimitGap
    PROVE  /\ query.shape \notin {"grouped", "distinct", "aggregate", "join", "window", "ties"}
           /\ LimitOf \in Nat /\ OffsetOf \in Nat /\ planLimit = OffsetOf + LimitOf
<1> DEFINE l == query.limit.value
           o == query.offset.value
<1>1. l \in Nat /\ o \in Nat /\ MaxInt \in Nat
  BY PlanningAssumption, LimitAssumption DEF AInv, PInv, PlanOfQuery
<1>2. planLimit = deparseLimit(query)
  BY DEF AInv, PlanOfPath
<1>3. /\ query.shape \notin {"grouped", "distinct", "aggregate", "join"} /\ query.limit.kind = "const"
      /\ planLimit = ToInt(ToInt(l) + OffsetVal(query.offset))
  BY <1>2 DEF deparseLimit
<1>4. query.shape \notin {"window", "ties"} /\ query.offset.kind # "param" /\ ~(LimitOf + OffsetOf > MaxInt)
  BY DEF LimitGap, ShapeGap, OffsetGap, OverflowGap
<1>5. LimitOf = l
  BY <1>3 DEF LimitOf
<1>6. OffsetOf = (IF query.offset.kind = "const" THEN o ELSE 0) /\ OffsetOf \in Nat
  BY <1>1, <1>4 DEF OffsetOf
<1> HIDE DEF l, o
<1>7. l \in 0 .. MaxInt /\ l + OffsetOf \in 0 .. MaxInt /\ OffsetOf \in 0 .. MaxInt
  BY <1>1, <1>4, <1>5, <1>6
<1>8. OffsetVal(query.offset) = OffsetOf
  <2>1. CASE query.offset.kind = "const"
    <3>1. OffsetOf = o /\ ToInt(OffsetOf) = OffsetOf
      BY <1>6, <1>7, <2>1, IntStays
    <3> QED BY <2>1, <3>1 DEF OffsetVal, o
  <2>2. CASE query.offset.kind # "const"
    BY <1>6, <2>2 DEF OffsetVal
  <2> QED BY <2>1, <2>2
<1>9. planLimit = l + OffsetOf
  BY <1>3, <1>7, <1>8, IntStays
<1> QED BY <1>1, <1>3, <1>4, <1>5, <1>6, <1>9

\* The rows the query is about, and those of them Postgres received.
Wanted == {i \in DOMAIN Table : Kept(i)}
Got(extra) == {i \in Streamed(AppliedWith(extra)) : Kept(i)}

LEMMA GotIsWanted ==
    ASSUME NEW extra
    PROVE  Got(extra) \subseteq Wanted /\ Wanted \subseteq DOMAIN Table
BY DEF Got, Wanted, Streamed, SentBy, FirstOf

\* Without a limit all rows that are wanted come.
LEMMA AllRowsCome ==
    ASSUME AInv, phase = "done", ~MisreadGap,
           NEW extra \in [Range(Connections) -> SUBSET Range(QualList)],
           \A c \in Range(Connections) : limits[c] = NoLimit
    PROVE  Got(extra) = Wanted
<1> DEFINE applied == AppliedWith(extra)
<1> SUFFICES ASSUME NEW i \in Wanted PROVE i \in Streamed(applied)
  BY GotIsWanted DEF Got, Wanted
<1> DEFINE c == Table[i].connection
<1>1. i \in DOMAIN Table /\ Kept(i)
  BY DEF Wanted
<1>2. c \in Range(Connections)
  BY <1>1, TableRows DEF AInv
<1>3. applied[c] \subseteq Range(QualList)
  BY <1>2 DEF AppliedWith, Applied
<1>4. \A q \in applied[c] : QualHolds(q, Table[i])
  BY <1>1, <1>3, QualsOfKept
<1> HIDE DEF applied
<1>5. i \in SentBy(c, applied[c])
  BY <1>1, <1>2, <1>4 DEF SentBy, FirstOf
<1> QED BY <1>2, <1>5 DEF Streamed

\* Where a limit is pushed down every plugin applies all quals and every restriction is one,
\* so that each connection's first rows are among them all the rows of the limit.
LEMMA FirstRowsCome ==
    ASSUME AInv, phase = "done", ~KnownGap,
           NEW extra \in [Range(Connections) -> SUBSET Range(QualList)],
           planLimit # NoLimit,
           \A c \in Range(Connections) : c \in DOMAIN limits /\ limits[c] = planLimit
    PROVE  \A i \in Wanted :
              Place(Wanted, plan.keys, PluginNulls(plan.keys), i) < planLimit => i \in Got(extra)
<1> DEFINE applied == AppliedWith(extra)
           keys == plan.keys
           nulls == PluginNulls(plan.keys)
<1> SUFFICES ASSUME NEW i \in Wanted, Place(Wanted, keys, nulls, i) < planLimit
             PROVE  i \in Streamed(applied)
  BY GotIsWanted DEF Got, Wanted
<1> DEFINE c == Table[i].connection
           sent == {j \in DOMAIN Table : Table[j].connection = c /\ \A q \in applied[c] : QualHolds(q, Table[j])}
<1>1. i \in DOMAIN Table /\ Kept(i)
  BY DEF Wanted
<1>2. c \in Range(Connections)
  BY <1>1, TableRows DEF AInv
<1>3. /\ ~MisreadGap /\ ~panicked /\ Schema.mode \in {"static", "dynamic"}
      /\ SchemaOf(c) = Schema /\ \A k \in Range(Schema.getKeys) : k \in Range(Schema.listKeys)
  BY <1>2 DEF KnownGap, LimitGap, ModeGap, SchemaGap, GetKeyGap
<1>4. /\ Converted = DOMAIN plan.restrictions
      /\ \A q \in Range(QualList) :
            \E k \in Range(Schema.listKeys) \cup Range(Schema.getKeys) :
                k.name = q.field /\ q.operator \in k.operators
  BY <1>2, <1>3, LimitNeedsQuals DEF AInv, NoLimitWithUnconverted
<1>5. applied[c] = Range(QualList)
  <2>1. applied[c] = Applied(SchemaOf(c)) \cup extra[c] /\ extra[c] \subseteq Range(QualList)
    BY <1>2 DEF AppliedWith
  <2>2. \A q \in Range(QualList) : q \in Applied(Schema)
    BY <1>3, <1>4 DEF Applied, AppliedKeys
  <2>3. Applied(SchemaOf(c)) \subseteq Range(QualList)
    BY DEF Applied
  <2> QED BY <1>3, <2>1, <2>2, <2>3
<1> HIDE DEF applied, c
<1>6. i \in sent /\ sent \subseteq Wanted
  <2>1. \A j \in DOMAIN Table : Kept(j) <=> \A q \in applied[c] : QualHolds(q, Table[j])
    BY <1>3, <1>4, <1>5, QualsOfKept
  <2> QED BY <1>1, <2>1 DEF Wanted, c
<1> HIDE DEF sent
<1>7. Place(sent, keys, nulls, i) < planLimit
  <2> DEFINE ahead == {j \in Wanted : Before(keys, nulls, j, i)}
             aheadSent == {j \in sent : Before(keys, nulls, j, i)}
  <2>1. IsFiniteSet(ahead) /\ aheadSent \subseteq ahead
    BY <1>6, TableRows, GotIsWanted, FS_Subset DEF AInv
  <2>2. Cardinality(ahead) < planLimit
    BY DEF Place
  <2> HIDE DEF ahead, aheadSent
  <2>3. IsFiniteSet(aheadSent) /\ Cardinality(aheadSent) <= Cardinality(ahead)
    BY <2>1, FS_Subset
  <2>4. Cardinality(aheadSent) \in Nat /\ Cardinality(ahead) \in Nat
    BY <2>1, <2>3, FS_CardinalityType
  <2>5. planLimit \in Int
    BY LimitAssumption DEF AInv, PInv, TypeOK
  <2>6. Cardinality(aheadSent) < planLimit
    BY <2>2, <2>3, <2>4, <2>5
  <2> QED BY <2>6 DEF Place, aheadSent
<1>8. i \in SentBy(c, applied[c])
  BY <1>2, <1>6, <1>7 DEF SentBy, FirstOf, sent
<1> QED BY <1>2, <1>8 DEF Streamed

\* A range of two lists that agree up to its end is the same.
LEMMA SameRange ==
    ASSUME NEW S, NEW s \in Seq(S), NEW t \in Seq(S), NEW m \in Nat, NEW n \in Nat,
           MinOf(Len(s), n) = MinOf(Len(t), n),
           \A k \in 1 .. MinOf(Len(t), n) : s[k] = t[k]
    PROVE  SubSeq(s, m + 1, MinOf(Len(s), n)) = SubSeq(t, m + 1, MinOf(Len(t), n))
<1> DEFINE e == MinOf(Len(t), n)
<1>1. e \in Nat /\ e <= Len(s) /\ e <= Len(t) /\ MinOf(Len(s), n) = e
  BY DEF MinOf
<1>2. \A k \in 1 .. e : s[k] = t[k]
  OBVIOUS
<1> HIDE DEF e
<1>3. \A k \in m + 1 .. e : s[k] = t[k] /\ s[k] \in S /\ t[k] \in S
  BY <1>1, <1>2
<1> DEFINE u == SubSeq(s, m + 1, e)
           v == SubSeq(t, m + 1, e)
<1>4. /\ u \in Seq(S) /\ Len(u) = (IF m + 1 <= e THEN e - (m + 1) + 1 ELSE 0)
      /\ \A k \in 1 .. e - (m + 1) + 1 : u[k] = s[m + 1 + k - 1]
  BY <1>1, <1>3, SubSeqProperties
<1>5. /\ v \in Seq(S) /\ Len(v) = (IF m + 1 <= e THEN e - (m + 1) + 1 ELSE 0)
      /\ \A k \in 1 .. e - (m + 1) + 1 : v[k] = t[m + 1 + k - 1]
  BY <1>1, <1>3, SubSeqProperties
<1> HIDE DEF u, v
<1>6. \A k \in 1 .. Len(u) : u[k] = v[k]
  BY <1>1, <1>3, <1>4, <1>5
<1>7. u = v
  <2>1. Len(u) = Len(v)
    BY <1>4, <1>5
  <2>2. u = [k \in 1 .. Len(u) |-> u[k]] /\ v = [k \in 1 .. Len(v) |-> v[k]]
    BY <1>4, <1>5
  <2> QED BY <1>6, <2>1, <2>2
<1> QED BY <1>1, <1>7 DEF e, u, v

\* The rows received, sorted as Postgres would sort them.
PostgresSorted(ids) == SortRows(ids, query.order, PostgresNulls(query.order))

\* The list Postgres makes its answer of begins as that of all wanted rows does, as far
\* as OFFSET and LIMIT look.
LEMMA SameTop ==
    ASSUME AInv, phase = "done", ~KnownGap,
           NEW extra \in [Range(Connections) -> SUBSET Range(QualList)], received = RowsReceived(extra),
           NEW got, got = IF plan.sorted /\ plan.all THEN received ELSE PostgresSorted(Range(received))
    PROVE  /\ Range(received) = Got(extra) /\ Range(got) = Got(extra)
           /\ \/ Got(extra) = Wanted /\ got = PostgresSorted(Wanted)
              \/ ~NeedsAllRows /\ Top(got) = Top(PostgresSorted(Wanted))
<1> DEFINE R == Got(extra)
           keys == plan.keys
           order == query.order
<1>1. /\ keys \in Seq(SortKey) /\ PluginNulls(keys) \in [DOMAIN keys -> BOOLEAN]
      /\ plan.sorted \/ planLimit # NoLimit => PluginNulls(keys) = PostgresNulls(keys)
  BY PlanKeys DEF KnownGap
<1>2. order \in Seq(SortKey) /\ PostgresNulls(order) \in [DOMAIN order -> BOOLEAN]
  <2>1. order \in Seq(SortKey)
    BY KeysOfOrder DEF AInv
  <2>2. \A k \in DOMAIN order : order[k] \in SortKey
    BY <2>1
  <2> QED BY <2>1, <2>2 DEF SortKey, PostgresNulls
<1>3. R \subseteq Wanted /\ Wanted \subseteq DOMAIN Table /\ R \subseteq DOMAIN Table
  BY GotIsWanted
<1>4. received = SortRows(R, keys, PluginNulls(keys))
  BY DEF RowsReceived, Got
<1>5. Range(received) = R /\ Range(PostgresSorted(R)) = R
  <2>1. Range(SortRows(R, keys, PluginNulls(keys))) = R
    BY <1>1, <1>3, SortedRows DEF AInv
  <2>2. Range(SortRows(R, order, PostgresNulls(order))) = R
    BY <1>2, <1>3, SortedRows DEF AInv
  <2> QED BY <1>4, <2>1, <2>2 DEF PostgresSorted
<1>6. plan.sorted /\ plan.all => keys = order
  <2>1. plan.sorted => Sort.keys = keys /\ Sort.all = plan.all /\ keys # <<>>
    BY DEF AInv, PlanOfPath
  <2> QED BY <2>1, KeysOfOrder DEF AInv
<1>7. got = PostgresSorted(R)
  <2>1. CASE plan.sorted /\ plan.all
    BY <1>1, <1>4, <1>6, <2>1 DEF PostgresSorted
  <2>2. CASE ~(plan.sorted /\ plan.all)
    BY <1>5, <2>2
  <2> QED BY <2>1, <2>2
<1> HIDE DEF R
<1>8. CASE \A c \in Range(Connections) : limits[c] = NoLimit
  <2>1. R = Wanted
    BY <1>8, AllRowsCome DEF KnownGap, R
  <2> QED BY <1>5, <1>7, <2>1 DEF R
<1>9. CASE /\ plan.all /\ planLimit # NoLimit
           /\ \A c \in Range(Connections) : c \in DOMAIN limits /\ limits[c] = planLimit
  <2>1. /\ query.shape \notin {"grouped", "distinct", "aggregate", "join", "window", "ties"}
        /\ LimitOf \in Nat /\ OffsetOf \in Nat /\ planLimit = OffsetOf + LimitOf
    BY <1>9, LimitCounts DEF KnownGap
  <2>2. keys = order
    <3>1. query.joins = {}
      BY <2>1, PlanningAssumption DEF AInv, PInv, PlanOfQuery
    <3>2. keys = Sort.keys /\ Sort.all
      BY <1>9, <3>1 DEF AInv, PlanOfPath
    <3>3. ~ExpressionGap
      BY <1>9 DEF KnownGap, LimitGap
    <3> QED BY <3>2, <3>3, KeysOfOrder DEF AInv
  <2>3. PluginNulls(keys) = PostgresNulls(order)
    BY <1>1, <1>9, <2>2
  <2>4. \A i \in Wanted : Place(Wanted, order, PostgresNulls(order), i) < planLimit => i \in R
    BY <1>9, <2>2, <2>3, FirstRowsCome DEF R
  <2>5. /\ MinOf(Cardinality(R), planLimit) = MinOf(Cardinality(Wanted), planLimit)
        /\ \A k \in 1 .. MinOf(Cardinality(Wanted), planLimit) :
              PostgresSorted(R)[k] = PostgresSorted(Wanted)[k]
    <3> DEFINE nulls == PostgresNulls(order)
    <3>1. planLimit \in Nat
      BY <2>1
    <3>2. PInv
      BY DEF AInv
    <3>3. nulls \in [DOMAIN order -> BOOLEAN] /\ order \in Seq(SortKey)
      BY <1>2
    <3>4. \A i \in Wanted : Place(Wanted, order, nulls, i) < planLimit => i \in R
      BY <2>4
    <3> HIDE DEF nulls
    <3>5. /\ MinOf(Cardinality(R), planLimit) = MinOf(Cardinality(Wanted), planLimit)
          /\ \A k \in 1 .. MinOf(Cardinality(Wanted), planLimit) :
                SortRows(R, order, nulls)[k] = SortRows(Wanted, order, nulls)[k]
      <4> HIDE DEF order
      <4> QED BY <1>3, <3>1, <3>2, <3>3, <3>4, SortedPrefix
    <3> QED BY <3>5 DEF PostgresSorted, nulls
  <2>6. /\ PostgresSorted(R) \in Seq(DOMAIN Table) /\ Len(PostgresSorted(R)) = Cardinality(R)
        /\ PostgresSorted(Wanted) \in Seq(DOMAIN Table)
        /\ Len(PostgresSorted(Wanted)) = Cardinality(Wanted)
    <3>1. \A T : T \subseteq DOMAIN Table =>
              PostgresSorted(T) \in Seq(T) /\ Len(PostgresSorted(T)) = Cardinality(T)
      BY <1>2, SortedRows DEF AInv, PostgresSorted
    <3>2. \A T, U : T \subseteq U => Seq(T) \subseteq Seq(U)
      OBVIOUS
    <3> QED BY <1>3, <3>1, <3>2
  <2>7. Top(got) = Top(PostgresSorted(Wanted))
    <3> DEFINE s == PostgresSorted(R)
               t == PostgresSorted(Wanted)
    <3>1. s \in Seq(DOMAIN Table) /\ t \in Seq(DOMAIN Table) /\ planLimit \in Nat /\ OffsetOf \in Nat
      BY <2>1, <2>6
    <3>2. /\ MinOf(Len(s), planLimit) = MinOf(Len(t), planLimit)
          /\ \A k \in 1 .. MinOf(Len(t), planLimit) : s[k] = t[k]
      BY <2>5, <2>6
    <3> HIDE DEF s, t
    <3>3. SubSeq(s, OffsetOf + 1, MinOf(Len(s), planLimit)) = SubSeq(t, OffsetOf + 1, MinOf(Len(t), planLimit))
      BY <3>1, <3>2, SameRange
    <3>4. \A u : Top(u) = SubSeq(u, OffsetOf + 1, MinOf(Len(u), planLimit))
      BY <2>1 DEF Top
    <3> QED BY <1>7, <3>3, <3>4 DEF s, t
  <2>8. ~NeedsAllRows
    BY <2>1 DEF NeedsAllRows
  <2> QED BY <1>5, <1>7, <2>7, <2>8 DEF R
<1> QED BY <1>8, <1>9, OneLimit DEF AInv

LEMMA AnswerFollows == AInv => AnswerIsRight
<1> SUFFICES ASSUME AInv, phase = "done", ~KnownGap PROVE RightAnswer
  BY DEF AnswerIsRight
<1>1. PICK extra \in [Range(Connections) -> SUBSET Range(QualList)] : received = RowsReceived(extra)
  BY DEF AInv, ReceivedOfPlan
<1> DEFINE got == IF plan.sorted /\ plan.all THEN received ELSE PostgresSorted(Range(received))
           wanted == PostgresSorted(Wanted)
<1>2. /\ Range(received) = Got(extra) /\ Range(got) = Got(extra)
      /\ \/ Got(extra) = Wanted /\ got = wanted
         \/ ~NeedsAllRows /\ Top(got) = Top(wanted)
  BY <1>1, SameTop
<1>3. Range(wanted) = Wanted
  <2>1. query.order \in Seq(SortKey)
    BY KeysOfOrder DEF AInv
  <2>2. \A k \in DOMAIN query.order : query.order[k] \in SortKey
    BY <2>1
  <2>3. PostgresNulls(query.order) \in [DOMAIN query.order -> BOOLEAN]
    BY <2>1, <2>2 DEF SortKey, PostgresNulls
  <2>4. Wanted \subseteq DOMAIN Table
    BY DEF Wanted
  <2> QED BY <2>1, <2>3, <2>4, SortedRows DEF AInv, PostgresSorted
<1>4. plan.sorted => InKeyOrder(received)
  <2> SUFFICES ASSUME plan.sorted, NEW k \in 1 .. Len(received) - 1
               PROVE  ~Below(plan.keys, PostgresNulls(plan.keys), received[k + 1], received[k])
    BY DEF InKeyOrder
  <2>1. /\ plan.keys \in Seq(SortKey) /\ PostgresNulls(plan.keys) \in [DOMAIN plan.keys -> BOOLEAN]
        /\ PluginNulls(plan.keys) = PostgresNulls(plan.keys)
    BY PlanKeys DEF KnownGap
  <2>2. Got(extra) \subseteq DOMAIN Table
    BY GotIsWanted
  <2>3. received = SortRows(Got(extra), plan.keys, PostgresNulls(plan.keys))
    BY <1>1, <2>1 DEF RowsReceived, Got
  <2>4. Len(received) = Cardinality(Got(extra))
    BY <2>1, <2>2, <2>3, SortedRows DEF AInv
  <2> QED BY <2>1, <2>2, <2>3, <2>4, SortedAscends DEF AInv
<1>5. Got(extra) \subseteq Wanted
  BY GotIsWanted
<1> HIDE DEF got, wanted
<1>6. NeedsAllRows => Range(received) = Range(wanted)
  BY <1>2, <1>3
<1>7. ~NeedsAllRows => SameOrder(Top(got), Top(wanted)) /\ Range(got) \subseteq Range(wanted)
  BY <1>2, <1>3, <1>5 DEF SameOrder
<1> QED BY <1>4, <1>6, <1>7 DEF RightAnswer, PostgresSorted, Wanted, got, wanted

\* Whatever the query, the schemas, the rows and the connections, whatever path the planner
\* takes and whatever more quals the plugins apply: a query returns what it would from the
\* whole table, in the order asked for, but for the known gaps.
THEOREM AnswersAreRight == Spec => []AnswerIsRight
BY AnswerInvariance, AnswerFollows, PTL

=============================================================================
