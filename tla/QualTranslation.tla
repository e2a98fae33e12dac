-------------------------- MODULE QualTranslation --------------------------
(* Which restrictions become quals, and which quals (quals.go, fdw/query.c).
   An operator returns the set of its possible results, each a sequence of at
   most one qual: where the code reads a node as the Var it is not, what it
   finds there is any column or none. *)
EXTENDS Expressions

NoQual == <<>>
ScalarValue(v) == [list |-> FALSE, values |-> {v}]        \* a nil value is {Null}
ListValue(V) == [list |-> TRUE, values |-> V]
EmptyValue == [list |-> FALSE, values |-> {}]
TrueValue == ScalarValue(1)

Qual(column, operator, value) == <<[field |-> column, operator |-> operator, value |-> value]>>

NoColumn == ""
columnFromVar(v) == IF v.col \in Columns THEN v.col ELSE NoColumn
IsOwnColumn(e) == e.tag = "Var" /\ e.col \in Columns

Commutator(op) == CASE op \in {"=", "<>"} -> op [] op = "<" -> ">" [] op = ">" -> "<" [] OTHER -> NoColumn
(* mutant: the operands change sides, the operator stays *)
SwappedOperands(r) == OpExpr(r.op, r.right, r.left)

Swapped(r) == OpExpr(Commutator(r.op), r.right, r.left)

unnestClause(e) == Unwrapped(e)

(* The operands change sides when only the right one is a Var. A clause of two
   Vars stays as it is: those of other tables have become parameters. *)
swapOperandsAsNeeded(r) ==
    IF r.right.tag = "Var" /\ r.left.tag # "Var" /\ Commutator(r.op) # NoColumn THEN Swapped(r) ELSE r

canonicalOpExpr(r) ==
    swapOperandsAsNeeded(OpExpr(r.op, unnestClause(r.left), unnestClause(r.right)))

IsVolatile(e) == e.tag = "Calc" /\ e.kind = "volatile"
IsSelfReference(e) == e.tag = "Var"

(* Constants, parameters and operator expressions are evaluated; the failing
   conversion of a timestamp is not reported, and its value stays empty. *)
IsSupported(e) == e.tag \in {"Const", "Param", "Infinity"} \/ (e.tag = "Calc" /\ e.kind = "opexpr")
getQualValue(e, param) ==
    CASE e.tag = "Param" -> ScalarValue(param)
      [] e.tag = "Infinity" -> EmptyValue
      [] OTHER -> ScalarValue(e.value)

qualFromOpExpr(r, param) ==
    LET c == canonicalOpExpr(r) IN
    IF /\ IsOwnColumn(c.left)
       /\ ~IsVolatile(c.right)
       /\ ~IsSelfReference(c.right)
       /\ IsSupported(c.right)
    THEN Qual(c.left.col, c.op, getQualValue(c.right, param))
    ELSE NoQual

(* "column" is column = true. *)
qualFromVar(v) ==
    IF columnFromVar(v) = NoColumn THEN NoQual ELSE Qual(columnFromVar(v), "=", TrueValue)

(* ANY and ALL arrays give the same qual: useOr is not looked at. *)
qualFromScalarOpExpr(r) ==
    LET l == unnestClause(r.left) IN
    IF IsOwnColumn(l) THEN Qual(l.col, r.op, ListValue(Range(r.elems))) ELSE NoQual

qualFromNullTest(r) ==
    IF IsOwnColumn(r.operand)
    THEN Qual(r.operand.col, IF r.isNull THEN "is null" ELSE "is not null", ScalarValue(Null))
    ELSE NoQual

qualFromBooleanTest(r) ==
    IF ~IsOwnColumn(r.operand) THEN NoQual
    ELSE CASE r.test = "IS_TRUE" -> Qual(r.operand.col, "=", TrueValue)
           [] r.test \in {"IS_NOT_TRUE", "IS_FALSE"} -> Qual(r.operand.col, "<>", TrueValue)
           [] OTHER -> NoQual

(* A NOT takes its argument for a Var, whatever node it is. *)
qualsFromNot(arg) ==
    LET found == IF arg.tag = "Var" THEN {columnFromVar(arg)} ELSE Columns \cup {NoColumn}
    IN  {IF c = NoColumn THEN NoQual ELSE Qual(c, "<>", TrueValue) : c \in found}

simpleQual(r, param) ==
    CASE r.tag = "OpExpr" -> qualFromOpExpr(r, param)
      [] r.tag = "Var" -> qualFromVar(r)
      [] r.tag = "ScalarArrayOpExpr" -> qualFromScalarOpExpr(r)
      [] r.tag = "NullTest" -> qualFromNullTest(r)
      [] r.tag = "BooleanTest" -> qualFromBooleanTest(r)
      [] OTHER -> NoQual

memberQuals(r, param) ==
    IF r.tag # "BoolExpr" THEN {simpleQual(r, param)}
    ELSE IF r.boolop = "NOT" THEN qualsFromNot(r.args[1])
    ELSE {NoQual}

(* An OR becomes a list when all its members are "=" quals of one column. *)
qualFromOr(members) ==
    IF \E i \in DOMAIN members : members[i] = NoQual THEN NoQual
    ELSE LET quals == {members[i][1] : i \in DOMAIN members}
         IN  IF \A q \in quals : q.operator = "=" /\ q.field = members[1][1].field
             THEN Qual(members[1][1].field, "=", ListValue(UNION {q.value.values : q \in quals}))
             ELSE NoQual

qualsFromOr(args, param) ==
    LET results == [i \in DOMAIN args |-> memberQuals(args[i], param)]
    IN  {qualFromOr(m) : m \in {f \in [DOMAIN args -> UNION Range(results)] :
                                    \A i \in DOMAIN args : f[i] \in results[i]}}

singleRestrictionToQual(r, param) ==
    IF r.tag = "BoolExpr" /\ r.boolop = "OR" THEN qualsFromOr(r.args, param) ELSE memberQuals(r, param)

(* A null in an array is a nil value, and the next element is compared with it
   by a method of the SDK that may not bear a nil receiver. *)
ComparesWithNil(r) ==
    /\ r.tag = "ScalarArrayOpExpr"
    /\ IsOwnColumn(unnestClause(r.left))
    /\ \E i, j \in DOMAIN r.elems : i < j /\ r.elems[i] = Null /\ r.elems[j] # Null
MayPanic(r) ==
    IF r.tag = "BoolExpr" /\ r.boolop = "OR" THEN \E m \in Range(r.args) : ComparesWithNil(m)
    ELSE ComparesWithNil(r)

(* The quals by column, as the hub passes them on. *)
buildQualMap(quals) ==
    [c \in {q.field : q \in Range(quals)} |-> {q \in Range(quals) : q.field = c}]

------------------------------------------------------------------------------
(* What a qual asks of a row. A list is met by "=" when some value is equal, by
   any other operator when all values are. *)
QualHolds(q, row) ==
    LET x == row[q.field]
        found == {Compare(q.operator, x, v) : v \in q.value.values}
    IN  CASE q.operator = "is null" -> x = Null
          [] q.operator = "is not null" -> x # Null
          [] OTHER -> (IF q.operator = "=" \/ ~q.value.list THEN Or3(found) ELSE And3(found)) = TRUE

(* The restrictions that become a qual of another meaning: NOT of something that
   is no column, IS NOT TRUE (which keeps nulls), the arrays whose quantifier is
   dropped, and a timestamp whose value is lost. *)
MisreadSimple(r) ==
    \/ r.tag = "BooleanTest" /\ r.test = "IS_NOT_TRUE"
    \/ r.tag = "ScalarArrayOpExpr" /\ r.useOr # (r.op = "=")
    \/ r.tag = "OpExpr" /\ "Infinity" \in {Unwrapped(r.left).tag, Unwrapped(r.right).tag}
MisreadMember(r) ==
    IF r.tag = "BoolExpr" THEN r.boolop = "NOT" /\ r.args[1].tag # "Var" ELSE MisreadSimple(r)
Misread(r) ==
    IF r.tag = "BoolExpr" /\ r.boolop = "OR" THEN \E m \in Range(r.args) : MisreadMember(m)
    ELSE MisreadMember(r)
=============================================================================
