---------------------------- MODULE Expressions ----------------------------
(* The Postgres expressions the FDW meets as restrictions, and what they mean.
   A restriction is a record whose tag is the node's; the operands are columns,
   constants, parameters and calculations. A value is a number or Null, the
   booleans are 1 and 0, and truth is three-valued: TRUE, FALSE or Null. The
   planner has split the top-level ANDs and flattened nested ORs, so an OR holds
   simple restrictions, NOTs and ANDs of simple ones. *)
EXTENDS Integers, Sequences, FiniteSets, Functions

CONSTANTS
    Columns,   \* the columns of the foreign table
    Values,    \* the values a column can have, with 0 and 1
    Null       \* SQL's null

ASSUME ExpressionAssumption ==
    {0, 1} \subseteq Values /\ Values \subseteq Int /\ Null \notin Values /\ Null \notin BOOLEAN

SystemColumn == "ctid"     \* a Var whose varattno is below 1

(* operands *)
Var(c) == [tag |-> "Var", col |-> c]
Const(v) == [tag |-> "Const", value |-> v]
Infinity == [tag |-> "Infinity"]                   \* a timestamp constant beyond what protobuf can hold
Param == [tag |-> "Param"]
Calc(kind, v) == [tag |-> "Calc", kind |-> kind, value |-> v]
Relabel(e) == [tag |-> "Relabel", arg |-> e]       \* a cast that keeps the bits

(* restrictions *)
OpExpr(op, l, r) == [tag |-> "OpExpr", op |-> op, left |-> l, right |-> r]
ScalarArrayOpExpr(op, useOr, l, elems) ==
    [tag |-> "ScalarArrayOpExpr", op |-> op, useOr |-> useOr, left |-> l, elems |-> elems]
NullTest(e, isNull) == [tag |-> "NullTest", operand |-> e, isNull |-> isNull]
BooleanTest(e, test) == [tag |-> "BooleanTest", operand |-> e, test |-> test]
FuncExpr(c) == [tag |-> "FuncExpr", of |-> c]      \* a call that returns the boolean in c
BoolExpr(op, args) == [tag |-> "BoolExpr", boolop |-> op, args |-> args]
Not(r) == BoolExpr("NOT", <<r>>)

------------------------------------------------------------------------------
(* three-valued logic *)
Or3(S) == IF TRUE \in S THEN TRUE ELSE IF Null \in S THEN Null ELSE FALSE
And3(S) == IF FALSE \in S THEN FALSE ELSE IF Null \in S THEN Null ELSE TRUE
Not3(t) == IF t = Null THEN Null ELSE ~t

(* LIKE without a wildcard is equality. *)
Compare(op, x, y) ==
    IF x = Null \/ y = Null THEN Null
    ELSE CASE op \in {"=", "~~"} -> x = y
           [] op = "<>" -> x # y
           [] op = "<" -> x < y
           [] op = ">" -> x > y

Operators == {"=", "<>", "<", ">", "~~"}

Unwrapped(e) == IF e.tag = "Relabel" THEN e.arg ELSE e

(* Infinity is above every value. *)
Operand(e, row, param) ==
    LET u == Unwrapped(e) IN
    CASE u.tag = "Var" -> IF u.col \in Columns THEN row[u.col] ELSE 1
      [] u.tag \in {"Const", "Calc"} -> u.value
      [] u.tag = "Param" -> param
      [] u.tag = "Infinity" -> 1 + (CHOOSE v \in Values : \A w \in Values : w <= v)
      [] u.tag = "FuncExpr" -> row[u.of]

AsTruth(v) == IF v = Null THEN Null ELSE v = 1

SimpleTruth(r, row, param) ==
    CASE r.tag \in {"Var", "FuncExpr"} -> AsTruth(Operand(r, row, param))
      [] r.tag = "OpExpr" -> Compare(r.op, Operand(r.left, row, param), Operand(r.right, row, param))
      [] r.tag = "ScalarArrayOpExpr" ->
            LET found == {Compare(r.op, Operand(r.left, row, param), v) : v \in Range(r.elems)}
            IN  IF r.useOr THEN Or3(found) ELSE And3(found)
      [] r.tag = "NullTest" -> (Operand(r.operand, row, param) = Null) = r.isNull
      [] r.tag = "BooleanTest" ->
            LET t == AsTruth(Operand(r.operand, row, param)) IN
            CASE r.test = "IS_TRUE" -> t = TRUE        [] r.test = "IS_NOT_TRUE" -> t # TRUE
              [] r.test = "IS_FALSE" -> t = FALSE      [] r.test = "IS_NOT_FALSE" -> t # FALSE
              [] r.test = "IS_UNKNOWN" -> t = Null     [] r.test = "IS_NOT_UNKNOWN" -> t # Null

Connective(op, truths) ==
    CASE op = "NOT" -> Not3(CHOOSE t \in truths : TRUE)
      [] op = "AND" -> And3(truths)
      [] op = "OR" -> Or3(truths)

MemberTruth(r, row, param) ==
    IF r.tag = "BoolExpr"
    THEN Connective(r.boolop, {SimpleTruth(m, row, param) : m \in Range(r.args)})
    ELSE SimpleTruth(r, row, param)

Truth(r, row, param) ==
    IF r.tag = "BoolExpr"
    THEN Connective(r.boolop, {MemberTruth(m, row, param) : m \in Range(r.args)})
    ELSE SimpleTruth(r, row, param)

Keeps(r, row, param) == Truth(r, row, param) = TRUE

------------------------------------------------------------------------------
(* The restrictions Postgres gives. *)
IsOperand(e) == Unwrapped(e).tag \in {"Const", "Calc"} => Unwrapped(e).value \in Values \cup {Null}

IsSimple(r) ==
    /\ r.tag \in {"Var", "FuncExpr", "OpExpr", "ScalarArrayOpExpr", "NullTest", "BooleanTest"}
    /\ r.tag = "OpExpr" => r.op \in Operators /\ IsOperand(r.left) /\ IsOperand(r.right)
    /\ r.tag = "ScalarArrayOpExpr" => r.op \in Operators /\ r.useOr \in BOOLEAN
    /\ r.tag = "NullTest" => r.isNull \in BOOLEAN

IsBoolExpr(r) ==
    /\ r.tag = "BoolExpr"
    /\ r.args \in Seq(Range(r.args)) /\ r.args # <<>>
    /\ r.boolop = "NOT" => Len(r.args) = 1

IsMember(r) == IsSimple(r) \/ (IsBoolExpr(r) /\ \A m \in Range(r.args) : IsSimple(m))

IsCondition(r) == IsSimple(r) \/ (IsBoolExpr(r) /\ \A m \in Range(r.args) : IsMember(m))
=============================================================================
