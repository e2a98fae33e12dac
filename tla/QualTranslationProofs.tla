------------------------- MODULE QualTranslationProofs -------------------------
(***************************************************************************)
(* A qual means what the restriction it was made of means, for any         *)
(* columns and values: the qual holds of the rows that the restriction     *)
(* keeps, unless the restriction is one that Misread lists.                *)
(***************************************************************************)
EXTENDS QualTranslation, TLAPS

\* A row of the table, which may have more than its columns.
IsRow(row) == \A c \in Columns : row[c] \in Values \cup {Null}

\* Three-valued truths: whether a set of them is true.
LEMMA ThreeValued ==
    /\ Null # TRUE /\ Null # FALSE
    /\ \A S : Or3(S) = TRUE <=> TRUE \in S
    /\ \A t : Or3({t}) = TRUE <=> t = TRUE
    /\ \A x : x \in Values => x # Null
    /\ 1 \in Values /\ 0 \in Values
BY ExpressionAssumption DEF Or3

\* A comparison with its sides changed.
LEMMA Commuted ==
    ASSUME NEW op \in Operators, Commutator(op) # NoColumn,
           NEW x \in Values \cup {Null}, NEW y \in Values \cup {Null}
    PROVE  /\ Commutator(op) \in Operators
           /\ Compare(Commutator(op), x, y) = TRUE <=> Compare(op, y, x) = TRUE
<1>1. op \in {"=", "<>", "<", ">"}
  BY DEF Operators, Commutator, NoColumn
<1>2. Commutator(op) \in Operators
  BY <1>1 DEF Operators, Commutator
<1>3. CASE x = Null \/ y = Null
  BY <1>2, <1>3 DEF Compare
<1>4. CASE x # Null /\ y # Null
  <2>1. x \in Int /\ y \in Int
    BY <1>4, ExpressionAssumption
  <2>2. CASE op = "="
    BY <1>4, <2>2 DEF Compare, Commutator, Operators
  <2>3. CASE op = "<>"
    BY <1>4, <2>3 DEF Compare, Commutator, Operators
  <2>4. CASE op = "<"
    BY <1>4, <2>1, <2>4 DEF Compare, Commutator, Operators
  <2>5. CASE op = ">"
    BY <1>4, <2>1, <2>5 DEF Compare, Commutator, Operators
  <2> QED BY <1>1, <2>2, <2>3, <2>4, <2>5
<1> QED BY <1>2, <1>3, <1>4

\* A value compared with 1 is a truth.
LEMMA TruthOfValue ==
    ASSUME NEW x \in Values \cup {Null}
    PROVE  /\ Compare("=", x, 1) = TRUE <=> AsTruth(x) = TRUE
           /\ Compare("<>", x, 1) = TRUE <=> AsTruth(x) = FALSE
           /\ Not3(AsTruth(x)) = TRUE <=> AsTruth(x) = FALSE
<1>1. CASE x = Null
  BY <1>1, ThreeValued DEF Compare, AsTruth, Not3
<1>2. CASE x # Null
  <2>1. 1 # Null
    BY ThreeValued
  <2>2. AsTruth(x) = (x = 1)
    BY <1>2 DEF AsTruth
  <2>3. Compare("=", x, 1) = (x = 1) /\ Compare("<>", x, 1) = (x # 1)
    BY <1>2, <2>1 DEF Compare
  <2>4. (x = 1) # Null
    BY ThreeValued
  <2>5. Not3(AsTruth(x)) = ~(x = 1)
    BY <2>2, <2>4 DEF Not3
  <2> QED BY <2>2, <2>3, <2>5
<1> QED BY <1>1, <1>2

\* A qual on a column of the table.
IsQual(q) ==
    /\ q.field \in Columns
    /\ q.operator \in Operators \cup {"is null", "is not null"}

\* The parts of a qual.
LEMMA QualFields ==
    ASSUME NEW c, NEW op, NEW v
    PROVE  /\ Qual(c, op, v) # NoQual
           /\ Qual(c, op, v)[1].field = c
           /\ Qual(c, op, v)[1].operator = op
           /\ Qual(c, op, v)[1].value = v
<1> DEFINE q == [field |-> c, operator |-> op, value |-> v]
<1>1. Qual(c, op, v) = <<q>>
  BY DEF Qual
<1>2. q.field = c /\ q.operator = op /\ q.value = v
  OBVIOUS
<1> HIDE DEF q
<1>3. <<q>> # <<>> /\ <<q>>[1] = q
  OBVIOUS
<1>4. Qual(c, op, v)[1] = q
  BY <1>1, <1>3
<1> QED BY <1>1, <1>2, <1>3, <1>4 DEF NoQual

LEMMA MadeQual ==
    ASSUME NEW c, NEW op, NEW v
    PROVE  c \in Columns /\ op \in Operators \cup {"is null", "is not null"}
               => IsQual(Qual(c, op, v)[1])
<1>1. Qual(c, op, v)[1].field = c /\ Qual(c, op, v)[1].operator = op
  BY QualFields
<1> QED BY <1>1 DEF IsQual

\* What a qual with a scalar value, or a list of values, asks of a row.
LEMMA ScalarQual ==
    ASSUME NEW c \in Columns, NEW op \in Operators, NEW v, NEW row
    PROVE  QualHolds(Qual(c, op, ScalarValue(v))[1], row) <=> Compare(op, row[c], v) = TRUE
<1> DEFINE q == Qual(c, op, ScalarValue(v))[1]
<1>1. op # "is null" /\ op # "is not null"
  BY DEF Operators
<1>2. q.field = c /\ q.operator = op /\ q.value.list = FALSE /\ q.value.values = {v}
  <2>1. q.field = c /\ q.operator = op /\ q.value = ScalarValue(v)
    BY QualFields
  <2> HIDE DEF q
  <2> QED BY <2>1 DEF ScalarValue
<1> HIDE DEF q
<1>3. {Compare(op, row[c], w) : w \in {v}} = {Compare(op, row[c], v)}
  OBVIOUS
<1>4. QualHolds(q, row) <=> Or3({Compare(op, row[c], v)}) = TRUE
  BY <1>1, <1>2, <1>3 DEF QualHolds
<1>5. QualHolds(q, row) <=> Compare(op, row[c], v) = TRUE
  BY <1>4, ThreeValued
<1> QED BY <1>5 DEF q

-----------------------------------------------------------------------------
(* Simple restrictions.                                                    *)

\* An operand, as Postgres and as getQualValue evaluate it.
LEMMA OperandColumn ==
    ASSUME NEW e, IsOwnColumn(Unwrapped(e)), NEW row, NEW param
    PROVE  Operand(e, row, param) = row[Unwrapped(e).col]
BY DEF Operand, IsOwnColumn

LEMMA OperandValue ==
    ASSUME NEW e, Unwrapped(e).tag \in {"Const", "Param", "Calc"}, IsOperand(e),
           NEW row, NEW param \in Values \cup {Null}
    PROVE  /\ Operand(e, row, param) \in Values \cup {Null}
           /\ getQualValue(Unwrapped(e), param) = ScalarValue(Operand(e, row, param))
<1>1. CASE Unwrapped(e).tag = "Param"
  <2>1. Operand(e, row, param) = param
    BY <1>1 DEF Operand
  <2>2. getQualValue(Unwrapped(e), param) = ScalarValue(param)
    BY <1>1 DEF getQualValue
  <2> QED BY <2>1, <2>2
<1>2. CASE Unwrapped(e).tag \in {"Const", "Calc"}
  <2>1. Operand(e, row, param) = Unwrapped(e).value
    BY <1>2 DEF Operand
  <2>2. getQualValue(Unwrapped(e), param) = ScalarValue(Unwrapped(e).value)
    BY <1>2 DEF getQualValue
  <2>3. Unwrapped(e).value \in Values \cup {Null}
    BY <1>2 DEF IsOperand
  <2> QED BY <2>1, <2>2, <2>3
<1> QED BY <1>1, <1>2

\* A comparison, whichever side the column is on.
LEMMA QualOfOpExpr ==
    ASSUME NEW r, r.tag = "OpExpr", IsSimple(r), ~MisreadSimple(r),
           NEW param \in Values \cup {Null}, qualFromOpExpr(r, param) # NoQual
    PROVE  /\ IsQual(qualFromOpExpr(r, param)[1])
           /\ \A row : IsRow(row) => QualHolds(qualFromOpExpr(r, param)[1], row)
                                   <=> SimpleTruth(r, row, param) = TRUE
<1> DEFINE l == Unwrapped(r.left)
           s == Unwrapped(r.right)
           c == canonicalOpExpr(r)
<1>1. /\ r.op \in Operators /\ IsOperand(r.left) /\ IsOperand(r.right)
      /\ l.tag # "Infinity" /\ s.tag # "Infinity"
  BY DEF IsSimple, MisreadSimple
<1>2. /\ IsOwnColumn(c.left) /\ ~IsSelfReference(c.right) /\ IsSupported(c.right)
      /\ qualFromOpExpr(r, param) = Qual(c.left.col, c.op, getQualValue(c.right, param))
  BY DEF qualFromOpExpr
<1>3. \/ /\ c.left = l /\ c.right = s /\ c.op = r.op
      \/ /\ c.left = s /\ c.right = l /\ c.op = Commutator(r.op)
         /\ Commutator(r.op) # NoColumn
  BY DEF canonicalOpExpr, swapOperandsAsNeeded, Swapped, OpExpr, unnestClause
<1>4. \A row : SimpleTruth(r, row, param) =
          Compare(r.op, Operand(r.left, row, param), Operand(r.right, row, param))
  BY DEF SimpleTruth
<1>5. c.right.tag \in {"Const", "Param", "Calc"}
  BY <1>1, <1>2, <1>3 DEF IsSupported
<1> HIDE DEF c
<1>6. IsQual(qualFromOpExpr(r, param)[1])
  <2>1. c.op \in Operators
    <3>1. 0 \in Values \cup {Null}
      BY ThreeValued
    <3> QED BY <3>1, <1>1, <1>3, Commuted
  <2>2. c.left.col \in Columns
    BY <1>2 DEF IsOwnColumn
  <2> DEFINE v == getQualValue(c.right, param)
  <2>3. qualFromOpExpr(r, param) = Qual(c.left.col, c.op, v)
    BY <1>2
  <2> HIDE DEF v
  <2>4. IsQual(Qual(c.left.col, c.op, v)[1])
    BY <2>1, <2>2, MadeQual
  <2> QED BY <2>3, <2>4
<1>7. CASE c.left = l /\ c.right = s /\ c.op = r.op
  <2> SUFFICES ASSUME NEW row, IsRow(row)
               PROVE  QualHolds(qualFromOpExpr(r, param)[1], row)
                          <=> SimpleTruth(r, row, param) = TRUE
    BY <1>6
  <2>1. Operand(r.left, row, param) = row[l.col] /\ l.col \in Columns
    BY <1>2, <1>7, OperandColumn DEF IsOwnColumn
  <2>2. getQualValue(s, param) = ScalarValue(Operand(r.right, row, param))
    BY <1>1, <1>5, <1>7, OperandValue
  <2>3. qualFromOpExpr(r, param)
            = Qual(l.col, r.op, ScalarValue(Operand(r.right, row, param)))
    BY <1>2, <1>7, <2>2
  <2> HIDE DEF l, s
  <2>4. QualHolds(qualFromOpExpr(r, param)[1], row)
            <=> Compare(r.op, row[l.col], Operand(r.right, row, param)) = TRUE
    BY <1>1, <2>1, <2>3, ScalarQual
  <2> QED BY <1>4, <2>1, <2>4
<1>8. CASE /\ c.left = s /\ c.right = l /\ c.op = Commutator(r.op)
           /\ Commutator(r.op) # NoColumn
  <2> SUFFICES ASSUME NEW row, IsRow(row)
               PROVE  QualHolds(qualFromOpExpr(r, param)[1], row)
                          <=> SimpleTruth(r, row, param) = TRUE
    BY <1>6
  <2>1. /\ Operand(r.right, row, param) = row[s.col] /\ s.col \in Columns
        /\ row[s.col] \in Values \cup {Null}
    BY <1>2, <1>8, OperandColumn DEF IsOwnColumn, IsRow
  <2>2. /\ getQualValue(l, param) = ScalarValue(Operand(r.left, row, param))
        /\ Operand(r.left, row, param) \in Values \cup {Null}
    BY <1>1, <1>5, <1>8, OperandValue
  <2>3. qualFromOpExpr(r, param)
            = Qual(s.col, Commutator(r.op), ScalarValue(Operand(r.left, row, param)))
    BY <1>2, <1>8, <2>2
  <2> HIDE DEF l, s
  <2>4. Commutator(r.op) \in Operators
    BY <1>1, <1>8, <2>1, Commuted
  <2>5. QualHolds(qualFromOpExpr(r, param)[1], row)
            <=> Compare(Commutator(r.op), row[s.col], Operand(r.left, row, param)) = TRUE
    BY <2>1, <2>3, <2>4, ScalarQual
  <2>6. Compare(Commutator(r.op), row[s.col], Operand(r.left, row, param)) = TRUE
            <=> Compare(r.op, Operand(r.left, row, param), row[s.col]) = TRUE
    BY <1>1, <1>8, <2>1, <2>2, Commuted
  <2> QED BY <1>4, <2>1, <2>5, <2>6
<1> QED BY <1>3, <1>6, <1>7, <1>8

\* A boolean column, as it is or tested.
LEMMA QualOfTruth ==
    ASSUME NEW c \in Columns, NEW row, IsRow(row)
    PROVE  /\ QualHolds(Qual(c, "=", TrueValue)[1], row) <=> AsTruth(row[c]) = TRUE
           /\ QualHolds(Qual(c, "<>", TrueValue)[1], row) <=> AsTruth(row[c]) = FALSE
<1>1. row[c] \in Values \cup {Null}
  BY DEF IsRow
<1>2. /\ QualHolds(Qual(c, "=", TrueValue)[1], row) <=> Compare("=", row[c], 1) = TRUE
      /\ QualHolds(Qual(c, "<>", TrueValue)[1], row) <=> Compare("<>", row[c], 1) = TRUE
  BY ScalarQual DEF Operators, TrueValue
<1> QED BY <1>1, <1>2, TruthOfValue

LEMMA QualOfVar ==
    ASSUME NEW r, r.tag = "Var", qualFromVar(r) # NoQual, NEW param
    PROVE  /\ IsQual(qualFromVar(r)[1])
           /\ \A row : IsRow(row) => QualHolds(qualFromVar(r)[1], row)
                                   <=> SimpleTruth(r, row, param) = TRUE
<1>1. r.col \in Columns /\ qualFromVar(r) = Qual(r.col, "=", TrueValue)
  BY DEF qualFromVar, columnFromVar
<1>2. IsQual(qualFromVar(r)[1])
  BY <1>1, MadeQual DEF Operators
<1>3. \A row : SimpleTruth(r, row, param) = AsTruth(row[r.col])
  BY <1>1 DEF SimpleTruth, Operand, Unwrapped
<1> QED BY <1>1, <1>2, <1>3, QualOfTruth

\* An array: its quantifier is that of its operator, unless it is misread.
LEMMA QualOfArray ==
    ASSUME NEW r, r.tag = "ScalarArrayOpExpr", IsSimple(r), ~MisreadSimple(r),
           qualFromScalarOpExpr(r) # NoQual, NEW param
    PROVE  /\ IsQual(qualFromScalarOpExpr(r)[1])
           /\ \A row : IsRow(row) => QualHolds(qualFromScalarOpExpr(r)[1], row)
                                   <=> SimpleTruth(r, row, param) = TRUE
<1> DEFINE c == Unwrapped(r.left).col
           q == qualFromScalarOpExpr(r)[1]
<1>1. /\ IsOwnColumn(Unwrapped(r.left)) /\ c \in Columns
      /\ qualFromScalarOpExpr(r) = Qual(c, r.op, ListValue(Range(r.elems)))
  BY DEF qualFromScalarOpExpr, unnestClause, IsOwnColumn
<1>2. /\ r.op \in Operators /\ r.op # "is null" /\ r.op # "is not null"
      /\ r.useOr <=> r.op = "="
  BY DEF IsSimple, MisreadSimple, Operators
<1>3. IsQual(q)
  BY <1>1, <1>2, MadeQual
<1>4. q.field = c /\ q.operator = r.op /\ q.value.list = TRUE /\ q.value.values = Range(r.elems)
  <2>1. q.field = c /\ q.operator = r.op /\ q.value = ListValue(Range(r.elems))
    BY <1>1, QualFields
  <2> HIDE DEF q
  <2> QED BY <2>1 DEF ListValue
<1>5. ASSUME NEW row, IsRow(row)
      PROVE  QualHolds(q, row) <=> SimpleTruth(r, row, param) = TRUE
  <2> DEFINE found == {Compare(r.op, row[c], v) : v \in Range(r.elems)}
  <2>1. Operand(r.left, row, param) = row[c]
    BY <1>1, OperandColumn
  <2> HIDE DEF c
  <2>2. SimpleTruth(r, row, param) = IF r.useOr THEN Or3(found) ELSE And3(found)
    BY <2>1 DEF SimpleTruth
  <2> HIDE DEF q
  <2>3. QualHolds(q, row) <=> (IF r.op = "=" THEN Or3(found) ELSE And3(found)) = TRUE
    BY <1>2, <1>4 DEF QualHolds
  <2> HIDE DEF found
  <2> QED BY <1>2, <2>2, <2>3
<1> QED BY <1>3, <1>5

LEMMA QualOfNullTest ==
    ASSUME NEW r, r.tag = "NullTest", IsSimple(r), qualFromNullTest(r) # NoQual, NEW param
    PROVE  /\ IsQual(qualFromNullTest(r)[1])
           /\ \A row : IsRow(row) => QualHolds(qualFromNullTest(r)[1], row)
                                   <=> SimpleTruth(r, row, param) = TRUE
<1> DEFINE c == r.operand.col
           op == IF r.isNull THEN "is null" ELSE "is not null"
           q == qualFromNullTest(r)[1]
<1>1. /\ IsOwnColumn(r.operand) /\ c \in Columns /\ r.isNull \in BOOLEAN
      /\ qualFromNullTest(r) = Qual(c, op, ScalarValue(Null))
  BY DEF qualFromNullTest, IsOwnColumn, IsSimple
<1>2. IsQual(q)
  BY <1>1, MadeQual
<1>3. q.field = c /\ q.operator = op
  <2> HIDE DEF c, op
  <2>1. /\ Qual(c, op, ScalarValue(Null))[1].field = c
        /\ Qual(c, op, ScalarValue(Null))[1].operator = op
    BY QualFields
  <2> QED BY <1>1, <2>1
<1>4. \A row : Operand(r.operand, row, param) = row[c]
  BY <1>1 DEF Operand, Unwrapped, IsOwnColumn
<1>5. \A row : SimpleTruth(r, row, param) = ((row[c] = Null) = r.isNull)
  BY <1>4 DEF SimpleTruth
<1> HIDE DEF c, q
<1>6. CASE r.isNull = TRUE
  BY <1>2, <1>3, <1>5, <1>6 DEF QualHolds, q
<1>7. CASE r.isNull = FALSE
  BY <1>2, <1>3, <1>5, <1>7 DEF QualHolds, q
<1> QED BY <1>1, <1>6, <1>7

LEMMA QualOfBooleanTest ==
    ASSUME NEW r, r.tag = "BooleanTest", ~MisreadSimple(r), qualFromBooleanTest(r) # NoQual,
           NEW param
    PROVE  /\ IsQual(qualFromBooleanTest(r)[1])
           /\ \A row : IsRow(row) => QualHolds(qualFromBooleanTest(r)[1], row)
                                   <=> SimpleTruth(r, row, param) = TRUE
<1> DEFINE c == r.operand.col
<1>1. IsOwnColumn(r.operand) /\ c \in Columns
  BY DEF qualFromBooleanTest, IsOwnColumn
<1>2. \A row : Operand(r.operand, row, param) = row[c]
  BY <1>1 DEF Operand, Unwrapped, IsOwnColumn
<1>3. CASE r.test = "IS_TRUE"
  <2>1. qualFromBooleanTest(r) = Qual(c, "=", TrueValue)
    BY <1>1, <1>3 DEF qualFromBooleanTest
  <2>2. \A row : SimpleTruth(r, row, param) = (AsTruth(row[c]) = TRUE)
    BY <1>2, <1>3 DEF SimpleTruth
  <2>3. IsQual(qualFromBooleanTest(r)[1])
    BY <1>1, <2>1, MadeQual DEF Operators
  <2> HIDE DEF c
  <2> QED BY <1>1, <2>1, <2>2, <2>3, QualOfTruth
<1>4. CASE r.test = "IS_FALSE"
  <2>1. qualFromBooleanTest(r) = Qual(c, "<>", TrueValue)
    BY <1>1, <1>4 DEF qualFromBooleanTest
  <2>2. \A row : SimpleTruth(r, row, param) = (AsTruth(row[c]) = FALSE)
    BY <1>2, <1>4 DEF SimpleTruth
  <2>3. IsQual(qualFromBooleanTest(r)[1])
    BY <1>1, <2>1, MadeQual DEF Operators
  <2> HIDE DEF c
  <2> QED BY <1>1, <2>1, <2>2, <2>3, QualOfTruth
<1>5. r.test \in {"IS_TRUE", "IS_FALSE"}
  BY <1>1 DEF qualFromBooleanTest, MisreadSimple
<1> QED BY <1>3, <1>4, <1>5

\* A simple restriction that becomes a qual becomes one of its meaning.
LEMMA SimpleQualMeans ==
    ASSUME NEW r, IsSimple(r), ~MisreadSimple(r), NEW param \in Values \cup {Null},
           simpleQual(r, param) # NoQual
    PROVE  /\ IsQual(simpleQual(r, param)[1])
           /\ \A row : IsRow(row) => QualHolds(simpleQual(r, param)[1], row)
                                   <=> SimpleTruth(r, row, param) = TRUE
<1>1. CASE r.tag = "OpExpr"
  <2>1. simpleQual(r, param) = qualFromOpExpr(r, param)
    BY <1>1 DEF simpleQual
  <2> QED BY <1>1, <2>1, QualOfOpExpr
<1>2. CASE r.tag = "Var"
  <2>1. simpleQual(r, param) = qualFromVar(r)
    BY <1>2 DEF simpleQual
  <2> QED BY <1>2, <2>1, QualOfVar
<1>3. CASE r.tag = "ScalarArrayOpExpr"
  <2>1. simpleQual(r, param) = qualFromScalarOpExpr(r)
    BY <1>3 DEF simpleQual
  <2> QED BY <1>3, <2>1, QualOfArray
<1>4. CASE r.tag = "NullTest"
  <2>1. simpleQual(r, param) = qualFromNullTest(r)
    BY <1>4 DEF simpleQual
  <2> QED BY <1>4, <2>1, QualOfNullTest
<1>5. CASE r.tag = "BooleanTest"
  <2>1. simpleQual(r, param) = qualFromBooleanTest(r)
    BY <1>5 DEF simpleQual
  <2> QED BY <1>5, <2>1, QualOfBooleanTest
<1>6. r.tag \in {"OpExpr", "Var", "ScalarArrayOpExpr", "NullTest", "BooleanTest"}
  BY DEF simpleQual
<1> QED BY <1>1, <1>2, <1>3, <1>4, <1>5, <1>6

-----------------------------------------------------------------------------
(* NOT, and OR.                                                            *)

\* A member of an OR, or a whole restriction that is no OR.
LEMMA MemberQualMeans ==
    ASSUME NEW r, IsMember(r), ~MisreadMember(r), NEW param \in Values \cup {Null},
           NEW made \in memberQuals(r, param), made # NoQual
    PROVE  /\ IsQual(made[1])
           /\ \A row : IsRow(row) => QualHolds(made[1], row) <=> MemberTruth(r, row, param) = TRUE
<1>1. CASE r.tag # "BoolExpr"
  <2>1. made = simpleQual(r, param)
    BY <1>1 DEF memberQuals
  <2>2. IsSimple(r) /\ ~MisreadSimple(r)
    BY <1>1 DEF IsMember, IsBoolExpr, MisreadMember
  <2>3. \A row : MemberTruth(r, row, param) = SimpleTruth(r, row, param)
    BY <1>1 DEF MemberTruth
  <2> QED BY <2>1, <2>2, <2>3, SimpleQualMeans
<1>2. CASE r.tag = "BoolExpr"
  <2> DEFINE arg == r.args[1]
             c == arg.col
  <2>1. r.boolop = "NOT" /\ made \in qualsFromNot(arg)
    BY <1>2 DEF memberQuals
  <2>2. arg.tag = "Var"
    BY <1>2, <2>1 DEF MisreadMember
  <2>3. c \in Columns /\ made = Qual(c, "<>", TrueValue)
    BY <2>1, <2>2 DEF qualsFromNot, columnFromVar
  <2>4. Range(r.args) = {arg}
    <3>1. IsBoolExpr(r)
      BY <1>2 DEF IsMember, IsSimple
    <3>2. r.args \in Seq(Range(r.args)) /\ Len(r.args) = 1
      BY <2>1, <3>1 DEF IsBoolExpr
    <3>3. DOMAIN r.args = {1}
      BY <3>2
    <3> QED BY <3>3 DEF Range
  <2>5. \A row : SimpleTruth(arg, row, param) = AsTruth(row[c])
    BY <2>2, <2>3 DEF SimpleTruth, Operand, Unwrapped
  <2> HIDE DEF arg, c
  <2>6. ASSUME NEW row
        PROVE  MemberTruth(r, row, param) = Not3(AsTruth(row[c]))
    <3>1. {SimpleTruth(m, row, param) : m \in Range(r.args)} = {AsTruth(row[c])}
      BY <2>4, <2>5
    <3>2. MemberTruth(r, row, param)
              = Connective("NOT", {SimpleTruth(m, row, param) : m \in Range(r.args)})
      BY <1>2, <2>1 DEF MemberTruth
    <3>3. Connective("NOT", {AsTruth(row[c])}) = Not3(CHOOSE t \in {AsTruth(row[c])} : TRUE)
      BY DEF Connective
    <3>4. (CHOOSE t \in {AsTruth(row[c])} : TRUE) = AsTruth(row[c])
      OBVIOUS
    <3> QED BY <3>1, <3>2, <3>3, <3>4
  <2>7. ASSUME NEW row, IsRow(row)
        PROVE  QualHolds(made[1], row) <=> MemberTruth(r, row, param) = TRUE
    <3>1. row[c] \in Values \cup {Null}
      BY <2>3, <2>7 DEF IsRow
    <3>2. QualHolds(made[1], row) <=> AsTruth(row[c]) = FALSE
      BY <2>3, <2>7, QualOfTruth
    <3>3. Not3(AsTruth(row[c])) = TRUE <=> AsTruth(row[c]) = FALSE
      BY <3>1, TruthOfValue
    <3> QED BY <2>6, <3>2, <3>3
  <2>8. IsQual(made[1])
    BY <2>3, MadeQual DEF Operators
  <2> QED BY <2>7, <2>8
<1> QED BY <1>1, <1>2

\* What an "=" qual asks of a row, with one value or with a list.
LEMMA EqualQual ==
    ASSUME NEW q, q.operator = "=", NEW row
    PROVE  QualHolds(q, row) <=> \E v \in q.value.values : Compare("=", row[q.field], v) = TRUE
<1> DEFINE found == {Compare("=", row[q.field], v) : v \in q.value.values}
<1>1. QualHolds(q, row) <=> Or3(found) = TRUE
  BY DEF QualHolds
<1>2. TRUE \in found <=> \E v \in q.value.values : Compare("=", row[q.field], v) = TRUE
  OBVIOUS
<1> HIDE DEF found
<1> QED BY <1>1, <1>2, ThreeValued

\* The list of an OR asks what one of its members asks.
LEMMA QualOfOr ==
    ASSUME NEW members, 1 \in DOMAIN members, qualFromOr(members) # NoQual,
           \A i \in DOMAIN members : IsQual(members[i][1])
    PROVE  /\ \A i \in DOMAIN members : members[i] # NoQual
           /\ IsQual(qualFromOr(members)[1])
           /\ \A row : QualHolds(qualFromOr(members)[1], row)
                           <=> \E i \in DOMAIN members : QualHolds(members[i][1], row)
<1> DEFINE quals == {members[i][1] : i \in DOMAIN members}
           c == members[1][1].field
           all == UNION {q.value.values : q \in quals}
           one == qualFromOr(members)[1]
<1>1. \A i \in DOMAIN members : members[i] # NoQual
  BY DEF qualFromOr
<1>2. /\ \A q \in quals : q.operator = "=" /\ q.field = c
      /\ qualFromOr(members) = Qual(c, "=", ListValue(all))
  BY <1>1 DEF qualFromOr
<1>3. c \in Columns
  BY DEF IsQual
<1>4. \A i \in DOMAIN members : members[i][1].operator = "=" /\ members[i][1].field = c
  BY <1>2
<1>5. \A v : v \in all <=> \E i \in DOMAIN members : v \in members[i][1].value.values
  OBVIOUS
<1> HIDE DEF quals, c, all
<1>6. one.field = c /\ one.operator = "=" /\ one.value = ListValue(all)
  BY <1>2, QualFields
<1> HIDE DEF one
<1>7. one.value.values = all
  BY <1>6 DEF ListValue
<1>8. IsQual(one)
  BY <1>3, <1>6 DEF IsQual, Operators
<1>9. ASSUME NEW row
      PROVE  QualHolds(one, row) <=> \E i \in DOMAIN members : QualHolds(members[i][1], row)
  <2>1. QualHolds(one, row) <=> \E v \in all : Compare("=", row[c], v) = TRUE
    BY <1>6, <1>7, EqualQual
  <2>2. ASSUME NEW i \in DOMAIN members
        PROVE  QualHolds(members[i][1], row)
                   <=> \E v \in members[i][1].value.values : Compare("=", row[c], v) = TRUE
    BY <1>4, EqualQual
  <2> QED BY <1>5, <2>1, <2>2
<1> QED BY <1>1, <1>8, <1>9 DEF one

LEMMA OrQualMeans ==
    ASSUME NEW r, IsCondition(r), ~Misread(r), r.tag = "BoolExpr", r.boolop = "OR",
           NEW param \in Values \cup {Null},
           NEW made \in qualsFromOr(r.args, param), made # NoQual
    PROVE  /\ IsQual(made[1])
           /\ \A row : IsRow(row) => QualHolds(made[1], row) <=> Truth(r, row, param) = TRUE
<1>1. /\ r.args \in Seq(Range(r.args)) /\ r.args # <<>>
      /\ \A m \in Range(r.args) : IsMember(m) /\ ~MisreadMember(m)
  BY DEF IsCondition, IsSimple, IsBoolExpr, Misread
<1>2. PICK f : /\ made = qualFromOr(f) /\ DOMAIN f = DOMAIN r.args
               /\ \A i \in DOMAIN r.args : f[i] \in memberQuals(r.args[i], param)
  BY DEF qualsFromOr
<1>3. 1 \in DOMAIN f
  BY <1>1, <1>2
<1>4. \A i \in DOMAIN f : f[i] # NoQual
  BY <1>2 DEF qualFromOr
<1>5. ASSUME NEW i \in DOMAIN f
      PROVE  /\ IsQual(f[i][1])
             /\ \A row : IsRow(row) => QualHolds(f[i][1], row)
                                     <=> MemberTruth(r.args[i], row, param) = TRUE
  <2>1. r.args[i] \in Range(r.args)
    BY <1>2 DEF Range
  <2>2. IsMember(r.args[i]) /\ ~MisreadMember(r.args[i])
    BY <1>1, <2>1
  <2>3. f[i] \in memberQuals(r.args[i], param) /\ f[i] # NoQual
    BY <1>2, <1>4
  <2> QED BY <2>2, <2>3, MemberQualMeans
<1>6. /\ IsQual(made[1])
      /\ \A row : QualHolds(made[1], row) <=> \E i \in DOMAIN f : QualHolds(f[i][1], row)
  BY <1>2, <1>3, <1>5, QualOfOr
<1>7. ASSUME NEW row, IsRow(row)
      PROVE  QualHolds(made[1], row) <=> Truth(r, row, param) = TRUE
  <2> DEFINE truths == {MemberTruth(m, row, param) : m \in Range(r.args)}
  <2>1. Truth(r, row, param) = Or3(truths)
    BY DEF Truth, Connective
  <2>2. TRUE \in truths <=> \E i \in DOMAIN r.args : MemberTruth(r.args[i], row, param) = TRUE
    BY DEF Range
  <2> HIDE DEF truths
  <2>3. Or3(truths) = TRUE <=> TRUE \in truths
    BY ThreeValued
  <2> QED BY <1>2, <1>5, <1>6, <1>7, <2>1, <2>2, <2>3
<1> QED BY <1>6, <1>7

\* Whatever the columns and their values, a restriction that becomes a qual and
\* is not misread becomes one that keeps the same rows (quals.go:26-90 and the
\* functions it calls).
THEOREM QualMeaning ==
    ASSUME NEW r, IsCondition(r), ~Misread(r), NEW param \in Values \cup {Null},
           NEW made \in singleRestrictionToQual(r, param), made # NoQual
    PROVE  \A row : IsRow(row) => QualHolds(made[1], row) <=> Keeps(r, row, param)
<1>1. CASE r.tag = "BoolExpr" /\ r.boolop = "OR"
  <2>1. made \in qualsFromOr(r.args, param)
    BY <1>1 DEF singleRestrictionToQual
  <2>2. \A row : IsRow(row) => QualHolds(made[1], row) <=> Truth(r, row, param) = TRUE
    BY <1>1, <2>1, OrQualMeans
  <2> QED BY <2>2 DEF Keeps
<1>2. CASE ~(r.tag = "BoolExpr" /\ r.boolop = "OR")
  <2>1. made \in memberQuals(r, param) /\ ~MisreadMember(r)
    BY <1>2 DEF singleRestrictionToQual, Misread
  <2>2. IsMember(r)
    <3>1. CASE r.tag # "BoolExpr"
      BY <3>1 DEF IsCondition, IsMember, IsBoolExpr
    <3>2. CASE r.tag = "BoolExpr"
      <4>1. r.boolop = "NOT"
        BY <3>2, <2>1 DEF memberQuals
      <4>2. r.args[1].tag = "Var"
        BY <3>2, <4>1, <2>1 DEF MisreadMember
      <4>3. IsBoolExpr(r) /\ Len(r.args) = 1 /\ \A m \in Range(r.args) : IsMember(m)
        BY <3>2, <4>1 DEF IsCondition, IsSimple, IsBoolExpr
      <4>4. Range(r.args) = {r.args[1]}
        BY <4>3 DEF IsBoolExpr, Range
      <4>5. IsSimple(r.args[1])
        BY <4>2, <4>3, <4>4 DEF IsMember, IsBoolExpr
      <4> QED BY <4>3, <4>4, <4>5 DEF IsMember
    <3> QED BY <3>1, <3>2
  <2>3. \A row : IsRow(row) => QualHolds(made[1], row) <=> MemberTruth(r, row, param) = TRUE
    BY <2>1, <2>2, MemberQualMeans
  <2>4. \A row : MemberTruth(r, row, param) = TRUE <=> Truth(r, row, param) = TRUE
    <3>1. CASE r.tag # "BoolExpr"
      BY <3>1 DEF MemberTruth, Truth
    <3>2. CASE r.tag = "BoolExpr"
      <4>1. r.boolop = "NOT" /\ r.args[1].tag = "Var"
        BY <3>2, <2>1 DEF memberQuals, MisreadMember
      <4>2. Range(r.args) = {r.args[1]}
        BY <3>2, <2>2, <4>1 DEF IsMember, IsSimple, IsBoolExpr, Range
      <4>3. \A row : MemberTruth(r.args[1], row, param) = SimpleTruth(r.args[1], row, param)
        BY <4>1 DEF MemberTruth
      <4>4. \A row : {MemberTruth(m, row, param) : m \in Range(r.args)}
                        = {SimpleTruth(m, row, param) : m \in Range(r.args)}
        BY <4>2, <4>3
      <4> QED BY <3>2, <4>4 DEF MemberTruth, Truth
    <3> QED BY <3>1, <3>2
  <2> QED BY <2>3, <2>4 DEF Keeps
<1> QED BY <1>1, <1>2

=============================================================================
