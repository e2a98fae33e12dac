--------------------------- MODULE MCScanPlanning ---------------------------
(* The queries TLC plans: slices that vary limits and orders, restrictions,
   connections and join keys, each with what it interacts with. *)
EXTENDS ScanPlanning

MCColumns == {"a", "b", "c"}
MCValues == {0, 1, 2}

(* the table's rows, dealt out to the connections *)
RowList == << <<1, Null>>, <<0, 1>>, <<1, 1>>, <<Null, 0>>, <<0, 0>> >>
Dealt(connections) ==
    [i \in DOMAIN RowList |-> [connection |-> connections[(i % Len(connections)) + 1],
                               a |-> RowList[i][1], b |-> RowList[i][2], c |-> i % 2]]
MCTables == [one |-> Dealt(<<"c1">>), two |-> Dealt(<<"c1", "c2">>)]

(* schemas *)
Key(name, require, operators) == [name |-> name, require |-> require, operators |-> operators]
Equality == {"=", "<>"}
AllOperators == {"=", "<>", "<", ">", "~~", "is null", "is not null"}
ListSchema(keys) ==
    [listKeys |-> keys, getKeys |-> <<>>, columns |-> MCColumns, mode |-> "static", legacy |-> FALSE,
     legacyRequired |-> NoColumnSet, legacyOptional |-> NoColumnSet,
     sortable |-> [a |-> "all", b |-> "desc", c |-> "none"]]
LegacySchema(required, optional) ==
    [ListSchema(<<>>) EXCEPT !.legacy = TRUE, !.legacyRequired = required, !.legacyOptional = optional]
InMode(schema, mode) == [schema EXCEPT !.mode = mode]

KeyA == Key("a", "optional", Equality)
SchemaA == ListSchema(<<KeyA>>)

(* schemas whose keys give paths: one letter for the requirement of each of a and
   b, then what is listed besides *)
Requirement == [r |-> "required", o |-> "optional", y |-> "anyof"]
Besides == [none |-> <<>>, cy |-> <<Key("c", "anyof", Equality)>>, cr |-> <<Key("c", "required", Equality)>>,
            co |-> <<Key("c", "optional", Equality)>>, again |-> <<Key("a", "optional", Equality)>>,
            other |-> <<Key("d", "required", Equality)>>]
KeySchemaNames == (DOMAIN Requirement) \X (DOMAIN Requirement) \X (DOMAIN Besides)
KeySchemas ==
    [n \in KeySchemaNames |->
        ListSchema(<<Key("a", Requirement[n[1]], Equality), Key("b", Requirement[n[2]], Equality)>> \o Besides[n[3]])]

NamedSchemas ==
    [A |-> SchemaA, ADynamic |-> InMode(SchemaA, "dynamic"), AUnset |-> InMode(SchemaA, "unset"),
     AB |-> ListSchema(<<Key("a", "optional", AllOperators), Key("b", "optional", AllOperators)>>),
     Equals |-> ListSchema(<<Key("a", "optional", {"="}), Key("b", "optional", {"="})>>),
     NoKeyDynamic |-> InMode(ListSchema(<<>>), "dynamic"),
     Get |-> [SchemaA EXCEPT !.getKeys = <<KeyA>>],
     GetOnly |-> [SchemaA EXCEPT !.getKeys = <<Key("b", "required", {"="}), Key("c", "required", {"="})>>],
     LegacySingle |-> LegacySchema([NoColumnSet EXCEPT !.single = {"a"}], NoColumnSet),
     LegacyAny |-> LegacySchema([single |-> {}, any |-> {"a", "b"}, all |-> {"b", "c"}], [NoColumnSet EXCEPT !.any = {"c"}]),
     LegacyOptional |-> LegacySchema(NoColumnSet, [NoColumnSet EXCEPT !.all = {"b", "c"}])]
Legacy == {"LegacySingle", "LegacyAny", "LegacyOptional"}
MCSchemas == [n \in {<<m>> : m \in DOMAIN NamedSchemas} \cup KeySchemaNames |->
                IF Len(n) = 1 THEN NamedSchemas[n[1]] ELSE KeySchemas[n]]

(* queries *)
None == [kind |-> "none", value |-> 0]
Constant(v) == [kind |-> "const", value |-> v]
Parameter(v) == [kind |-> "param", value |-> v]
NullLimit == [kind |-> "null", value |-> 0]

Query(shape, limit, offset, order, restrictions, connections, schemas) ==
    [shape |-> shape, limit |-> limit, offset |-> offset, order |-> order, restrictions |-> restrictions,
     correlated |-> FALSE, joins |-> {}, connections |-> connections, schemas |-> schemas,
     table |-> IF Len(connections) = 1 THEN "one" ELSE "two"]
OneConnection(schema) == [c \in {"c1"} |-> schema]
Plain(limit, offset, order, restrictions, schema) ==
    Query("plain", limit, offset, order, restrictions, <<"c1">>, OneConnection(schema))

By(col, reversed) == [col |-> col, reversed |-> reversed, nullsFirst |-> reversed, expr |-> FALSE]
ByExpression(col) == [By(col, FALSE) EXCEPT !.expr = TRUE]
ByNullsFirst(col) == [By(col, FALSE) EXCEPT !.nullsFirst = TRUE]
Orders == {<<>>, <<By("a", FALSE)>>, <<By("a", TRUE), By("b", TRUE)>>, <<By("b", TRUE), By("c", FALSE)>>,
           <<By("b", FALSE)>>, <<ByExpression("a")>>, <<By("a", FALSE), ByExpression("b")>>, <<ByNullsFirst("a")>>}

IsOne(c) == OpExpr("=", Var(c), Const(1))
FewRestrictions == {<<>>, <<IsOne("a")>>, <<OpExpr("<>", Var("a"), Const(0)), IsOne("b")>>}

LimitSlice ==
    {Plain(l, o, s, r, x) :
        l \in {None, NullLimit, Parameter(1), Constant(0), Constant(1), Constant(3), Constant(5)},
        o \in {None, NullLimit, Constant(1), Constant(3), Parameter(1)},
        s \in Orders, r \in FewRestrictions, x \in {<<"A">>, <<"AB">>, <<"Equals">>}}

ShapeSlice ==
    {Query(h, Constant(l), None, s, r, <<"c1">>, OneConnection(<<"A">>)) :
        h \in {"grouped", "distinct", "aggregate", "window", "ties"}, l \in {1, 2},
        s \in {<<By("a", FALSE)>>, <<By("b", TRUE)>>}, r \in FewRestrictions}

ConnectionSlice ==
    {Query("plain", Constant(l), None, s, r, <<"c1", "c2">>, [c \in {"c1", "c2"} |-> IF c = "c1" THEN x ELSE y]) :
        l \in {1, 2}, s \in {<<>>, <<By("a", FALSE)>>}, r \in FewRestrictions,
        x \in {<<"A">>, <<"ADynamic">>, <<"AUnset">>, <<"Get">>, <<"GetOnly">>},
        y \in {<<"A">>, <<"ADynamic">>, <<"AUnset">>, <<"NoKeyDynamic">>, <<"Get">>, <<"GetOnly">>}}

Operands == {Const(1), Const(Null), Infinity, Calc("opexpr", 1), Calc("jsonb", 1), Calc("funcexpr", 1),
             Calc("volatile", 1), Relabel(Param), Var("b"), Var(SystemColumn)}
Comparisons ==
    {OpExpr(op, Var("a"), e) : op \in {"=", "<>", "<", ">"}, e \in Operands \cup {Param}}
      \cup {OpExpr(op, e, Relabel(Var("a"))) : op \in {"=", "<", "~~"}, e \in Operands \cup {Param}}
      \cup {OpExpr("=", Var(SystemColumn), Const(1))}
Arrays ==
    {ScalarArrayOpExpr(op, useOr, v, elems) : op \in {"=", "<>"}, useOr \in BOOLEAN,
        v \in {Var("a"), Relabel(Var("b")), Var(SystemColumn)},
        elems \in {<<>>, <<0, 1>>, <<1, 1, Null>>, <<Null, 2>>}}
Tests ==
    {NullTest(e, n) : e \in {Var("a"), Var(SystemColumn), FuncExpr("b")}, n \in BOOLEAN}
      \cup {BooleanTest(e, t) : e \in {Var("b"), FuncExpr("b")},
                t \in {"IS_TRUE", "IS_NOT_TRUE", "IS_FALSE", "IS_NOT_FALSE", "IS_UNKNOWN", "IS_NOT_UNKNOWN"}}
Simple == {Var("b"), FuncExpr("b"), IsOne("a"), OpExpr("=", Var("a"), Param), OpExpr("<", Var("a"), Const(1)),
           IsOne("b"), ScalarArrayOpExpr("=", TRUE, Var("a"), <<Null, 0>>), NullTest(Var("a"), TRUE)}
Members == Simple \cup {Not(Var("b")), Not(FuncExpr("b")), BoolExpr("AND", <<IsOne("a"), Var("b")>>)}
Booleans ==
    {Not(r) : r \in {Var("b"), FuncExpr("b")}}
      \cup {BoolExpr("OR", <<r, s>>) : r \in {IsOne("a"), OpExpr("=", Var("a"), Param), Var("b"),
                                               OpExpr("=", Const(0), Relabel(Var("a")))}, s \in Members}
AllRestrictions == {Var("b"), FuncExpr("b")} \cup Comparisons \cup Arrays \cup Tests \cup Booleans

RestrictionSlice ==
    {[Plain(Constant(l), None, <<>>, rs, x) EXCEPT !.correlated = TRUE] :
        l \in {1}, x \in {<<"AB">>},
        rs \in {<<r>> : r \in AllRestrictions} \cup {<<r, s>> : r \in Simple, s \in {FuncExpr("b"), IsOne("b"), OpExpr("=", Var("a"), Param),
                                  ScalarArrayOpExpr("=", TRUE, Var("b"), <<Null, 1>>)}}}

Join(cols, outer, restriction) == [columns |-> cols, outer |-> outer, restriction |-> restriction]
JoinClauses ==
    {Join({c}, TRUE, OpExpr("=", Var(c), Param)) : c \in MCColumns}
      \cup {Join({"a", "b"}, TRUE, OpExpr("=", Calc("opexpr", 1), Param)), Join({"b"}, FALSE, IsOne("b"))}
JoinQuery(order, schema, joins) ==
    [Query("join", Constant(1), None, order, <<>>, <<"c1">>, OneConnection(schema)) EXCEPT !.joins = joins]
JoinSlice ==
    {JoinQuery(<<>>, x, j) : x \in KeySchemaNames \cup {<<n>> : n \in Legacy},
                             j \in {k \in SUBSET JoinClauses : Cardinality(k) <= 3}}
      \cup {JoinQuery(<<By("a", FALSE)>>, <<"r", "y", "cy">>, j) : j \in SUBSET JoinClauses}

MCQueries == LimitSlice \cup ShapeSlice \cup ConnectionSlice \cup RestrictionSlice \cup JoinSlice
=============================================================================
