---------------------------- MODULE MCSplitUDFs ----------------------------
(***************************************************************************)
(* Model-checking instance of SplitUDFs: the plans handed to the rule are  *)
(* every Project over a scan of Columns whose expressions are built from   *)
(* the operators in ExprOps, up to ExprSize nodes each, at most Width      *)
(* expressions and TotalSize nodes in all, plus the scenarios of the spec  *)
(* (section 8) and of the unit tests of split_udfs.rs, and every Project  *)
(* over a Project over the scan whose projections have at most NestedSize *)
(* nodes, the inner one computing a UDF under the scan's column names.    *)
(***************************************************************************)
EXTENDS SplitUDFs, FiniteSets

CONSTANTS
    Columns,        \* the scan's columns, in schema order
    OutNames,       \* names user aliases give to computed columns
    ExprOps,        \* operators expressions are built from
    ExprSize,       \* max nodes of one expression
    Width,          \* max expressions of a projection
    TotalSize,      \* max nodes of a whole projection
    AllowShadowing, \* may a computed column take the name of a column another expression reads?
    NestedSize      \* max nodes of each projection of a Project over a Project (0: none)

ASSUME /\ ExprOps \subseteq {"lit", "udf", "add", "listmap"}
       /\ AllowShadowing \in BOOLEAN

Leaves == {Col(Columns[i]) : i \in DOMAIN Columns} \cup (IF "lit" \in ExprOps THEN {Lit} ELSE {})

\* Binary nodes built with Mk over every split of n - 1 nodes.
Binary(n, Mk(_, _), E) ==
    UNION {{Mk(x, y) : x \in E[i], y \in E[n - 1 - i]} : i \in 1..(n - 2)}

ExprsOfSize[n \in 1..ExprSize] ==
    IF n = 1 THEN Leaves
    ELSE (IF "udf" \in ExprOps
          THEN {Udf(<<x>>) : x \in ExprsOfSize[n - 1]}
               \cup Binary(n, LAMBDA x, y : Udf(<<x, y>>), ExprsOfSize)
          ELSE {})
         \cup (IF "add" \in ExprOps THEN Binary(n, Add, ExprsOfSize) ELSE {})
         \cup (IF "listmap" \in ExprOps THEN {ListMap(x) : x \in ExprsOfSize[n - 1]} ELSE {})

\* An expression as it stands in a projection, by its number of nodes: a
\* column, or a computed expression either unaliased (named after its first
\* input) or aliased.
ProjectionExprs[n \in 1..(ExprSize + 1)] ==
    (IF n <= ExprSize THEN ExprsOfSize[n] ELSE {})
    \cup (IF n > 1 THEN {Alias(e, o) : e \in {x \in ExprsOfSize[n - 1] : x.op # "col"},
                                      o \in OutNames}
                   ELSE {})

\* Projections of exactly w expressions and at most `budget` nodes.
RECURSIVE Projections(_, _)
Projections(w, budget) ==
    IF w = 0 THEN {<<>>}
    ELSE UNION {{<<e>> \o rest : e \in ProjectionExprs[n],
                                 rest \in Projections(w - 1, budget - n)} :
                 n \in 1..Min({budget - (w - 1), ExprSize + 1})}

\* A computed column named like a column that another expression reads.
Shadows(es) ==
    \E i, j \in DOMAIN es :
        /\ i # j
        /\ es[i].op # "col"
        /\ Name(es[i]) \in ColumnsOf(es[j])

ValidProjection(es) ==
    /\ \A i, j \in DOMAIN es : i # j => Name(es[i]) # Name(es[j])
    /\ AllowShadowing \/ ~Shadows(es)

MCColumns == <<"a", "b">>

a == Col("a")
b == Col("b")

F(x) == Udf(<<x>>)

(***************************************************************************)
(* The unit tests of split_udfs.rs, each as <<input plan, expected plan>>  *)
(* for one application of the rule (RuleExecutionStrategy::Once).          *)
(* with_columns(es) is a Project of the input columns followed by es.      *)
(***************************************************************************)
test_with_column_actor_pool_udf_happypath ==
    LET S == Scan(<<"a">>)
    IN << Project(S, <<a, Alias(F(a), "b")>>),
          Project(UDFProject(Project(S, <<a>>), Alias(F(a), "b"), <<a>>), <<a, Col("b")>>) >>

test_multiple_with_column_parallel ==
    LET S  == Scan(<<"a", "b">>)
        N0 == "__TruncateRootUDF_0-2-0__"
        N1 == "__TruncateRootUDF_0-3-0__"
        E3 == UDFProject(UDFProject(Project(S, <<a, b>>), Alias(F(a), N0), <<a, b>>),
                         Alias(F(b), N1), <<a, b, Col(N0)>>)
        E5 == Project(Project(E3, <<a, b, Col(N0), Col(N1)>>), <<Col(N0), Col(N1), a, b>>)
        E7 == UDFProject(UDFProject(E5, Alias(F(Col(N0)), "a_prime"), <<Col(N0), Col(N1), a, b>>),
                         Alias(F(Col(N1)), "b_prime"), <<Col(N0), Col(N1), a, b, Col("a_prime")>>)
    IN << Project(S, <<a, b, Alias(F(F(a)), "a_prime"), Alias(F(F(b)), "b_prime")>>),
          Project(E7, <<a, b, Col("a_prime"), Col("b_prime")>>) >>

test_multiple_with_column_serial ==
    LET S == Scan(<<"a">>)
        N == "__TruncateRootUDF_0-1-0__"
        E == Project(Project(UDFProject(Project(S, <<a>>), Alias(F(a), N), <<a>>),
                             <<a, Col(N)>>), <<Col(N), a>>)
    IN << Project(S, <<a, Alias(F(F(a)), "b")>>),
          Project(UDFProject(E, Alias(F(Col(N)), "b"), <<Col(N), a>>), <<a, Col("b")>>) >>

test_multiple_with_column_serial_no_alias ==
    LET S == Scan(<<"a">>)
        N == "__TruncateRootUDF_0-0-0__"
        E == Project(Project(UDFProject(Project(S, <<a>>), Alias(F(a), N), <<a>>),
                             <<Col(N)>>), <<Col(N)>>)
    IN << Project(S, <<F(F(a))>>),
          Project(UDFProject(E, Alias(F(Col(N)), "a"), <<Col(N)>>), <<a>>) >>

test_multiple_with_column_serial_multiarg ==
    LET S  == Scan(<<"a", "b">>)
        N0 == "__TruncateRootUDF_0-0-0__"
        N1 == "__TruncateRootUDF_0-0-1__"
        E2 == UDFProject(UDFProject(Project(S, <<a, b>>), Alias(F(a), N0), <<a, b>>),
                         Alias(F(b), N1), <<a, b, Col(N0)>>)
        E4 == Project(Project(E2, <<Col(N0), Col(N1)>>), <<Col(N0), Col(N1)>>)
    IN << Project(S, <<Alias(Udf(<<F(a), F(b)>>), "c")>>),
          Project(UDFProject(E4, Alias(Udf(<<Col(N0), Col(N1)>>), "c"), <<Col(N0), Col(N1)>>),
                  <<Col("c")>>) >>

test_multiple_with_column_serial_multiarg_with_intermediate_stateless ==
    LET S  == Scan(<<"a", "b">>)
        P0 == "__TruncateAnyUDFChildren_1-0-0__"
        P1 == "__TruncateAnyUDFChildren_1-0-1__"
        P2 == "__TruncateRootUDF_0-0-0__"
        J3 == UDFProject(UDFProject(Project(S, <<a, b>>), Alias(F(a), P0), <<a, b>>),
                         Alias(F(b), P1), <<a, b, Col(P0)>>)
        J5 == Project(Project(J3, <<Col(P0), Col(P1)>>),
                      <<Col(P0), Col(P1), Alias(Add(Col(P0), Col(P1)), P2)>>)
        J7 == Project(Project(J5, <<Col(P2)>>), <<Col(P2)>>)
    IN << Project(S, <<Alias(F(Add(F(a), F(b))), "c")>>),
          Project(UDFProject(J7, Alias(F(Col(P2)), "c"), <<Col(P2)>>), <<Col("c")>>) >>

test_nested_with_column_same_names ==
    LET S  == Scan(<<"a">>)
        K0 == "__TruncateAnyUDFChildren_1-1-0__"
        K1 == "__TruncateRootUDF_0-1-0__"
        H3 == Project(UDFProject(Project(S, <<a>>), Alias(F(a), K0), <<a>>), <<a, Col(K0)>>)
        H6 == Project(Project(Project(H3, <<Col(K0), a, Alias(Add(a, Col(K0)), K1)>>),
                              <<a, Col(K1)>>), <<Col(K1), a>>)
    IN << Project(S, <<a, Alias(F(Add(a, F(a))), "c")>>),
          Project(UDFProject(H6, Alias(F(Col(K1)), "c"), <<Col(K1), a>>), <<a, Col("c")>>) >>

test_stateless_expr_with_only_some_actor_pool_children ==
    LET S  == Scan(<<"a">>)
        M0 == "__TruncateAnyUDFChildren_0-1-0__"
        G3 == Project(UDFProject(Project(S, <<a>>), Alias(F(a), M0), <<a>>), <<a, Col(M0)>>)
    IN << Project(S, <<a, Alias(Add(Add(a, a), F(a)), "result")>>),
          Project(Project(G3, <<Col(M0), a, Alias(Add(Add(a, a), Col(M0)), "result")>>),
                  <<a, Col("result")>>) >>

UnitTests ==
    { test_with_column_actor_pool_udf_happypath,
      test_multiple_with_column_parallel,
      test_multiple_with_column_serial,
      test_multiple_with_column_serial_no_alias,
      test_multiple_with_column_serial_multiarg,
      test_multiple_with_column_serial_multiarg_with_intermediate_stateless,
      test_nested_with_column_same_names,
      test_stateless_expr_with_only_some_actor_pool_children }

\* The scenarios of spec section 8 not covered by a unit test.
Scenarios ==
    { <<Alias(Udf(<<Udf(<<a>>)>>), "x"), Alias(Udf(<<Udf(<<b>>)>>), "y")>>,
      <<Alias(Udf(<<Add(Udf(<<a>>), Udf(<<b>>))>>), "x")>>,
      <<a, Alias(Udf(<<Add(a, Udf(<<a>>))>>), "x")>> }

ValidProjections(budget) ==
    {es \in UNION {Projections(w, budget) : w \in 1..Width} : ValidProjection(es)}

\* Inner projections that recompute the scan's columns, one of them at
\* least with a UDF, so that the outer one reads what a UDF produced.
InnerProjections ==
    {es \in ValidProjections(NestedSize) :
        /\ SchemaNames(Project(Scan(Columns), es)) = Columns
        /\ \E i \in DOMAIN es : ExistsUdf(es[i])}

MCInputPlans ==
    {Project(Scan(Columns), es) : es \in ValidProjections(TotalSize) \cup Scenarios}
    \cup {t[1] : t \in UnitTests}
    \cup {Project(Project(Scan(Columns), inner), outer) :
            inner \in InnerProjections, outer \in ValidProjections(NestedSize)}

(* MatchesUnitTests: on the input plan of a unit test of split_udfs.rs the *)
(* rule produces exactly the plan the test expects, generated names and    *)
(* column order included, and a second application leaves it unchanged.    *)
MatchesUnitTests ==
    \A t \in UnitTests : input = t[1] /\ Rewritten => plan = t[2]
=============================================================================
