------------------------------ MODULE ExprTree ------------------------------
(***************************************************************************)
(* Expression trees of daft-dsl as the SplitUDFs optimizer rule sees them, *)
(* and the pure predicates the rule applies to them (the "expression       *)
(* inspector" of the spec).                                                *)
(*                                                                         *)
(* An expression is a record [op, name, args]:                             *)
(*   op   \in {"col", "lit", "alias", "udf", "add", "listmap"}             *)
(*   name  the column name of "col", the alias of "alias", "" otherwise    *)
(*   args  the child expressions, in order                                 *)
(* "add" stands for every stateless Expr (binary ops, builtin scalar       *)
(* functions); "listmap" is the builtin ListMap scalar function whose body *)
(* must not be split.  Column names are strings, so the intermediate names *)
(* the rule formats (__TruncateRootUDF_s-p-k__) are real strings and can   *)
(* collide exactly as they do in the code.                                 *)
(***************************************************************************)
EXTENDS Integers, Sequences, SequencesExt, TLC

Col(n)       == [op |-> "col", name |-> n, args |-> <<>>]
Lit          == [op |-> "lit", name |-> "", args |-> <<>>]
Alias(e, n)  == [op |-> "alias", name |-> n, args |-> <<e>>]
Udf(as)      == [op |-> "udf", name |-> "", args |-> as]
Add(x, y)    == [op |-> "add", name |-> "", args |-> <<x, y>>]
ListMap(e)   == [op |-> "listmap", name |-> "", args |-> <<e>>]

Ops == {"col", "lit", "alias", "udf", "add", "listmap"}

\* Well-formed expression trees (the type of an expression).
RECURSIVE IsExpr(_)
IsExpr(e) ==
    /\ e.op \in Ops
    /\ e.name \in STRING
    /\ \A i \in DOMAIN e.args : IsExpr(e.args[i])

\* Expr::name(): an alias or a column carries its own name, a literal is
\* named "literal", every other expression is named after its first input.
RECURSIVE Name(_)
Name(e) ==
    IF e.op \in {"col", "alias"} THEN e.name
    ELSE IF e.op = "lit" THEN "literal"
    ELSE Name(e.args[1])

\* is_udf: the root of the expression is a UDF (aliases are not transparent).
IsUdf(e) == e.op = "udf"

\* is_list_map: the root is the builtin ListMap scalar function.
IsListMap(e) == e.op = "listmap"

\* requires_computation: false exactly for column and literal leaves.
RequiresComputation(e) == e.op \notin {"col", "lit"}

\* get_required_columns: the column names of e in pre-order, duplicates kept.
RECURSIVE RequiredColumns(_)
RequiredColumns(e) ==
    IF e.op = "col" THEN <<e.name>>
    ELSE FoldLeft(LAMBDA acc, c : acc \o RequiredColumns(c), <<>>, e.args)

\* The set of every column an expression reads, list_map bodies included;
\* this is what plan construction resolves against the input schema.
ColumnsOf(e) == ToSet(RequiredColumns(e))

\* expr.exists(is_udf): a UDF anywhere in the tree, list_map bodies included.
RECURSIVE ExistsUdf(_)
ExistsUdf(e) == IsUdf(e) \/ \E i \in DOMAIN e.args : ExistsUdf(e.args[i])

(***************************************************************************)
(* exists_skip_list_map(expr, is_udf).  The code walks the tree with       *)
(* `apply` in pre-order and returns TreeNodeRecursion::Stop at the first   *)
(* list_map.  Stop ends the WHOLE walk, not just the list_map subtree, so  *)
(* nodes visited after the first list_map in pre-order are never tested.   *)
(* PreOrder lists the nodes in the order `apply` visits them.              *)
(***************************************************************************)
RECURSIVE PreOrder(_)
PreOrder(e) == <<e>> \o FoldLeft(LAMBDA acc, c : acc \o PreOrder(c), <<>>, e.args)

ExistsSkipListMap(e) ==
    LET nodes == PreOrder(e)
        firstLm == IF \E i \in DOMAIN nodes : IsListMap(nodes[i])
                   THEN CHOOSE i \in DOMAIN nodes :
                          IsListMap(nodes[i]) /\ \A j \in 1..(i - 1) : ~IsListMap(nodes[j])
                   ELSE Len(nodes) + 1
    IN \E i \in 1..(firstLm - 1) : IsUdf(nodes[i])

\* Seeded fault for OneUDFPerStage: the predicate never clears its flag, so
\* every expression is handed to TruncateRootUDF.
IsUdfAndShouldTruncateChildrenNeverCleared(e) == TRUE

\* is_udf_and_should_truncate_children: the alias chain at the root ends
\* at a UDF.
RECURSIVE IsUdfAndShouldTruncateChildren(_)
IsUdfAndShouldTruncateChildren(e) ==
    IF e.op = "alias" THEN IsUdfAndShouldTruncateChildren(e.args[1])
    ELSE IsUdf(e)

(***************************************************************************)
(* The spec's reading of exists_skipping_list_map (spec section 4.1): a    *)
(* UDF somewhere in the tree outside every list_map subtree.  It is the    *)
(* reference the invariants are stated with; the code's ExistsSkipListMap  *)
(* above is what the rule itself tests.                                    *)
(***************************************************************************)
RECURSIVE UdfOutsideListMap(_)
UdfOutsideListMap(e) ==
    /\ ~IsListMap(e)
    /\ IsUdf(e) \/ \E i \in DOMAIN e.args : UdfOutsideListMap(e.args[i])

\* The spec's reading of "a UDF at the root, ignoring aliases" (I2).
RECURSIVE UdfAtRoot(_)
UdfAtRoot(e) == IF e.op = "alias" THEN UdfAtRoot(e.args[1]) ELSE e.op = "udf"

\* Number of UDF nodes outside list_map subtrees.
RECURSIVE UdfCount(_)
UdfCount(e) ==
    IF IsListMap(e) THEN 0
    ELSE (IF IsUdf(e) THEN 1 ELSE 0)
         + FoldLeft(LAMBDA acc, c : acc + UdfCount(c), 0, e.args)

\* Number of nodes of an expression.
RECURSIVE Size(_)
Size(e) == 1 + FoldLeft(LAMBDA acc, c : acc + Size(c), 0, e.args)
=============================================================================
