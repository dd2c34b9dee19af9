------------------------------ MODULE SplitUDFs ------------------------------
(***************************************************************************)
(* The SplitUDFs optimizer rule (daft-logical-plan, split_udfs.rs).        *)
(*                                                                         *)
(* The rule is a pure recursive function on plan trees.  Its parts are     *)
(* operators here, each translating one function of split_udfs.rs:         *)
(*   TruncateRootUDF / TruncateAnyUDFChildren   the two TreeNodeRewriters, *)
(*   SplitProjection                            split_projection,          *)
(*   RecursiveOptimizeProject                   recursive_optimize_project,*)
(*   TryOptimizeProject                         try_optimize_project,      *)
(*   TryOptimize                                OptimizerRule::try_optimize*)
(* The state machine at the end is the optimizer driving the rule: it      *)
(* applies the rule to a plan, then applies it again to its own output.    *)
(***************************************************************************)
EXTENDS ExprTree

CONSTANTS
    InputPlans,       \* the plans the optimizer is handed
    MaxApplications,  \* how many times the driver applies the rule
    MaxDepth          \* deepest plan level, and recursion level, explored

ASSUME MaxApplications \in Nat \ {0} /\ MaxDepth \in Nat \ {0}

----------------------------------------------------------------------------
(* Plan nodes: [kind, children, exprs].  A Scan's exprs are its columns, a *)
(* Project's its projection, a UDFProject's its passthrough columns        *)
(* followed by its single UDF expression (its output schema).              *)

Scan(cols)             == [kind |-> "scan", children |-> <<>>,
                           exprs |-> [i \in DOMAIN cols |-> Col(cols[i])]]
Project(in, es)        == [kind |-> "project", children |-> <<in>>, exprs |-> es]
UDFProject(in, u, pas) == [kind |-> "udfproject", children |-> <<in>>,
                           exprs |-> pas \o <<u>>]

SchemaNames(p) == [i \in DOMAIN p.exprs |-> Name(p.exprs[i])]

\* Project::try_new / UDFProject::try_new succeed when every column the
\* expressions read is produced by the input.
Resolves(in, es) == \A i \in DOMAIN es : ColumnsOf(es[i]) \subseteq ToSet(SchemaNames(in))

\* The Result of a fallible step: Ok(plan) with the generated aliases, or Err.
Ok(p, gen) == [ok |-> TRUE, err |-> "none", plan |-> p, gen |-> gen]
Err(kind)  == [ok |-> FALSE, err |-> kind, plan |-> Scan(<<>>), gen |-> <<>>]

----------------------------------------------------------------------------
(* The two TreeNodeRewriters.  A rewriter's state is                       *)
(*   [nc: new_children, s: stage_idx, p: expr_idx, lm: is_list_map flag,   *)
(*    panic: unreachable! reached].                                        *)

\* Seeded fault for MatchesUnitTests: projection index and child index
\* are formatted in the wrong order.
RootNameSwapped(s, p, k) ==
    "__TruncateRootUDF_" \o ToString(s) \o "-" \o ToString(k) \o "-" \o ToString(p) \o "__"

RootName(s, p, k) ==
    "__TruncateRootUDF_" \o ToString(s) \o "-" \o ToString(p) \o "-" \o ToString(k) \o "__"
AnyName(s, p, k) ==
    "__TruncateAnyUDFChildren_" \o ToString(s) \o "-" \o ToString(p) \o "-" \o ToString(k) \o "__"

\* A Column node is pushed onto new_children unless an entry of that name
\* is already there.
AddColumnOnce(st, node) ==
    IF \E i \in DOMAIN st.nc : Name(st.nc[i]) = Name(node) THEN st
    ELSE [st EXCEPT !.nc = Append(@, node)]

\* The children a rewriter lifts: computed ones under a root UDF, UDFs
\* under any other node.
Lift(mode, e) == IF mode = "root" THEN RequiresComputation(e) ELSE IsUdf(e)

\* The name a rewriter gives the k-th child it lifts.
IntermediateName(mode, st, k) ==
    IF mode = "root" THEN RootName(st.s, st.p, k) ELSE AnyName(st.s, st.p, k)

(***************************************************************************)
(* Replaces every child the rewriter lifts by a column with a fresh name   *)
(* and pushes the aliased child onto new_children.  The counter k is a     *)
(* local of f_down, so it restarts at 0 on every node that is truncated.   *)
(***************************************************************************)
TruncateChildren(node, st, mode) ==
    LET ix     == SelectSeq([i \in DOMAIN node.args |-> i], LAMBDA i : Lift(mode, node.args[i]))
        k(i)   == (CHOOSE j \in DOMAIN ix : ix[j] = i) - 1
        nm(i)  == IntermediateName(mode, st, k(i))
    IN [node |-> [node EXCEPT !.args =
                     [i \in DOMAIN node.args |->
                        IF Lift(mode, node.args[i]) THEN Col(nm(i)) ELSE node.args[i]]],
        st   |-> [st EXCEPT !.nc = @ \o [j \in DOMAIN ix |->
                                          Alias(node.args[ix[j]], nm(ix[j]))]]]

\* TruncateRootUDF::f_down
TruncateRootUDF(node, st) ==
    IF node.op = "col" THEN [node |-> node, st |-> AddColumnOnce(st, node)]
    ELSE IF IsListMap(node) THEN [node |-> node, st |-> st]
    ELSE IF IsUdf(node) THEN TruncateChildren(node, st, "root")
    ELSE [node |-> node, st |-> st]

\* TruncateAnyUDFChildren::f_down
TruncateAnyUDFChildren(node, st) ==
    IF st.lm THEN [node |-> node, st |-> st]
    ELSE IF IsUdf(node) THEN [node |-> node, st |-> [st EXCEPT !.panic = TRUE]]
    ELSE IF node.op = "col" THEN [node |-> node, st |-> AddColumnOnce(st, node)]
    ELSE IF IsListMap(node) THEN [node |-> node, st |-> [st EXCEPT !.lm = TRUE]]
    ELSE IF ~\E i \in DOMAIN node.args : IsUdf(node.args[i]) THEN [node |-> node, st |-> st]
    ELSE TruncateChildren(node, st, "any")

FDown(mode, node, st) ==
    IF mode = "root" THEN TruncateRootUDF(node, st) ELSE TruncateAnyUDFChildren(node, st)

\* A node with its children replaced, and the rewriter state after them.
WithArgs(n, c) == [node |-> [n EXCEPT !.args = c.args], st |-> c.st]

(***************************************************************************)
(* TreeNode::rewrite: f_down on the node, then (both rewriters always      *)
(* answer TreeNodeRecursion::Continue) the children of the node f_down     *)
(* returned are rewritten left to right, threading the rewriter's state.   *)
(***************************************************************************)
RECURSIVE Rewrite(_, _, _), RewriteChildren(_, _), RewriteArgs(_, _, _, _),
          RewriteArgsAfter(_, _, _, _)
Rewrite(mode, node, st) == RewriteChildren(mode, FDown(mode, node, st))

\* d is what f_down returned: the node and the rewriter state.
RewriteChildren(mode, d) == WithArgs(d.node, RewriteArgs(mode, d.node.args, d.st, <<>>))

RewriteArgs(mode, args, st, done) ==
    IF Len(done) = Len(args) THEN [args |-> done, st |-> st]
    ELSE RewriteArgsAfter(mode, args, Rewrite(mode, args[Len(done) + 1], st), done)

\* r is the rewritten next child.
RewriteArgsAfter(mode, args, r, done) == RewriteArgs(mode, args, r.st, Append(done, r.node))

NewRewriter(s, p) == [nc |-> <<>>, s |-> s, p |-> p, lm |-> FALSE, panic |-> FALSE]

----------------------------------------------------------------------------
(***************************************************************************)
(* split_projection: for each expression, its truncated form goes to       *)
(* `truncated` and the new children, deduplicated by name, to `remaining`. *)
(* `gen` logs every aliased child a rewriter generated, deduplicated or    *)
(* not; `panic` records an unreachable! in TruncateAnyUDFChildren.         *)
(***************************************************************************)
MergeNewChildren(acc, ncs) ==
    FoldLeft(LAMBDA a, c :
                IF Name(c) \in a.seen THEN a
                ELSE [a EXCEPT !.seen = @ \cup {Name(c)}, !.remaining = Append(@, c)],
             acc, ncs)

\* The accumulator after rewriter r has run on one expression: its
\* truncated form, its new children merged, its generated aliases logged.
AfterRewrite(acc, r) ==
    [MergeNewChildren(acc, r.st.nc) EXCEPT
        !.truncated = Append(@, r.node),
        !.gen = @ \o SelectSeq(r.st.nc, LAMBDA c : c.op = "alias"),
        !.panic = @ \/ r.st.panic]

ColumnExprs(names) == [i \in DOMAIN names |-> Col(names[i])]

\* Seeded fault for RuleSucceeds: an expression without UDFs does not carry
\* the columns it reads into `remaining`.
SplitStepNoRequiredColumns(acc, e, s, p) ==
    IF IsUdfAndShouldTruncateChildren(e) \/ ExistsUdf(e)
    THEN AfterRewrite(acc, Rewrite(IF IsUdfAndShouldTruncateChildren(e) THEN "root" ELSE "any",
                                   e, NewRewriter(s, p)))
    ELSE [acc EXCEPT !.truncated = Append(@, e)]

\* One iteration of the loop of split_projection.
SplitStep(acc, e, s, p) ==
    IF IsUdfAndShouldTruncateChildren(e) \/ ExistsUdf(e)
    THEN AfterRewrite(acc, Rewrite(IF IsUdfAndShouldTruncateChildren(e) THEN "root" ELSE "any",
                                   e, NewRewriter(s, p)))
    ELSE [MergeNewChildren(acc, ColumnExprs(RequiredColumns(e))) EXCEPT
              !.truncated = Append(@, e)]

SplitProjection(exprs, s) ==
    FoldLeftDomain(LAMBDA acc, i : SplitStep(acc, exprs[i], s, i - 1),
                   [truncated |-> <<>>, seen |-> {}, remaining |-> <<>>,
                    gen |-> <<>>, panic |-> FALSE],
                   exprs)

----------------------------------------------------------------------------
\* The stateless Project passes through every column of its input that no
\* stateless expression redefines.
PrePassthrough(child, stateless) ==
    LET slNames   == {Name(stateless[i]) : i \in DOMAIN stateless}
        passNames == SelectSeq(SchemaNames(child), LAMBDA n : n \notin slNames)
    IN [i \in DOMAIN passNames |-> Col(passNames[i])]

\* Seeded fault for SameResult: a UDF stage also passes through the column
\* its own output replaces.
StagePassthroughUnfiltered(plan, u) ==
    [i \in DOMAIN plan.exprs |-> Col(SchemaNames(plan)[i])]

\* A UDFProject passes through every column of its input except the one its
\* UDF expression defines.
StagePassthrough(plan, u) ==
    LET names == SelectSeq(SchemaNames(plan), LAMBDA n : n # Name(u))
    IN [i \in DOMAIN names |-> Col(names[i])]

\* One UDFProject on top of `in`: the UDF u after the passthrough pas.
AddStageOn(in, u, pas, gen) ==
    IF Resolves(in, <<u>> \o pas) THEN Ok(UDFProject(in, u, pas), gen) ELSE Err("MalformedPlan")

AddStage(r, u, gen) == IF ~r.ok THEN r ELSE AddStageOn(r.plan, u, StagePassthrough(r.plan, u), gen)

\* child -> Project[passthrough, stateless] -> one UDFProject per UDF stage.
StageChain(child, preExprs, udfStages, gen) ==
    IF Resolves(child, preExprs)
    THEN FoldLeft(LAMBDA r, u : AddStage(r, u, gen), Ok(Project(child, preExprs), gen), udfStages)
    ELSE Err("MalformedPlan")

\* The final Project selecting col(name) of each original expression.
FinalSelect(chain, final) ==
    IF ~chain.ok THEN chain
    ELSE IF Resolves(chain.plan, final) THEN Ok(Project(chain.plan, final), chain.gen)
    ELSE Err("MalformedPlan")

(***************************************************************************)
(* The stage builder of recursive_optimize_project, given the plan built   *)
(* for `remaining`: truncated expressions are partitioned by               *)
(* exists_skip_list_map into UDF stages and stateless ones.               *)
(***************************************************************************)
BuildStages(projExprs, truncated, child, gen) ==
    FinalSelect(
        StageChain(child,
                   PrePassthrough(child, SelectSeq(truncated, LAMBDA e : ~ExistsSkipListMap(e)))
                     \o SelectSeq(truncated, LAMBDA e : ~ExistsSkipListMap(e)),
                   SelectSeq(truncated, ExistsSkipListMap),
                   gen),
        [i \in DOMAIN projExprs |-> Col(Name(projExprs[i]))])

\* Seeded fault for NoUDFLeak: only UDFs at the root (under aliases) count.
HasUdfsAtRoot(exprs) == \E i \in DOMAIN exprs : IsUdfAndShouldTruncateChildren(exprs[i])

\* Seeded fault for RuleTerminates: the base case sees UDFs inside list_map
\* bodies too, which no rewriter truncates.
HasUdfsAnyDepth(exprs) == \E i \in DOMAIN exprs : ExistsUdf(exprs[i])

\* The base-case test: some expression holds a UDF that is reached before
\* any list_map.
HasUdfs(exprs) == \E i \in DOMAIN exprs : ExistsSkipListMap(exprs[i])

(***************************************************************************)
(* recursive_optimize_project: base case; split; the plan for `remaining`  *)
(* (the input itself when only columns remain, else the rule recursively   *)
(* on Project(input, remaining) at the next stage); then the stages.       *)
(***************************************************************************)
\* The stages built on the plan computed for `remaining`, once it is there.
StagesOver(exprs, sp, child) ==
    IF ~child.ok THEN child
    ELSE BuildStages(exprs, sp.truncated, child.plan, child.gen \o sp.gen)

RECURSIVE RecursiveOptimizeProject(_, _, _, _), OptimizeSplit(_, _, _, _),
          NewPlanChild(_, _, _)
RecursiveOptimizeProject(input, exprs, plan, r) ==
    IF ~HasUdfs(exprs) THEN Ok(plan, <<>>)
    ELSE OptimizeSplit(input, exprs, r, SplitProjection(exprs, r))

OptimizeSplit(input, exprs, r, sp) ==
    IF sp.panic THEN Err("InternalInvariantViolation")
    ELSE StagesOver(exprs, sp, NewPlanChild(input, sp.remaining, r))

NewPlanChild(input, rem, r) ==
    IF r >= MaxDepth THEN Err("Diverged")
    ELSE IF \A i \in DOMAIN rem : rem[i].op = "col" THEN Ok(input, <<>>)
    ELSE IF ~Resolves(input, rem) THEN Err("MalformedPlan")
    ELSE RecursiveOptimizeProject(input, rem, Project(input, rem), r + 1)

\* try_optimize_project: alias UDF-bearing expressions to their own name,
\* then split starting at stage 0.
TryOptimizeProject(node) ==
    RecursiveOptimizeProject(node.children[1],
                             [i \in DOMAIN node.exprs |->
                                IF ExistsUdf(node.exprs[i]) /\ node.exprs[i].op # "alias"
                                THEN Alias(node.exprs[i], Name(node.exprs[i]))
                                ELSE node.exprs[i]],
                             node, 0)

\* Seeded fault for TypeOK: the rebuilt node gets the new child appended
\* to its old children instead of replacing them.
WithChildAppended(r, c) ==
    IF ~c.ok THEN c ELSE Ok([r.plan EXCEPT !.children = Append(@, c.plan)], r.gen \o c.gen)

\* The aliases one try_optimize_project generated, as one entry of the log.
ProjectLog(r) == IF r.ok THEN [r EXCEPT !.gen = <<@>>] ELSE r

\* The node transform_down's closure returned (r), rebuilt with its child
\* transformed (c).
WithChild(r, c) ==
    IF ~c.ok THEN c ELSE Ok([r.plan EXCEPT !.children = <<c.plan>>], r.gen \o c.gen)

(***************************************************************************)
(* OptimizerRule::try_optimize: transform_down over the plan; the children *)
(* visited are those of the node the closure returned, so the Projects the *)
(* rule has just built are visited, and rewritten again if the base case   *)
(* still sees a UDF in them.  d is the plan level visited: a walk (or a    *)
(* recursion of recursive_optimize_project) that goes beyond MaxDepth,     *)
(* deeper than any plan the rule builds from the inputs checked, is one    *)
(* that would not end, and the model stops it as "Diverged".              *)
(***************************************************************************)
RECURSIVE TryOptimize(_, _), TransformChildren(_, _)
TryOptimize(p, d) ==
    IF d > MaxDepth THEN Err("Diverged")
    ELSE TransformChildren(IF p.kind = "project" THEN ProjectLog(TryOptimizeProject(p)) ELSE Ok(p, <<>>), d)

TransformChildren(r, d) ==
    IF ~r.ok \/ r.plan.children = <<>> THEN r
    ELSE WithChild(r, TryOptimize(r.plan.children[1], d + 1))

----------------------------------------------------------------------------
(***************************************************************************)
(* Reference semantics.  Env(p) is the output schema of plan p with, for   *)
(* each column, the expression over the scan's columns it evaluates to     *)
(* (aliases dropped).  Two plans compute the same rows iff their Envs are  *)
(* equal: same names, same order, same values, with UDFs as uninterpreted  *)
(* functions.  A column missing from the input evaluates to Unresolved.    *)
(***************************************************************************)
Unresolved == [op |-> "unresolved", name |-> "", args |-> <<>>]

Lookup(env, n) ==
    IF \E i \in DOMAIN env : env[i].name = n
    THEN env[CHOOSE i \in DOMAIN env : env[i].name = n /\ \A j \in 1..(i - 1) : env[j].name # n].term
    ELSE Unresolved

RECURSIVE Subst(_, _)
Subst(e, env) ==
    IF e.op = "col" THEN Lookup(env, e.name)
    ELSE IF e.op = "alias" THEN Subst(e.args[1], env)
    ELSE [e EXCEPT !.args = [i \in DOMAIN e.args |-> Subst(e.args[i], env)]]

RECURSIVE Env(_)
Env(p) ==
    IF p.kind = "scan"
    THEN [i \in DOMAIN p.exprs |-> [name |-> p.exprs[i].name, term |-> p.exprs[i]]]
    ELSE LET in == Env(p.children[1])
         IN [i \in DOMAIN p.exprs |-> [name |-> Name(p.exprs[i]), term |-> Subst(p.exprs[i], in)]]

\* Every node of a plan tree.
RECURSIVE Nodes(_)
Nodes(p) == {p} \cup UNION {Nodes(p.children[i]) : i \in DOMAIN p.children}

----------------------------------------------------------------------------
(***************************************************************************)
(* The optimizer driving the rule: it is handed `input`, applies the rule  *)
(* (the whole of try_optimize, one step), and applies it again to the      *)
(* result, as a fixed-point rule batch does.  `status` is the outcome of   *)
(* the last application; `gen` logs the aliases generated by the first,    *)
(* one sequence per Project it rewrote.                                    *)
(***************************************************************************)
VARIABLES input, plan, applied, status, gen

vars == <<input, plan, applied, status, gen>>

Init ==
    /\ input \in InputPlans
    /\ plan = input
    /\ applied = 0
    /\ status = "ok"
    /\ gen = <<>>

\* The state after one application of the rule returned r.
Applied(r) ==
    /\ plan' = IF r.ok THEN r.plan ELSE plan
    /\ status' = IF r.ok THEN "ok" ELSE r.err
    /\ gen' = IF applied = 0 THEN r.gen ELSE gen

ApplyRule ==
    /\ status = "ok"
    /\ applied < MaxApplications
    /\ Applied(TryOptimize(plan, 1))
    /\ applied' = applied + 1
    /\ UNCHANGED input

Next == ApplyRule

Spec == Init /\ [][Next]_vars

----------------------------------------------------------------------------
RECURSIVE IsPlan(_)
IsPlan(p) ==
    /\ p.kind \in {"scan", "project", "udfproject"}
    /\ Len(p.children) = IF p.kind = "scan" THEN 0 ELSE 1
    /\ \A i \in DOMAIN p.exprs : IsExpr(p.exprs[i])
    /\ \A i \in DOMAIN p.children : IsPlan(p.children[i])

TypeOK ==
    /\ IsPlan(input) /\ IsPlan(plan)
    /\ applied \in 0..MaxApplications
    /\ status \in {"ok", "MalformedPlan", "InternalInvariantViolation", "Diverged"}
    /\ \A k \in DOMAIN gen : \A i \in DOMAIN gen[k] : gen[k][i].op = "alias"

Rewritten == applied > 0 /\ status = "ok"

(* RuleSucceeds (spec I4, section 7): on a well-formed plan the rule never *)
(* fails: every Project and UDFProject that recursive_optimize_project     *)
(* builds reads only columns its input produces, and TruncateAnyUDFChildren*)
(* never meets a UDF (its unreachable! is unreachable).                    *)
RuleSucceeds == status = "ok"

(* NoUDFLeak (spec I1/P1): after the rule, no Project of the plan holds a  *)
(* UDF outside a list_map; the base-case test and the partition of         *)
(* truncated expressions into UDF and stateless stages must agree on it.   *)
NoUDFLeak ==
    Rewritten =>
        \A n \in Nodes(plan) : n.kind = "project" =>
            \A i \in DOMAIN n.exprs : ~UdfOutsideListMap(n.exprs[i])

(* OneUDFPerStage (spec I2/P2): every UDFProject the rule builds has a     *)
(* single UDF outside list_map bodies, at the root of its expression under *)
(* aliases, and passes through bare columns only.                          *)
OneUDFPerStage ==
    Rewritten =>
        \A n \in Nodes(plan) : n.kind = "udfproject" =>
            LET u == Last(n.exprs) IN
            /\ UdfAtRoot(u)
            /\ UdfCount(u) = 1
            /\ \A i \in 1..(Len(n.exprs) - 1) : n.exprs[i].op = "col"

(* SameResult (spec section 6 (b), I3/P3): the rewritten plan computes the *)
(* same columns, with the same names, in the same order and with the same  *)
(* values as the plan the optimizer was handed: stages may not read a      *)
(* column after another stage replaced it, nor an intermediate that a      *)
(* different expression defined under the same generated name.            *)
SameResult == Rewritten => Env(plan) = Env(input)

(* RuleTerminates (spec section 1, item 5): every application of the rule  *)
(* ends.  transform_down visits the Projects recursive_optimize_project    *)
(* has just built; the base-case test (exists_skip_list_map) must hold of  *)
(* none of them, or each visit builds another such Project below it.  Each *)
(* recursion on `remaining` must likewise reach a Project of columns only. *)
RuleTerminates == status # "Diverged"

(* UniqueIntermediates (spec I5/P5): two aliases the rewriters generate    *)
(* for one Project with the same name define the same expression; a name  *)
(* reused for a different child makes split_projection drop that child.   *)
(* Two Projects of one plan each start at stage 0 and do reuse names; the *)
(* final select of the inner one drops its intermediates, and SameResult  *)
(* checks that the reuse is harmless.                                     *)
UniqueIntermediates ==
    \A k \in DOMAIN gen :
        \A i, j \in DOMAIN gen[k] : gen[k][i].name = gen[k][j].name => gen[k][i] = gen[k][j]

=============================================================================
