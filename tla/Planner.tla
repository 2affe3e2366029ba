------------------------------- MODULE Planner -------------------------------
(***************************************************************************)
(* From clauses to a plan (planner/mod.rs).                                *)
(*                                                                         *)
(* A plan is a sequence of operators, what runs first coming first: each   *)
(* operator has one source, the ones before it.  <<>> is the plan of       *)
(* nothing (EmptySource) and, at the end, a PlanError.  Names stand for    *)
(* the ids of labels, types and keys; "" is an anonymous variable.         *)
(***************************************************************************)
EXTENDS Syntax, SequencesExt

CONSTANT DefaultMaxHops     \* of a path whose pattern sets no limit: 10
ASSUME HopsAssumption == DefaultMaxHops \in Nat

AnonRel == "_anon_rel"
NoPlan == <<[op |-> "error"]>>
Ready(plan) == plan # NoPlan

-----------------------------------------------------------------------------
(* Operators (LogicalPlan).                                                *)

FilterOp(predicate) == [op |-> "Filter", predicate |-> predicate]
NodeScanOp(variable, label) == [op |-> "NodeScan", variable |-> variable, label |-> label, limit |-> <<>>]
SubgraphScanOp(variable) == [op |-> "SubgraphScan", variable |-> variable]
HyperEdgeScanOp(variable) == [op |-> "HyperEdgeScan", variable |-> variable]
AsOfScanOp(time) == [op |-> "AsOfScan", time |-> time]
TemporalRangeScanOp(start, end) == [op |-> "TemporalRangeScan", start |-> start, end |-> end]
ProjectOp(items, distinct) == [op |-> "Project", items |-> items, distinct |-> distinct]
SortOp(items) == [op |-> "Sort", items |-> items]
SkipOp(count) == [op |-> "Skip", count |-> count]
LimitOp(count) == [op |-> "Limit", count |-> count]
WithOp(items, distinct, where) == [op |-> "With", items |-> items, distinct |-> distinct, where |-> where]
UnwindOp(expr, name) == [op |-> "Unwind", expr |-> expr, name |-> name]
CreateOp(pattern) == [op |-> "CreateOp", pattern |-> pattern]
MergeOp(pattern, on) == [op |-> "MergeOp", pattern |-> pattern, on |-> on]
SetOp(items) == [op |-> "SetOp", items |-> items]
RemoveOp(items) == [op |-> "RemoveOp", items |-> items]
DeleteOp(exprs, detach) == [op |-> "DeleteOp", exprs |-> exprs, detach |-> detach]
CreateSnapshotOp(variable, properties, anchor, vars, plan) ==
    [op |-> "CreateSnapshotOp", variable |-> variable, properties |-> properties, anchor |-> anchor,
     vars |-> vars, plan |-> plan]
CreateHyperedgeOp(variable, labels, sources, targets) ==
    [op |-> "CreateHyperedgeOp", variable |-> variable, labels |-> labels, sources |-> sources,
     targets |-> targets]

-----------------------------------------------------------------------------
(* Patterns.                                                               *)

\* build_inline_property_predicate: {p: 1, q: 2} is n.p = 1 AND n.q = 2.
InlineFilter(name, opt) ==
    LET entries == IF opt = <<>> THEN <<>> ELSE opt[1].entries
        Equal(x) == BinExpr("=", PropExpr(VarExpr(name), x.key), x.value)
    IN  IF entries = <<>> THEN <<>>
        ELSE <<FilterOp(FoldLeft(LAMBDA all, x : BinExpr("AND", all, Equal(x)), Equal(Head(entries)), Tail(entries)))>>

\* extract_src_var: the variable an expansion starts from.
RECURSIVE SourceVar(_)
SourceVar(plan) ==
    IF plan = <<>> THEN ""
    ELSE LET last == plan[Len(plan)]
         IN  CASE last.op \in {"NodeScan", "SubgraphScan", "HyperEdgeScan"} -> last.variable
               [] last.op \in {"Expand", "VarLengthExpand", "OptionalExpand"} -> last.target
               [] last.op \in {"Filter", "AsOfScan", "TemporalRangeScan"} -> SourceVar(Front(plan))
               [] OTHER -> ""

ExpandOp(plan, step, rel) ==
    [op |-> "Expand", src |-> SourceVar(plan), rel |-> rel, target |-> NameOr(step.node.variable, ""),
     type |-> FirstOf(step.rel.types), direction |-> step.rel.direction, temporal |-> <<>>]
VarLengthExpandOp(expand, hops) ==
    [expand EXCEPT !.op = "VarLengthExpand"] @@ [min |-> hops.min, max |-> NameOr(hops.max, DefaultMaxHops)]
OptionalExpandOp(plan, step) ==
    [ExpandOp(plan, step, step.rel.variable) EXCEPT !.op = "OptionalExpand"]

\* plan_pattern_chain.  Only the first label of the first node counts, only the first type; the
\* labels of the other nodes do not.  A subgraph has no paths of variable length.
IsSubgraph(n) == n.labels # <<>> /\ Head(n.labels) = "Subgraph"
PlanStep(plan, step, hops) ==
    LET rel == IF step.rel.variable = <<>> /\ InlineFilter("", step.rel.properties) # <<>> THEN <<AnonRel>>
               ELSE step.rel.variable
        expand == ExpandOp(plan, step, rel)
    IN  plan \o <<IF hops = <<>> THEN expand ELSE VarLengthExpandOp(expand, hops[1])>>
        \o (IF rel = <<>> THEN <<>> ELSE InlineFilter(rel[1], step.rel.properties))
        \o InlineFilter(expand.target, step.node.properties)
PlanChain(chain) ==
    LET name == NameOr(chain.first.variable, "")
        scan == IF IsSubgraph(chain.first) THEN SubgraphScanOp(name)
                ELSE NodeScanOp(name, FirstOf(chain.first.labels))
    IN  FoldLeft(LAMBDA plan, step : PlanStep(plan, step, IF IsSubgraph(chain.first) THEN <<>> ELSE step.rel.hops),
                 <<scan>> \o InlineFilter(name, chain.first.properties), chain.steps)

\* plan_match: the first chain alone; what was planned before is dropped.
Annotate(plan, temporal) ==
    [k \in DOMAIN plan |-> IF plan[k].op \in {"Expand", "VarLengthExpand"}
                           THEN [plan[k] EXCEPT !.temporal = temporal] ELSE plan[k]]
TemporalScan(t) == IF t.op = "as of" THEN AsOfScanOp(t.time) ELSE TemporalRangeScanOp(t.start, t.end)
WhereOp(opt) == IF opt = <<>> THEN <<>> ELSE <<FilterOp(opt[1])>>
InTime(plan, opt) == IF opt = <<>> THEN plan ELSE Append(Annotate(plan, opt), TemporalScan(opt[1]))
PlanMatch(c) == InTime(PlanChain(Head(c.pattern)), c.temporal) \o WhereOp(c.where)

\* plan_optional_match: expands from the last variable of the plan, whatever the pattern's first
\* node is.
PlanOptional(plan, c) ==
    FoldLeft(LAMBDA p, step : Append(p, OptionalExpandOp(p, step)), plan, Head(c.pattern).steps) \o WhereOp(c.where)

\* plan_return, plan_with.  Of aggregates only count is known; with one, DISTINCT and the
\* aliases of the other items are dropped.
AggregateNames == {"count", "sum", "avg", "min", "max", "collect"}
IsAggregate(e) == e.op = "count*" \/ (e.op = "call" /\ e.name \in AggregateNames)
AggregateOp(items) ==
    LET aggs == SelectSeq(items, LAMBDA x : IsAggregate(x.expr))
        keys == SelectSeq(items, LAMBDA x : ~ IsAggregate(x.expr))
        DefaultName(e) == IF e.op = "count*" THEN <<"count(*)">> ELSE <<"count(..)">>
    IN  [op |-> "Aggregate", keys |-> [k \in DOMAIN keys |-> keys[k].expr],
         aggs |-> [k \in DOMAIN aggs |-> [name |-> IF aggs[k].alias # <<>> THEN aggs[k].alias
                                                   ELSE DefaultName(aggs[k].expr),
                                          func |-> aggs[k].expr]]]
HasAggregate(items) == \E k \in DOMAIN items : IsAggregate(items[k].expr)
Unsupported(items) == \E k \in DOMAIN items : items[k].expr.op = "call" /\ IsAggregate(items[k].expr)
                                              /\ items[k].expr.name # "count"
PlanReturn(plan, c) ==
    IF Unsupported(c.items) THEN NoPlan
    ELSE plan \o <<IF HasAggregate(c.items) THEN AggregateOp(c.items)
                   ELSE ProjectOp(c.items, c.distinct)>>
         \o (IF c.order = <<>> THEN <<>> ELSE <<SortOp(c.order)>>)
         \o (IF c.skip = <<>> THEN <<>> ELSE <<SkipOp(c.skip[1])>>)
         \o (IF c.limit = <<>> THEN <<>> ELSE <<LimitOp(c.limit[1])>>)
PlanWith(plan, c) ==
    IF Unsupported(c.items) THEN NoPlan
    ELSE IF HasAggregate(c.items) THEN Append(plan, AggregateOp(c.items)) \o WhereOp(c.where)
    ELSE Append(plan, WithOp(c.items, c.distinct, c.where))

\* plan_create_snapshot: a plan of its own, projected to what RETURN names.
SnapshotVarsBare(items) ==      \* a mistake: an alias is not looked at
    [k \in DOMAIN items |-> IF items[k].expr.op = "var" THEN <<items[k].expr.name>> ELSE <<"">>]
SnapshotVars(items) == [k \in DOMAIN items |-> IF items[k].alias # <<>> THEN items[k].alias
                                               ELSE IF items[k].expr.op = "var" THEN <<items[k].expr.name>>
                                               ELSE <<"">>]
PlanSnapshot(c) ==
    <<CreateSnapshotOp(c.variable, c.properties, c.anchor, SnapshotVars(c.items),
                       PlanChain(Head(c.from.pattern)) \o WhereOp(c.from.where) \o <<ProjectOp(c.items, FALSE)>>)>>

\* Clauses that write, and UNWIND, work on the rows of what is before them.
PlanUnwind(plan, c) == Append(plan, UnwindOp(c.expr, c.name))
PlanCreate(plan, c) == Append(plan, CreateOp(c.pattern))
PlanMerge(plan, c) == Append(plan, MergeOp(c.pattern, c.on))
PlanSet(plan, c) == Append(plan, SetOp(c.items))
PlanRemove(plan, c) == Append(plan, RemoveOp(c.items))
PlanDelete(plan, c) == Append(plan, DeleteOp(c.exprs, c.detach))
PlanCreateHyperedge(plan, c) ==
    Append(plan, CreateHyperedgeOp(c.variable, c.labels, c.sources.of, c.targets.of))
PlanMatchHyperedge(c) == <<HyperEdgeScanOp(NameOr(c.variable, ""))>>
PlanIndex(c) == <<c>>

\* plan_clause.  Clauses that read need something before them; MATCH, index statements,
\* snapshots and MATCH HYPEREDGE drop it.
NeedsSource == {"RETURN", "SET", "DELETE", "REMOVE", "WITH"}
PlanClause(plan, c) ==
    CASE ~ Ready(plan) -> NoPlan
      [] plan = <<>> /\ (c.op \in NeedsSource \/ (c.op = "MATCH" /\ c.optional)) -> NoPlan
      [] c.op = "MATCH" -> IF c.optional THEN PlanOptional(plan, c) ELSE PlanMatch(c)
      [] c.op = "RETURN" -> PlanReturn(plan, c)
      [] c.op = "WITH" -> PlanWith(plan, c)
      [] c.op = "UNWIND" -> PlanUnwind(plan, c)
      [] c.op = "CREATE" -> PlanCreate(plan, c)
      [] c.op = "MERGE" -> PlanMerge(plan, c)
      [] c.op = "SET" -> PlanSet(plan, c)
      [] c.op = "REMOVE" -> PlanRemove(plan, c)
      [] c.op = "DELETE" -> PlanDelete(plan, c)
      [] c.op = "CREATE SNAPSHOT" -> PlanSnapshot(c)
      [] c.op = "CREATE HYPEREDGE" -> PlanCreateHyperedge(plan, c)
      [] c.op = "MATCH HYPEREDGE" -> PlanMatchHyperedge(c)
      [] c.op \in {"CREATE INDEX", "DROP INDEX"} -> PlanIndex(c)

\* plan: NoPlan for an error, that of an empty query included.
Plan(clauses) == IF clauses = <<>> THEN NoPlan ELSE FoldLeft(PlanClause, <<>>, clauses)
=============================================================================
