------------------------------ MODULE Semantics ------------------------------
(***************************************************************************)
(* Scopes of variables (semantic/mod.rs, semantic/symbol_table.rs).        *)
(*                                                                         *)
(* A scope maps the names defined so far to their kinds; OutOfScope stands *)
(* for a SemanticError.  Nothing of the engine reads the nullable flag of  *)
(* a symbol, and it is left out; the labels, types and keys that analysis  *)
(* registers are their names here.                                         *)
(***************************************************************************)
EXTENDS Syntax, SequencesExt

NoNames == [name \in {} |-> "Node"]
OutOfScope == [ok |-> FALSE, of |-> NoNames]
Scope(names) == [ok |-> TRUE, of |-> names]
MaxHopLimit == 10

RECURSIVE Refs(_)
Refs(e) == CASE e.op = "var" -> {e.name}
             [] e.op = "prop" -> Refs(e.of)
             [] e.op = "bin" -> Refs(e.left) \cup Refs(e.right)
             [] e.op \in {"un", "isnull"} -> Refs(e.arg)
             [] e.op = "call" -> UNION {Refs(e.args[k]) : k \in DOMAIN e.args}
             [] e.op = "list" -> UNION {Refs(e.items[k]) : k \in DOMAIN e.items}
             [] OTHER -> {}

\* analyze_expression_refs.
Refer(scope, exprs) ==
    IF scope.ok /\ \A k \in DOMAIN exprs : Refs(exprs[k]) \subseteq DOMAIN scope.of THEN scope ELSE OutOfScope

\* define: a name keeps its kind.
Define(scope, opt, kind) ==
    IF ~ scope.ok \/ opt = <<>> THEN scope
    ELSE IF opt[1] \notin DOMAIN scope.of THEN Scope([n \in {opt[1]} \cup DOMAIN scope.of |->
                                                        IF n = opt[1] THEN kind ELSE scope.of[n]])
    ELSE IF scope.of[opt[1]] = kind THEN scope
    ELSE OutOfScope

Given(opt, Of(_)) == IF opt = <<>> THEN <<>> ELSE Of(opt[1])
MapExprs(m) == [k \in DOMAIN m.entries |-> m.entries[k].value]
HopsAllowed(h) == h.max = <<>> \/ (h.max[1] >= h.min /\ h.max[1] <= MaxHopLimit)

NodeScope(scope, n) == Refer(Define(scope, n.variable, "Node"), Given(n.properties, MapExprs))
RelScope(scope, r) ==
    LET defined == Define(scope, r.variable, "Relationship")
    IN  IF r.hops # <<>> /\ ~ HopsAllowed(r.hops[1]) THEN OutOfScope
        ELSE Refer(defined, Given(r.properties, MapExprs))
ChainScope(scope, chain) ==
    FoldLeft(LAMBDA s, step : NodeScope(RelScope(s, step.rel), step.node), NodeScope(scope, chain.first),
             chain.steps)
PatternScope(scope, pattern) == FoldLeft(ChainScope, scope, pattern)

TemporalExprs(t) == IF t.op = "as of" THEN <<t.time>> ELSE <<t.start, t.end>>
ItemExprs(items) == [k \in DOMAIN items |-> items[k].expr]

\* A SetItem: its target is a variable or one of its properties.
SetRefs(scope, items) ==
    FoldLeft(LAMBDA s, x : Refer(s, <<VarExpr(x.name), x.value>>), scope, items)


\* What WITH leaves: an alias, or a variable with the kind it had.
WithScope(scope, items) ==
    LET Survives(x) == x.alias # <<>> \/ x.expr.op = "var"
        NameOf(x) == IF x.alias # <<>> THEN x.alias[1] ELSE x.expr.name
        KindOf(x) == IF x.alias = <<>> /\ x.expr.op = "var" THEN scope.of[x.expr.name] ELSE "Expression"
        kept == SelectSeq(items, Survives)
        Latest(n) == CHOOSE k \in DOMAIN kept : NameOf(kept[k]) = n
                                              /\ \A j \in DOMAIN kept : NameOf(kept[j]) = n => j <= k
    IN  IF ~ scope.ok THEN scope
        ELSE Scope([n \in {NameOf(kept[k]) : k \in DOMAIN kept} |-> KindOf(kept[Latest(n)])])

MergeScope(scope, c) == FoldLeft(LAMBDA s, on : SetRefs(s, on.items), PatternScope(scope, c.pattern), c.on)
RemoveScope(scope, c) == Refer(scope, [k \in DOMAIN c.items |-> VarExpr(c.items[k].name)])
UnwindScope(scope, c) == Define(Refer(scope, <<c.expr>>), <<c.name>>, "Expression")

\* analyze_clause.  Index statements and CREATE SNAPSHOT are not looked at, nor are the
\* participants of a hyperedge.
ClauseScope(scope, c) ==
    CASE c.op = "MATCH" ->
           Refer(Refer(PatternScope(scope, c.pattern), Given(c.temporal, TemporalExprs)), c.where)
      [] c.op = "CREATE" -> PatternScope(scope, c.pattern)
      [] c.op = "MERGE" -> MergeScope(scope, c)
      [] c.op = "RETURN" -> Refer(scope, ItemExprs(c.items) \o ItemExprs(c.order) \o c.skip \o c.limit)
      [] c.op = "WITH" -> Refer(WithScope(Refer(scope, ItemExprs(c.items)), c.items), c.where)
      [] c.op = "SET" -> SetRefs(scope, c.items)
      [] c.op = "DELETE" -> Refer(scope, c.exprs)
      [] c.op = "REMOVE" -> RemoveScope(scope, c)
      [] c.op = "UNWIND" -> UnwindScope(scope, c)
      [] c.op \in {"CREATE HYPEREDGE", "MATCH HYPEREDGE"} -> Define(scope, c.variable, "Expression")
      [] OTHER -> scope

Analyze(clauses) == FoldLeft(ClauseScope, Scope(NoNames), clauses)
=============================================================================
