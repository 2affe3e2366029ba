------------------------------ MODULE Optimizer ------------------------------
(***************************************************************************)
(* Rewriting a plan (planner/optimize.rs): from the source up, every       *)
(* operator is rewritten together with the operators below it.             *)
(***************************************************************************)
EXTENDS Planner

IsTrue(e) == e = LitExpr(Bool(TRUE))
IsLit(e) == e.op = "lit"

\* try_extract_index_predicate: an equality of a property and a literal, alone or on either side
\* of one AND.  <<lookup>>, <<lookup, what is left>> or <<>>.
EqualsLiteral(e, name) ==
    LET Of(prop, lit) == prop.op = "prop" /\ prop.of = VarExpr(name) /\ IsLit(lit)
    IN  IF e.op # "bin" \/ e.sym # "=" THEN <<>>
        ELSE IF Of(e.left, e.right) THEN <<[key |-> e.left.key, value |-> e.right]>>
        ELSE IF Of(e.right, e.left) THEN <<[key |-> e.right.key, value |-> e.left]>>
        ELSE <<>>
IndexPredicate(e, name) ==
    IF EqualsLiteral(e, name) # <<>> THEN EqualsLiteral(e, name)
    ELSE IF e.op # "bin" \/ e.sym # "AND" THEN <<>>
    ELSE IF EqualsLiteral(e.left, name) # <<>> THEN Append(EqualsLiteral(e.left, name), e.right)
    ELSE IF EqualsLiteral(e.right, name) # <<>> THEN Append(EqualsLiteral(e.right, name), e.left)
    ELSE <<>>

\* push_index_scan: a filter right above the scan of a label becomes a lookup.
LookUp(plan, scan, found) ==
    IF found = <<>> THEN plan
    ELSE SubSeq(plan, 1, Len(plan) - 2)
         \o <<[op |-> "IndexScan", variable |-> scan.variable, label |-> scan.label[1],
                key |-> found[1].key, value |-> found[1].value]>>
         \o WhereOp(Tail(found))
PushIndexScan(plan) ==
    LET scan == plan[Len(plan) - 1]
    IN  IF Len(plan) < 2 \/ Last(plan).op # "Filter" THEN plan
        ELSE IF scan.op # "NodeScan" \/ scan.label = <<>> THEN plan
        ELSE LookUp(plan, scan, IndexPredicate(Last(plan).predicate, scan.variable))

\* push_limit_down.
LiteralCount(e) == IsLit(e) /\ Type(e.value) = "Int" /\ e.value[2] >= 0
PushLimitDown(plan) ==
    LET scan == plan[Len(plan) - 1]  count == Last(plan).count.value[2]
    IN  IF Len(plan) < 2 \/ Last(plan).op # "Limit" THEN plan
        ELSE IF ~ LiteralCount(Last(plan).count) \/ scan.op # "NodeScan" THEN plan
        ELSE SubSeq(plan, 1, Len(plan) - 2)
             \o <<[scan EXCEPT !.limit = <<IF @ # <<>> /\ @[1] < count THEN @[1] ELSE count>>]>>

\* fold_binary_op, fold_unary_op: with plain operators, which overflow as the build says; a
\* division by zero is left to execution.
FoldArithmetic(sym, a, b) ==
    LET v == Arithmetic(sym, a, b)
    IN  IF Both("Int", a, b) /\ sym \in {"+", "-", "*"} /\ OverflowChecks /\ v[2] # Result(sym, a[2], b[2])
        THEN Panic ELSE v
FoldableArithmetic(sym, a, b) == (Both("Int", a, b) \/ (Both("Float", a, b) /\ sym # "%"))
                                 /\ (sym \in {"/", "%"} => b[2] # 0)
FoldUnary(e) ==
    IF e.arg = LitExpr(Panic) THEN e.arg
    ELSE IF IsLit(e.arg) /\ (e.sym = "NOT" => Type(e.arg.value) = "Bool") /\ (e.sym = "-" => Number(e.arg.value))
    THEN LitExpr(Unary(e.sym, e.arg.value)) ELSE e

FoldBinary(e) ==
    LET absorbing == LitExpr(Bool(e.sym = "OR"))  neutral == LitExpr(Bool(e.sym = "AND"))
    IN  CASE LitExpr(Panic) \in {e.left, e.right} -> LitExpr(Panic)
          [] e.sym \in {"+", "-", "*", "/", "%"} /\ IsLit(e.left) /\ IsLit(e.right)
               /\ FoldableArithmetic(e.sym, e.left.value, e.right.value) ->
                 LitExpr(FoldArithmetic(e.sym, e.left.value, e.right.value))
          [] e.sym \in {"AND", "OR"} /\ absorbing \in {e.left, e.right} -> absorbing
          [] e.sym \in {"AND", "OR"} /\ e.left = neutral -> e.right
          [] e.sym \in {"AND", "OR"} /\ e.right = neutral -> e.left
          [] OTHER -> e

\* fold_expr looks into operators only.
RECURSIVE FoldExpr(_)
FoldExpr(e) ==
    CASE e.op = "bin" -> FoldBinary([e EXCEPT !.left = FoldExpr(@), !.right = FoldExpr(@)])
      [] e.op = "un" -> FoldUnary([e EXCEPT !.arg = FoldExpr(@)])
      [] OTHER -> e

\* fold_constants_in_plan.
FoldConstants(plan) ==
    LET last == Last(plan)
        FoldItems == [last EXCEPT !.items = [k \in DOMAIN @ |-> [@[k] EXCEPT !.expr = FoldExpr(@)]]]
    IN  CASE last.op = "Filter" ->
               Front(plan) \o (IF IsTrue(FoldExpr(last.predicate)) THEN <<>>
                               ELSE <<FilterOp(FoldExpr(last.predicate))>>)
          [] last.op \in {"Project", "Sort"} -> Append(Front(plan), FoldItems)
          [] OTHER -> plan

\* prune_projections: of two projections the outer one is kept.
PruneProjections(plan) ==
    IF Len(plan) > 1 /\ Last(plan).op = "Project" /\ plan[Len(plan) - 1].op = "Project"
    THEN Append(SubSeq(plan, 1, Len(plan) - 2), Last(plan)) ELSE plan

ApplyRules(plan) == PruneProjections(FoldConstants(PushLimitDown(PushIndexScan(plan))))
OptimizeOps(ops) == FoldLeft(LAMBDA plan, op : ApplyRules(Append(plan, op)), <<>>, ops)
OptimizeSnapshot(op) == IF op.op = "CreateSnapshotOp" THEN [op EXCEPT !.plan = OptimizeOps(@)] ELSE op
Optimize(plan) == OptimizeOps([k \in DOMAIN plan |-> OptimizeSnapshot(plan[k])])

\* The process panics while it folds.
RECURSIVE HasPanic(_)
HasPanic(e) == CASE e.op = "lit" -> e.value = Panic
                 [] e.op = "bin" -> HasPanic(e.left) \/ HasPanic(e.right)
                 [] e.op = "un" -> HasPanic(e.arg)
                 [] OTHER -> FALSE
PanicsIn(plan) == \E k \in DOMAIN plan :
    CASE plan[k].op = "Filter" -> HasPanic(plan[k].predicate)
      [] plan[k].op \in {"Project", "Sort"} -> \E j \in DOMAIN plan[k].items : HasPanic(plan[k].items[j].expr)
      [] OTHER -> FALSE
=============================================================================
