-------------------------------- MODULE Writes --------------------------------
(***************************************************************************)
(* The operators of a plan that write (executor/operators/), and what they *)
(* ask of the engine.                                                      *)
(*                                                                         *)
(* A thread is a statement under way: the engine's state db, the rows made *)
(* so far, the row at hand with the properties resolved, the node met last *)
(* and whether anything was created for it, and the failure the statement  *)
(* ends with, after which nothing more is done.  Its fuse is the number of *)
(* hooks that succeed before one answers an error; it is negative where    *)
(* none does.  Nothing is taken back when a statement fails: what it has   *)
(* written stays written.                                                  *)
(*                                                                         *)
(* Nothing here depends on what an expression is worth, or on how a plan   *)
(* reads: both are constants, Eval of module Expressions and RunOn of      *)
(* module Reads.  So is what the catalog knows, which REMOVE alone asks.   *)
(***************************************************************************)
EXTENDS Engine, Syntax

CONSTANTS ValueIn(_, _, _),     \* of an expression, in a row, on an engine: Eval
          CanBeStored(_),       \* as the value of a property: CanStore
          InCatalog(_, _),      \* a key has an id on an engine: a map, SET or a stamp has named it
          ReadBy(_, _, _)       \* rows, by operators that read, on an engine: RunOn

Stored(e, row, db) ==
    LET v == ValueIn(e, row, db) IN IF Failed(v) \/ CanBeStored(v) THEN v ELSE Error

Thread(db, fuse) == [db |-> db, fuse |-> fuse, rows |-> <<EmptyRow>>, row |-> EmptyRow, failure |-> <<>>,
                     own |-> EmptyRow, last |-> 0, created |-> FALSE]
Going(st) == st.failure = <<>>
FailWith(st, v) == [st EXCEPT !.failure = v]
Fail(st) == FailWith(st, Error)

\* The length of a sequence.  (Of what is none, for the constants may answer anything, 0.)
Count(seq) == IF Len(seq) \in Nat THEN Len(seq) ELSE 0

\* fire_before_create and its like: every hook of every plugin, before a change and after it.
Fire(st) == IF ~ Going(st) \/ st.fuse < 0 THEN st
            ELSE IF st.fuse = 0 THEN Fail([st EXCEPT !.fuse = -1])
            ELSE [st EXCEPT !.fuse = @ - 1]

-----------------------------------------------------------------------------
(* Properties.                                                             *)

SystemKeys == {"_created_at", "_updated_at"}
TemporalKeys == {"_valid_from", "_valid_to"}
Now(st) == <<"DateTime", st.db.clock>>
Created(st) == [key \in SystemKeys |-> Now(st)]
CreatedEdge(st) == Bind(Created(st), "_valid_from", Now(st))
Touch(st, props) == Bind(props, "_updated_at", Now(st))     \* inject_updated_at

\* resolve_properties: of a key given twice the first is found.
Entries(opt) == IF opt = <<>> THEN <<>> ELSE opt[1].entries
SetsSystem(opt) == \E k \in DOMAIN Entries(opt) : Entries(opt)[k].key \in SystemKeys
Resolved(st, opt) == [k \in DOMAIN Entries(opt) |-> Stored(Entries(opt)[k].value, st.row, st.db)]
WithOwn(st, opt, vals) ==
    LET First(key) == Min({k \in DOMAIN vals : Entries(opt)[k].key = key})
        keys == {Entries(opt)[k].key : k \in DOMAIN vals}
    IN  IF HasFailed(vals) THEN FailWith([st EXCEPT !.own = EmptyRow], Failure(vals))
        ELSE [st EXCEPT !.own = [key \in keys |-> vals[First(key)]]]
Resolve(st, opt) == WithOwn(st, opt, Resolved(st, opt))
ResolveOwn(st, opt) == IF SetsSystem(opt) THEN Fail(st) ELSE Resolve(st, opt)

-----------------------------------------------------------------------------
(* CREATE (operators/create.rs).                                           *)

IsBound(st, opt) == opt # <<>> /\ opt \in DOMAIN st.row
BindRow(st, opt, v) == [st EXCEPT !.row = BindOpt(@, opt, v)]
NewNode(st, n) ==
    LET id == st.db.next.node
        made == [st EXCEPT !.db = CreateNode(@, n.labels, Over(st.own, Created(st))), !.created = TRUE, !.last = id]
    IN  IF Going(st) THEN BindRow(made, n.variable, <<"Node", id>>) ELSE st
MakeNode(st, n) == Fire(NewNode(Fire(ResolveOwn(st, n.properties)), n))

Ends(r, source, target) == IF r.direction = "in" THEN <<target, source>> ELSE <<source, target>>
NewEdge(st, r, ends, stamps) ==
    LET edge == [type |-> r.types[1], from |-> ends[1], to |-> ends[2], props |-> Over(st.own, stamps)]
        made == [st EXCEPT !.db = CreateEdge(@, edge), !.created = TRUE]
    IN  IF ~ Going(st) THEN st
        ELSE IF {ends[1], ends[2]} \subseteq DOMAIN st.db.nodes
        THEN BindRow(made, r.variable, <<"Edge", st.db.next.edge>>)
        ELSE Fail([st EXCEPT !.db = LoseEdgeId(@)])
MakeEdge(st, r, ends) ==
    Fire(NewEdge(Fire(ResolveOwn(st, r.properties)), r, ends, CreatedEdge(st)))

\* A step: first the node it leads to, then the edge.  The node it starts from must have a name.
NodeBefore(chain, k) == IF k = 1 THEN chain.first ELSE chain.steps[k - 1].node
StartOf(st, chain, k) ==
    IF NodeBefore(chain, k).variable = <<>> THEN Null ELSE At(st.row, NodeBefore(chain, k).variable)
Joins(st, chain, k) == Type(StartOf(st, chain, k)) = "Node" /\ chain.steps[k].rel.types # <<>>
EndsOf(st, chain, k) == Ends(chain.steps[k].rel, StartOf(st, chain, k)[2], st.last)
Join(st, chain, k) == IF ~ Going(st) THEN st
                      ELSE IF Joins(st, chain, k) THEN MakeEdge(st, chain.steps[k].rel, EndsOf(st, chain, k))
                      ELSE Fail(st)
\* A node that has a name already.
Meet(st, n) == IF Type(At(st.row, n.variable)) = "Node" THEN [st EXCEPT !.last = At(st.row, n.variable)[2]]
               ELSE Fail(st)
CreateStep(st, chain, k) ==
    LET n == chain.steps[k].node
    IN  Join(IF IsBound(st, n.variable) THEN Meet(st, n) ELSE MakeNode(st, n), chain, k)
-----------------------------------------------------------------------------
(* SET and REMOVE (operators/set_props.rs).                                *)

\* What an item names: a property of a variable, or of one of its properties.
Owner(st, x) == ValueIn(FoldLeft(PropExpr, VarExpr(x.name), Front(x.path)), st.row, st.db)
Entities(st, type) == IF type = "Node" THEN st.db.nodes ELSE st.db.edges
Changed(st, entity, props) ==
    IF ~ Going(st) THEN st
    ELSE IF Type(entity) = "Node" THEN [st EXCEPT !.db = UpdateNode(@, entity[2], props)]
    ELSE [st EXCEPT !.db = UpdateEdge(@, entity[2], props)]

\* apply_remove_property.
KeyGone(st, props, key) == Without(props, {key})        \* a mistake: no time stamp
KeyRemoved(st, props, key) == Touch(st, Without(props, {key}))
NewProps(st, props, key, opt) ==
    IF opt = <<>> THEN KeyRemoved(st, props, key) ELSE Touch(st, Bind(props, key, opt[1]))
Change(st, entity, key, opt) ==
    LET props == Entities(st, Type(entity))[entity[2]].props
    IN  IF entity = Null THEN st
        ELSE IF Type(entity) \notin {"Node", "Edge"} THEN Fail(st)
        ELSE IF entity[2] \notin DOMAIN Entities(st, Type(entity)) THEN Fail(st)
        ELSE Fire(Changed(Fire(st), entity, NewProps(st, props, key, opt)))

\* apply_set_property.  A node has no _valid_from and no _valid_to.
Assigned(st, x, entity, value) ==
    IF HasFailed(<<entity, value>>) THEN FailWith(st, Failure(<<entity, value>>))
    ELSE IF Type(entity) = "Node" /\ Last(x.path) \in TemporalKeys THEN Fail(st)
    ELSE Change(st, entity, Last(x.path), <<value>>)
AssignItem(st, x) ==
    IF x.path = <<>> \/ Last(x.path) \in SystemKeys THEN Fail(st)
    ELSE Assigned(st, x, Owner(st, x), Stored(x.value, st.row, st.db))

\* apply_remove_label: the label stays, the engine has no operation for it.
DropLabel(st, entity) ==
    IF entity = Null \/ (Type(entity) = "Node" /\ entity[2] \in DOMAIN st.db.nodes) THEN st ELSE Fail(st)

\* A key the catalog does not know is not looked for, on a node that is gone neither.
DropItem(st, x) ==
    LET entity == At(st.row, <<x.name>>)
    IN  IF x.what.op = "label" THEN DropLabel(st, entity)
        ELSE IF x.what.of \in SystemKeys THEN Fail(st)
        ELSE IF Type(entity) \in {"Node", "Edge"} /\ ~ InCatalog(x.what.of, st.db) THEN st
        ELSE Change(st, entity, x.what.of, <<>>)

-----------------------------------------------------------------------------
(* DELETE (operators/delete.rs).                                           *)

EdgeGone(st, id) == IF ~ Going(st) THEN st
                    ELSE IF id \in DOMAIN st.db.edges THEN [st EXCEPT !.db = DeleteEdge(@, id)] ELSE Fail(st)
DeleteOneEdge(st, id) == Fire(EdgeGone(Fire(st), id))

\* Without DETACH a node that has edges stays, and the statement fails.
BlockedNever(st, id, detach) == FALSE       \* a mistake: edges are not looked at
Blocked(st, id, detach) == ~ detach /\ EdgesOf(id, st.db) # {}
NodeGone(st, id) == IF ~ Going(st) THEN st
                    ELSE IF id \in DOMAIN st.db.nodes THEN [st EXCEPT !.db = DeleteNode(@, id)] ELSE Fail(st)
DeleteOneNode(st, id, detach) == IF Blocked(st, id, detach) THEN Fail(st) ELSE Fire(NodeGone(Fire(st), id))

\* All rows are looked at before anything is deleted; edges go first.
ToDelete(st, o) ==
    FlattenSeq([k \in 1..Count(st.rows) |->
                  [j \in 1..Count(o.exprs) |-> ValueIn(o.exprs[j], st.rows[k], st.db)]])
IdsOf(type, vals) == Deduplicate(FlattenSeq([k \in DOMAIN vals |-> IF Type(vals[k]) = type THEN <<vals[k][2]>>
                                                                 ELSE <<>>]))
InTurn(kind, ids) == [k \in DOMAIN ids |-> <<kind, ids[k]>>]
DeleteOne(st, kind, id, detach) == IF kind = "Edge" THEN DeleteOneEdge(st, id) ELSE DeleteOneNode(st, id, detach)

-----------------------------------------------------------------------------
(* MERGE (operators/merge.rs).  No hooks, and no _valid_from.              *)

\* resolve_find_properties: the keys are known, analysis has registered them.
ResolveToFind(st, opt) == Resolve(st, opt)
FindOrMake(st, n, found) ==
    IF ~ Going(st) THEN st
    ELSE IF found # <<>> THEN BindRow([st EXCEPT !.last = found[1]], n.variable, <<"Node", found[1]>>)
    ELSE IF SetsSystem(n.properties) THEN Fail(st)
    ELSE NewNode(st, n)
Found(st, n, findable) == IF findable /\ Going(st) THEN FindNode(st.db, n.labels, st.own) ELSE <<>>
Merged(st, n, findable) == FindOrMake(st, n, Found(st, n, findable))
MergeNode(st, n, findable) == Merged(ResolveToFind(st, n.properties), n, findable)
MergeEdge(st, r, ends) ==
    LET found == FindEdge(st.db, ends[1], ends[2], r.types[1])
    IN  IF found # <<>> THEN BindRow(st, r.variable, <<"Edge", found[1]>>)
        ELSE NewEdge(ResolveOwn(st, r.properties), r, ends, Created(st))
JoinMerging(st, chain, k) == IF ~ Going(st) THEN st
                             ELSE IF Joins(st, chain, k) THEN MergeEdge(st, chain.steps[k].rel, EndsOf(st, chain, k))
                             ELSE Fail(st)

\* The first node is looked for by its labels or its properties, the others by their labels only.
MergeStep(st, chain, k) ==
    LET n == chain.steps[k].node
    IN  JoinMerging(IF IsBound(st, n.variable) THEN Meet(st, n) ELSE MergeNode(st, n, n.labels # <<>>), chain, k)
\* apply_set_items: of nodes only.
AssignedMerged(st, x, entity, value) ==
    LET props == Bind(st.db.nodes[entity[2]].props, Last(x.path), value)
    IN  IF HasFailed(<<entity, value>>) THEN FailWith(st, Failure(<<entity, value>>))
        ELSE IF entity = Null THEN st
        ELSE IF Type(entity) = "Node" /\ entity[2] \in DOMAIN st.db.nodes
        THEN [st EXCEPT !.db = UpdateNode(@, entity[2], Touch(st, props))]
        ELSE Fail(st)
SetMerged(st, x) ==
    IF x.path = <<>> \/ Last(x.path) \in SystemKeys THEN Fail(st)
    ELSE AssignedMerged(st, x, Owner(st, x), Stored(x.value, st.row, st.db))
ItemsOf(on, kind) == FlattenSeq([k \in DOMAIN on |-> IF on[k].op = kind THEN on[k].items ELSE <<>>])

-----------------------------------------------------------------------------
(* Loops that stop at the first failure: over the steps of a chain, the    *)
(* items of a clause, what is to be deleted; then over the chains of a     *)
(* pattern.                                                                *)

Step(kind, st, x) ==
    CASE kind = "create" -> CreateStep(st, x[1], x[2])
      [] kind = "merge" -> MergeStep(st, x[1], x[2])
      [] kind = "set" -> AssignItem(st, x)
      [] kind = "set merged" -> SetMerged(st, x)
      [] kind = "remove" -> DropItem(st, x)
      [] kind \in {"delete", "detach delete"} -> DeleteOne(st, x[1], x[2], kind = "detach delete")
NextStep(kind, st, x) == IF Going(st) THEN Step(kind, st, x) ELSE st
Each(kind, st, seq) ==
    LET run[k \in 0..Count(seq)] == IF k = 0 THEN st ELSE NextStep(kind, run[k - 1], seq[k])
    IN  run[Count(seq)]

StepsOf(chain) == [k \in 1..Count(chain.steps) |-> <<chain, k>>]
CreateChain(st, chain) ==
    Each("create", IF IsBound(st, chain.first.variable) THEN st ELSE MakeNode(st, chain.first), StepsOf(chain))
MergeChain(st, chain) ==
    LET n == chain.first
    IN  Each("merge",
             IF IsBound(st, n.variable) THEN st ELSE MergeNode(st, n, n.labels # <<>> \/ Entries(n.properties) # <<>>),
             StepsOf(chain))
Then(st, on) == Each("set merged", st, ItemsOf(on, IF st.created THEN "on create" ELSE "on match"))
MergePattern(st, chain, on) == Then(MergeChain([st EXCEPT !.created = FALSE], chain), on)

\* o is the operator: CREATE, or MERGE with what it sets.
NextChain(st, o, chain) ==
    IF ~ Going(st) THEN st
    ELSE IF o.op = "MergeOp" THEN MergePattern(st, chain, o.on) ELSE CreateChain(st, chain)
EachChain(st, o) ==
    LET run[k \in 0..Count(o.pattern)] == IF k = 0 THEN st ELSE NextChain(run[k - 1], o, o.pattern[k])
    IN  run[Count(o.pattern)]

DeleteThese(st, vals, detach) ==
    IF HasFailed(vals) THEN FailWith(st, Failure(vals))
    ELSE IF \E k \in DOMAIN vals : Type(vals[k]) \notin {"Node", "Edge", "Null"} THEN Fail(st)
    ELSE Each(IF detach THEN "detach delete" ELSE "delete", st,
              InTurn("Edge", IdsOf("Edge", vals)) \o InTurn("Node", IdsOf("Node", vals)))
DeleteAll(st, o) == DeleteThese(st, ToDelete(st, o), o.detach)

-----------------------------------------------------------------------------
(* Snapshots and hyperedges (executor/mod.rs).                             *)

\* execute_create_snapshot: the nodes its own plan finds, each once, become members.
NodesOf(row, vars) == IdsOf("Node", [k \in DOMAIN vars |-> At(row, vars[k])])
NodesIn(rows, vars) == Deduplicate(FlattenSeq([k \in DOMAIN rows |-> NodesOf(rows[k], vars)]))
NewSnapshot(st, o, ids, anchor) ==
    LET graph == [props |-> Over(st.own, [key \in {"_created_at"} |-> Now(st)]), anchor |-> IntV(anchor[2])]
        row == BindOpt(EmptyRow, o.variable, <<"Subgraph", st.db.next.subgraph>>)
    IN  IF ~ Going(st) THEN st
        ELSE IF Failed(anchor) THEN FailWith(st, anchor)
        ELSE [st EXCEPT !.db = AddSubgraph(@, graph, ids), !.rows = <<row>>]
SnapshotOf(st, o, found, anchor) ==
    IF ~ IsOk(found) THEN FailWith(st, found.failure)
    ELSE NewSnapshot(Resolve([st EXCEPT !.row = EmptyRow], o.properties), o, NodesIn(found.rows, o.vars), anchor)
CreateSnapshot(st, o) ==
    SnapshotOf(st, o, ReadBy(Rows(<<EmptyRow>>), o.plan, st.db),
               IF o.anchor = <<>> THEN IntV(st.db.clock) ELSE AsTime(ValueIn(o.anchor[1], EmptyRow, st.db)))

\* resolve_hyperedge_participants.
AtTime(v, time) ==
    IF Failed(time) THEN time
    ELSE IF Type(v) # "Node" \/ ~ IsTime(time) THEN Error
    ELSE <<"NodeAt", v[2], time[2]>>
ParticipantIn(p, row, db) ==
    LET v == At(row, <<p.name>>)
    IN  IF p.time # <<>> THEN AtTime(v, ValueIn(p.time[1], row, db))
        ELSE IF Type(v) \in {"Node", "Subgraph", "Hyperedge"} THEN v ELSE Error
ParticipantsIn(ps, row, db) == [k \in DOMAIN ps |-> ParticipantIn(ps[k], row, db)]

\* execute_create_hyperedge: once, for the first row.
NewHyperedge(st, o, row, sources, targets) ==
    LET edge == [type |-> NameOr(FirstOf(o.labels), ""), sources |-> sources, targets |-> targets]
    IN  IF HasFailed(sources \o targets) THEN FailWith(st, Failure(sources \o targets))
        ELSE [st EXCEPT !.db = AddHyperedge(@, edge),
                        !.rows = <<BindOpt(row, o.variable, <<"Hyperedge", st.db.next.hyperedge>>)>>]
HyperedgeFor(st, o, row) ==
    NewHyperedge(st, o, row, ParticipantsIn(o.sources, row, st.db), ParticipantsIn(o.targets, row, st.db))
CreateHyperedge(st, o) == HyperedgeFor(st, o, IF st.rows = <<>> THEN EmptyRow ELSE st.rows[1])

-----------------------------------------------------------------------------
(* A plan (execute).                                                       *)

Took(st, result) == IF IsOk(result) THEN [st EXCEPT !.rows = result.rows] ELSE FailWith(st, result.failure)
ReadStep(st, o) == Took(st, ReadBy(Rows(st.rows), <<o>>, st.db))

\* Row by row, each on what the rows before have written.
ForRow(st, o) == CASE o.op \in {"CreateOp", "MergeOp"} -> EachChain(st, o)
                   [] o.op = "SetOp" -> Each("set", st, o.items)
                   [] o.op = "RemoveOp" -> Each("remove", st, o.items)
RowDone(st) == [st EXCEPT !.rows = Append(@, st.row)]
NextRow(st, o, row) == IF Going(st) THEN RowDone(ForRow([st EXCEPT !.row = row], o)) ELSE st
EachRow(st, o, rows) ==
    LET run[k \in 0..Count(rows)] == IF k = 0 THEN st ELSE NextRow(run[k - 1], o, rows[k])
    IN  run[Count(rows)]
PerRow(st, o) == EachRow([st EXCEPT !.rows = <<>>], o, st.rows)

\* execute.
Writers == {"CreateOp", "MergeOp", "SetOp", "RemoveOp", "DeleteOp", "CreateSnapshotOp", "CreateHyperedgeOp"}
ExecuteOp(st, o) ==
    CASE o.op \in {"CreateOp", "MergeOp", "SetOp", "RemoveOp"} -> PerRow(st, o)
      [] o.op = "DeleteOp" -> DeleteAll(st, o)
      [] o.op = "CreateSnapshotOp" -> CreateSnapshot(st, o)
      [] o.op = "CreateHyperedgeOp" -> CreateHyperedge(st, o)
      [] OTHER -> ReadStep(st, o)
NextOp(st, o) == IF Going(st) THEN ExecuteOp(st, o) ELSE st
ExecuteOn(st, plan) ==
    LET run[k \in 0..Count(plan)] == IF k = 0 THEN st ELSE NextOp(run[k - 1], plan[k])
    IN  run[Count(plan)]
Execute(plan, db, fuse) == ExecuteOn(Thread(db, fuse), plan)
=============================================================================
