-------------------------------- MODULE Reads --------------------------------
(***************************************************************************)
(* The operators of a plan that read (executor/operators/).  Each takes    *)
(* the rows of its source and answers rows, or the failure it ends with.   *)
(* The keys "Past" of a row are dropped by every projection, as in the     *)
(* code.                                                                   *)
(***************************************************************************)
EXTENDS Expressions

\* A plan of operators that read (see the end).
RECURSIVE RunOn(_, _, _)

Check(vals, result) == IF HasFailed(vals) THEN Broken(Failure(vals)) ELSE result

Ordered(ids) == SetToSortSeq(ids, <)
EvalRows(e, rows, db) == [k \in DOMAIN rows |-> Eval(e, rows[k], db)]
FlatMap(Of(_), seq) == FlattenSeq([k \in DOMAIN seq |-> Of(seq[k])])

-----------------------------------------------------------------------------
(* Scans.                                                                  *)

ScanRows(type, name, ids) == LET seq == Ordered(ids)
                             IN  [k \in DOMAIN seq |-> Bind(EmptyRow, <<name>>, <<type, seq[k]>>)]
HasLabel(n, label) == \E k \in DOMAIN n.labels : n.labels[k] = label
Limited(rows, limit) == IF limit = <<>> THEN rows ELSE SubSeq(rows, 1, Min({limit[1], Len(rows)}))
NodeScan(o, db) ==
    Limited(ScanRows("Node", o.variable,
                     {id \in DOMAIN db.nodes : o.label = <<>> \/ HasLabel(db.nodes[id], o.label[1])}),
            o.limit)

\* scan_nodes_by_property where no index has been created: the very same value, of the same type.
\* An index answers in the order of its posting list, and a node whose record repeats the label or
\* the key more than once (module GraphStore).
IndexScan(o, db) ==
    ScanRows("Node", o.variable,
             {id \in DOMAIN db.nodes : HasLabel(db.nodes[id], o.label)
                                       /\ o.key \in DOMAIN db.nodes[id].props
                                       /\ db.nodes[id].props[o.key] = o.value.value})

-----------------------------------------------------------------------------
(* Filters and projections.                                                *)

TrueOnes(rows, vals) ==
    Check(vals, Rows(FlattenSeq([k \in DOMAIN rows |-> IF vals[k] = Bool(TRUE) THEN <<rows[k]>> ELSE <<>>])))
FilterRows(predicate, rows, db) == TrueOnes(rows, EvalRows(predicate, rows, db))

\* expr_display_name.
RECURSIVE Column(_)
Column(e) == CASE e.op = "var" -> <<e.name>>
               [] e.op = "prop" -> Append(Column(e.of), e.key)
               [] e.op = "count*" -> <<"count(*)">>
               [] OTHER -> <<"expr">>
ColumnOf(x) == IF x.alias # <<>> THEN x.alias ELSE Column(x.expr)

\* execute_project, execute_with: of two items of one name the later one stays.
Columns(items, vals) ==
    LET Named(c) == {k \in DOMAIN items : ColumnOf(items[k]) = c}
    IN  [c \in {ColumnOf(items[k]) : k \in DOMAIN items} |->
           vals[CHOOSE k \in Named(c) : \A j \in Named(c) : j <= k]]
Projected(items, vals) == Check(vals, Rows(<<Columns(items, vals)>>))
ProjectRow(items, row, db) == Projected(items, [k \in DOMAIN items |-> Eval(items[k].expr, row, db)])
AllOf(each) ==
    LET bad == {k \in DOMAIN each : ~ IsOk(each[k])}
    IN  IF bad = {} THEN Rows(FlattenSeq([k \in DOMAIN each |-> each[k].rows]))
        ELSE each[CHOOSE k \in bad : \A j \in bad : k <= j]
ProjectRows(items, rows, db) ==
    AllOf([k \in DOMAIN rows |-> ProjectRow(items, rows[k], db)])

Distinctly(o, result) == IF o.distinct THEN [result EXCEPT !.rows = Deduplicate(@)] ELSE result
Project(o, rows, db) == Distinctly(o, ProjectRows(o.items, rows, db))
Filtered(o, result, db) ==
    IF IsOk(result) /\ o.where # <<>> THEN FilterRows(o.where[1], result.rows, db) ELSE result
With(o, rows, db) == Filtered(o, Project(o, rows, db), db)

Unwound(o, row, v) == IF v = Null THEN <<>> ELSE [j \in DOMAIN v[2] |-> Bind(row, <<o.name>>, v[2][j])]
UnwindOf(o, rows, vals) ==
    IF HasFailed(vals) THEN Broken(Failure(vals))
    ELSE IF \E k \in DOMAIN vals : Type(vals[k]) \notin {"List", "Null"} THEN Broken(Error)
    ELSE Rows(FlattenSeq([k \in DOMAIN rows |-> Unwound(o, rows[k], vals[k])]))
Unwind(o, rows, db) == UnwindOf(o, rows, EvalRows(o.expr, rows, db))

-----------------------------------------------------------------------------
(* Order, number and groups of rows.                                       *)

\* execute_sort: stable; an expression that fails sorts as Null.
OrNull(v) == IF Failed(v) THEN Null ELSE v
SortKeys(o, row, db) == [k \in DOMAIN o.items |-> OrNull(Eval(o.items[k].expr, row, db))]
Ord(item, a, b) == IF item.ascending THEN CompareValues(a, b) ELSE -CompareValues(a, b)
Ords(o, as, bs) == [k \in DOMAIN o.items |-> Ord(o.items[k], as[k], bs[k])]
Precedes(ords, equal) == IF \A k \in DOMAIN ords : ords[k] = 0 THEN equal
                         ELSE \E k \in DOMAIN ords : ords[k] < 0 /\ \A j \in 1..(k - 1) : ords[j] = 0
Sort(o, rows, db) ==
    LET keyed == [i \in DOMAIN rows |-> [place |-> i, keys |-> SortKeys(o, rows[i], db)]]
        Before(x, y) == Precedes(Ords(o, x.keys, y.keys), x.place < y.place)
        order == SortSeq(keyed, Before)
    IN  Rows([i \in DOMAIN rows |-> rows[order[i].place]])

\* eval_count_expr: a literal.
CountAllowed(e) == e.op = "lit" /\ Type(e.value) = "Int" /\ e.value[2] >= 0
Skip(o, rows) == IF CountAllowed(o.count) THEN Rows(SubSeq(rows, o.count.value[2] + 1, Len(rows))) ELSE Broken(Error)
Limit(o, rows) == IF CountAllowed(o.count) THEN Rows(SubSeq(rows, 1, Min({o.count.value[2], Len(rows)})))
                  ELSE Broken(Error)

\* group_key_name.
KeyName(e) == CASE e.op = "var" -> <<e.name>> [] e.op = "prop" -> <<e.key>> [] OTHER -> <<"key">>

\* execute_aggregate, compute_aggregate: count of any expression counts rows.
AggregateRow(o, keyVals, n) ==
    LET row == FoldLeft(LAMBDA r, k : Bind(r, KeyName(o.keys[k]), keyVals[k]), EmptyRow, [k \in DOMAIN o.keys |-> k])
    IN  FoldLeft(LAMBDA r, a : Bind(r, a.name, IntV(n)), row, o.aggs)
NoGroup(o) ==
    FoldLeft(LAMBDA r, e : Bind(r, KeyName(e), Null), AggregateRow([o EXCEPT !.keys = <<>>], <<>>, 0), o.keys)
GroupRow(o, group, keys) == AggregateRow(o, group, Cardinality({k \in DOMAIN keys : keys[k] = group}))
GroupRows(o, keys, groups) == Rows([g \in DOMAIN groups |-> GroupRow(o, groups[g], keys)])
AggregateBy(o, keys) == Check(FlattenSeq(keys), GroupRows(o, keys, Deduplicate(keys)))
Aggregate(o, rows, db) ==
    IF rows = <<>> THEN Rows(<<NoGroup(o)>>)
    ELSE AggregateBy(o, [k \in DOMAIN rows |-> [j \in DOMAIN o.keys |-> Eval(o.keys[j], rows[k], db)]])

-----------------------------------------------------------------------------
(* Expansion.                                                              *)

TimeOf(e, db) == AsTime(Eval(e, EmptyRow, db))

\* resolve_temporal_filter: <<>>, or the first and the last moment asked for.
Window(temporal, db) ==
    IF temporal = <<>> THEN <<>>
    ELSE IF temporal[1].op = "as of" THEN <<TimeOf(temporal[1].time, db)>>
    ELSE <<TimeOf(temporal[1].start, db), TimeOf(temporal[1].end, db)>>

\* is_edge_temporally_valid.  An edge without _valid_from is valid; one moment lies before the end
\* of validity, and so does the start of a range.
ValidInOnce(edge, window) ==        \* a mistake: validity never ends
    "_valid_from" \in DOMAIN edge.props /\ edge.props["_valid_from"][2] <= window[Len(window)][2]
ValidIn(edge, window) ==
    LET Has(key) == key \in DOMAIN edge.props /\ IsTime(edge.props[key])
    IN  \/ ~ Has("_valid_from")
        \/ /\ edge.props["_valid_from"][2] <= window[Len(window)][2]
           /\ Has("_valid_to") => edge.props["_valid_to"][2] > window[1][2]

\* get_edges_for_node, filtered: the edges of a node and the nodes they lead to, in id order.
Leads(edge, id, direction) == \/ direction \in {"out", "both"} /\ edge.from = id
                              \/ direction \in {"in", "both"} /\ edge.to = id
OtherEnd(edge, id, direction) == IF direction # "in" /\ edge.from = id THEN edge.to ELSE edge.from
Neighbours(id, o, window, db) ==
    LET Matches(e) == LET edge == db.edges[e]
                      IN  /\ o.type = <<>> \/ edge.type = o.type[1]
                          /\ window = <<>> \/ ValidIn(edge, window)
                          /\ Leads(edge, id, o.direction)
        seq == Ordered({e \in DOMAIN db.edges : Matches(e)})
    IN  [k \in DOMAIN seq |-> [edge |-> <<"Edge", seq[k]>>, node |-> OtherEnd(db.edges[seq[k]], id, o.direction)]]

Hop(o, row, rel, target) == Bind(IF o.rel = <<>> THEN row ELSE Bind(row, o.rel, rel), <<o.target>>, target)
Steps(o, row, ns) == [k \in DOMAIN ns |-> Hop(o, row, ns[k].edge, <<"Node", ns[k].node>>)]
Virtual(o, row, targets) == [k \in DOMAIN targets |-> Hop(o, row, Null, targets[k])]

\* execute_expand: from a hyperedge to its participants, from a subgraph to its members, from a
\* node along its edges, from anything else nowhere.
Source(o, row) == At(row, <<o.src>>)
ExpandRow(o, row, window, db) ==
    LET src == Source(o, row)
    IN  CASE Type(src) = "Hyperedge" ->
               IF src[2] \notin DOMAIN db.hyperedges THEN <<>>
               ELSE LET h == db.hyperedges[src[2]]
                    IN  IF o.type = <<>> \/ o.type[1] = h.type THEN Virtual(o, row, h.sources \o h.targets) ELSE <<>>
          [] Type(src) = "Subgraph" /\ o.type = <<"CONTAINS">> ->
               LET members == At(db.members, src[2])
               IN  IF members = Null THEN <<>>
                   ELSE Virtual(o, row, [k \in DOMAIN members |-> <<"Node", members[k]>>])
          [] Type(src) = "Node" -> Steps(o, row, Neighbours(src[2], o, window, db))
          [] OTHER -> <<>>

\* execute_var_length_expand: depth first, no node twice on a path; the relationship is the last
\* edge.
VisitedLast(path, id) == id = Last(path)        \* a mistake: only the node before is looked at
Visited(path, id) == Contains(path, id)
RECURSIVE Dfs(_, _, _, _, _)
Dfs(o, row, path, window, db) ==
    LET depth == Len(path)      \* of the next hop
        Onward(n) == IF Visited(path, n.node) THEN <<>>
                     ELSE (IF depth >= o.min THEN Steps(o, row, <<n>>) ELSE <<>>)
                          \o Dfs(o, row, Append(path, n.node), window, db)
    IN  IF depth > o.max THEN <<>> ELSE FlatMap(Onward, Neighbours(Last(path), o, window, db))
VarLengthRow(o, row, window, db) ==
    LET src == Source(o, row)
    IN  IF Type(src) # "Node" THEN <<>>
        ELSE (IF o.min = 0 THEN <<Hop(o, row, Null, src)>> ELSE <<>>) \o Dfs(o, row, <<src[2]>>, window, db)

\* execute_optional_expand: a row that leads nowhere stays, with Null.
OptionalRow(o, row, db) ==
    LET src == Source(o, row)
        found == IF Type(src) = "Node" THEN Steps(o, row, Neighbours(src[2], o, <<>>, db)) ELSE <<>>
    IN  IF found = <<>> THEN <<Hop(o, row, Null, Null)>> ELSE found

ExpandOne(o, row, window, db) == CASE o.op = "Expand" -> ExpandRow(o, row, window, db)
                                   [] o.op = "VarLengthExpand" -> VarLengthRow(o, row, window, db)
                                   [] o.op = "OptionalExpand" -> OptionalRow(o, row, db)
ExpandAll(o, rows, window, db) ==
    Check(window, Rows(FlattenSeq([k \in DOMAIN rows |-> ExpandOne(o, rows[k], window, db)])))
Expand(o, rows, db) == ExpandAll(o, rows, IF o.op = "OptionalExpand" THEN <<>> ELSE Window(o.temporal, db), db)

-----------------------------------------------------------------------------
(* Past states of nodes.                                                   *)

NodeColumns(row) == {c \in DOMAIN row : Type(row[c]) = "Node"}
WithPast(row, c, state) == Bind(row, Past(c[1]), state.props)

\* execute_as_of_scan: a row stays when all its nodes were there; for a node that has changed since,
\* its properties of that time are kept beside it.
StatesThen(row, time, db) == [c \in NodeColumns(row) |-> NodeAt(row[c][2], time, db)]
Remember(row, then, db) ==
    LET pasts == {Past(c[1]) : c \in {d \in DOMAIN then : then[d][1] # db.nodes[row[d][2]]}}
    IN  [c \in DOMAIN row \cup pasts |-> IF c \in pasts THEN then[<<c[2]>>][1].props ELSE row[c]]
AsOfRow(row, then, db) == IF \E c \in DOMAIN then : then[c] = <<>> THEN <<>> ELSE <<Remember(row, then, db)>>
AsOfAt(rows, time, db) ==
    Check(<<time>>, Rows(FlattenSeq([k \in DOMAIN rows |-> AsOfRow(rows[k], StatesThen(rows[k], time[2], db), db)])))
AsOfScan(o, rows, db) == AsOfAt(rows, TimeOf(o.time, db), db)

\* find_node_versions_in_range.
States(id, db) == Versions(id, db) \o (IF id \in DOMAIN db.nodes THEN <<db.nodes[id]>> ELSE <<>>)
StampedIn(n, start, end) == Stamp(n) # Null /\ Stamp(n)[2] >= start /\ Stamp(n)[2] <= end
StatesIn(id, start, end, db) == SelectSeq(States(id, db), LAMBDA n : StampedIn(n, start, end))

\* execute_temporal_range_scan: a row for every state of one node of the row whose time stamp lies
\* in the range.  The code takes the first node variable of the row's HashMap, whose order is any;
\* CHOOSE is one such order, the same for all rows: with two nodes in a row, one of the answers.
RangeRows(row, window, db) ==
    LET c == CHOOSE c \in NodeColumns(row) : TRUE
        states == StatesIn(row[c][2], window[1][2], window[2][2], db)
    IN  IF NodeColumns(row) = {} THEN <<>> ELSE [k \in DOMAIN states |-> WithPast(row, c, states[k])]
RangeOf(rows, window, db) ==
    Check(window, Rows(FlattenSeq([k \in DOMAIN rows |-> RangeRows(rows[k], window, db)])))
RangeScan(o, rows, db) == RangeOf(rows, Window(<<[op |-> "between", start |-> o.start, end |-> o.end]>>, db), db)

-----------------------------------------------------------------------------
\* execute, for the operators that read: those that find entities, and those that work on rows.
Expansions == {"Expand", "VarLengthExpand", "OptionalExpand"}
Find(o, rows, db) ==
    CASE o.op = "NodeScan" -> Rows(NodeScan(o, db))
      [] o.op = "IndexScan" -> Rows(IndexScan(o, db))
      [] o.op = "SubgraphScan" -> Rows(ScanRows("Subgraph", o.variable, DOMAIN db.subgraphs))
      [] o.op = "HyperEdgeScan" -> Rows(ScanRows("Hyperedge", o.variable, DOMAIN db.hyperedges))
      [] o.op \in Expansions -> Expand(o, rows, db)
      [] o.op = "AsOfScan" -> AsOfScan(o, rows, db)
      [] o.op = "TemporalRangeScan" -> RangeScan(o, rows, db)
Rework(o, rows, db) ==
    CASE o.op = "Filter" -> FilterRows(o.predicate, rows, db)
      [] o.op = "Project" -> Project(o, rows, db)
      [] o.op = "With" -> With(o, rows, db)
      [] o.op = "Unwind" -> Unwind(o, rows, db)
      [] o.op = "Aggregate" -> Aggregate(o, rows, db)
      [] o.op = "Sort" -> Sort(o, rows, db)
      [] o.op = "Skip" -> Skip(o, rows)
      [] o.op = "Limit" -> Limit(o, rows)
Finders == {"NodeScan", "IndexScan", "SubgraphScan", "HyperEdgeScan", "AsOfScan", "TemporalRangeScan"} \cup Expansions
Read(o, rows, db) == IF o.op \in Finders THEN Find(o, rows, db) ELSE Rework(o, rows, db)

\* execute: every operator on the rows of its source, until one fails.
RunOn(result, ops, db) ==
    IF ops = <<>> \/ ~ IsOk(result) THEN result ELSE RunOn(Read(Head(ops), result.rows, db), Tail(ops), db)
RunPlan(ops, db) == RunOn(Rows(<<EmptyRow>>), ops, db)
=============================================================================
