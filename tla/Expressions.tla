---------------------------- MODULE Expressions ----------------------------
(***************************************************************************)
(* Evaluating an expression for a row (eval.rs).                           *)
(*                                                                         *)
(* Under the column Past(n) a temporal scan leaves the properties node n   *)
(* had; db is the engine.                                                  *)
(***************************************************************************)
EXTENDS Engine, Calendar

CONSTANTS ParamOf,      \* the values of the parameters
          DateOf        \* the parts of the strings that have the form of a date (see Calendar)

RECURSIVE Eval(_, _, _), CallFunction(_, _, _)

Past(name) == <<"past", name>>
Aggregates == {"count", "sum", "avg", "min", "max", "collect"}

\* resolve_temporal_node_property: the newest version updated by then, else the node.
Stamped(v, by) == "_updated_at" \in DOMAIN v.props /\ v.props["_updated_at"][2] <= by
StateAt(id, time, db) ==
    LET chain == Versions(id, db)
        past == {k \in DOMAIN chain : Stamped(chain[k], time)}
    IN  IF past # {} THEN <<chain[Newest(past)]>>
        ELSE IF id \in DOMAIN db.nodes THEN <<db.nodes[id]>> ELSE <<>>

\* eval_property_access.
Access(v, key, db) ==
    CASE v = Null -> Null
      [] Type(v) = "Node" -> IF v[2] \in DOMAIN db.nodes THEN At(db.nodes[v[2]].props, key) ELSE Error
      [] Type(v) = "Edge" -> IF v[2] \in DOMAIN db.edges THEN At(db.edges[v[2]].props, key) ELSE Error
      [] Type(v) = "Subgraph" ->
           IF v[2] \notin DOMAIN db.subgraphs THEN Error
           ELSE IF key = "_temporal_anchor" THEN db.subgraphs[v[2]].anchor
           ELSE At(db.subgraphs[v[2]].props, key)
      [] Type(v) = "Hyperedge" -> IF v[2] \in DOMAIN db.hyperedges THEN Null ELSE Error
      [] Type(v) = "NodeAt" -> LET state == StateAt(v[2], v[3], db)
                               IN  IF state = <<>> THEN Error ELSE At(state[1].props, key)
      [] OTHER -> Error

\* The functions of one argument.  Those of plugins are left out: a name that is not here is unknown.
Apply(name, v, db) ==
    CASE name = "id" -> IF Type(v) \in {"Node", "Edge"} THEN IntV(v[2]) ELSE Error
      [] name = "type" ->
           IF Type(v) # "Edge" THEN Error
           ELSE IF v[2] \in DOMAIN db.edges THEN <<"String", db.edges[v[2]].type>> ELSE Null
      [] name = "labels" ->
           IF Type(v) # "Node" THEN Error
           ELSE IF v[2] \notin DOMAIN db.nodes THEN Null
           ELSE LET labels == db.nodes[v[2]].labels
                IN  List([k \in DOMAIN labels |-> <<"String", labels[k]>>])
      [] name = "datetime" ->
           IF Type(v) # "String" \/ v[2] \notin DOMAIN DateOf THEN Error
           ELSE IF DateAllowed(DateOf[v[2]]) THEN <<"DateTime", Millis(DateOf[v[2]])>> ELSE Error
      [] OTHER -> Error

\* AND and OR look at their right side only when the left one does not decide.
ConnectiveEager(e, l, row, db) == LET r == Eval(e.right, row, db) IN IF Failed(r) THEN r ELSE Binary(e.sym, l, r)
Connective(e, l, row, db) == IF e.sym \in {"AND", "OR"} /\ l = Absorbing(e.sym) THEN l
                             ELSE ConnectiveEager(e, l, row, db)

\* A function call; an aggregate is computed by the plan, not here.
CallFunction(e, row, db) ==
    CASE e.name \in Aggregates -> Null
      [] e.name = "now" -> IF e.args = <<>> THEN <<"DateTime", db.clock>> ELSE Error
      [] Len(e.args) # 1 -> Error
      [] OTHER -> LET v == Eval(e.args[1], row, db) IN IF Failed(v) THEN v ELSE Apply(e.name, v, db)

Eval(e, row, db) ==
    CASE e.op = "lit" -> e.value
      [] e.op = "var" -> At(row, <<e.name>>)
      [] e.op = "param" -> At(ParamOf, e.name)
      [] e.op = "prop" ->
           IF e.of.op = "var" /\ Past(e.of.name) \in DOMAIN row THEN At(row[Past(e.of.name)], e.key)
           ELSE LET v == Eval(e.of, row, db) IN IF Failed(v) THEN v ELSE Access(v, e.key, db)
      [] e.op = "bin" -> LET l == Eval(e.left, row, db) IN IF Failed(l) THEN l ELSE Connective(e, l, row, db)
      [] e.op = "un" -> LET v == Eval(e.arg, row, db) IN IF Failed(v) THEN v ELSE Unary(e.sym, v)
      [] e.op = "isnull" ->
           LET v == Eval(e.arg, row, db) IN IF Failed(v) THEN v ELSE Bool((v = Null) # e.negated)
      [] e.op = "list" -> LET vals == [k \in DOMAIN e.items |-> Eval(e.items[k], row, db)]
                          IN  IF HasFailed(vals) THEN Failure(vals) ELSE List(vals)
      [] e.op = "count*" -> Null
      [] OTHER -> CallFunction(e, row, db)

\* What can be stored: PropertyValue::try_from (see Writes).
Storable == {"Null", "Bool", "Int", "Float", "String", "DateTime"}
RECURSIVE CanStore(_)
CanStore(v) == Type(v) \in Storable \/ (Type(v) = "List" /\ \A k \in DOMAIN v[2] : CanStore(v[2][k]))
=============================================================================
