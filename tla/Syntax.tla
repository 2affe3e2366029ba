-------------------------------- MODULE Syntax --------------------------------
(***************************************************************************)
(* The syntax tree of a query (parser/ast.rs): a record for every node,    *)
(* tagged op; what is optional is a sequence of at most one element.  A    *)
(* query is a sequence of clauses.                                         *)
(***************************************************************************)
EXTENDS Values

NameOr(opt, other) == IF opt = <<>> THEN other ELSE opt[1]
FirstOf(seq) == IF seq = <<>> THEN <<>> ELSE <<Head(seq)>>

-----------------------------------------------------------------------------
(* Expressions *)

LitExpr(v) == [op |-> "lit", value |-> v]
VarExpr(name) == [op |-> "var", name |-> name]
PropExpr(of, key) == [op |-> "prop", of |-> of, key |-> key]
ParamExpr(name) == [op |-> "param", name |-> name]
BinExpr(sym, l, r) == [op |-> "bin", sym |-> sym, left |-> l, right |-> r]
UnExpr(sym, e) == [op |-> "un", sym |-> sym, arg |-> e]
CallExpr(name, distinct, args) == [op |-> "call", name |-> name, distinct |-> distinct, args |-> args]
IsNullExpr(e, negated) == [op |-> "isnull", arg |-> e, negated |-> negated]
CountStarExpr == [op |-> "count*"]
ListExpr(items) == [op |-> "list", items |-> items]

BinaryOp == {"+", "-", "*", "/", "%", "=", "<>", "<", "<=", ">", ">=", "AND", "OR"}
UnaryOp == {"NOT", "-"}

-----------------------------------------------------------------------------
(* Patterns: a chain is a node and the steps from it, each a relationship and the node it leads to. *)

Entry(key, value) == [op |-> "entry", key |-> key, value |-> value]
MapLiteral(entries) == [op |-> "map", entries |-> entries]
NodePattern(variable, labels, properties) ==
    [op |-> "node", variable |-> variable, labels |-> labels, properties |-> properties]
RelDirection == {"out", "in", "both"}
RelationshipPattern(variable, types, hops, direction, properties) ==
    [op |-> "rel", variable |-> variable, types |-> types, hops |-> hops, direction |-> direction,
     properties |-> properties]
StepTo(rel, node) == [op |-> "step", rel |-> rel, node |-> node]
PatternChain(first, steps) == [op |-> "chain", first |-> first, steps |-> steps]

-----------------------------------------------------------------------------
(* Clauses *)

AsOf(time) == [op |-> "as of", time |-> time]
Between(start, end) == [op |-> "between", start |-> start, end |-> end]
MatchClause(optional, pattern, temporal, where) ==
    [op |-> "MATCH", optional |-> optional, pattern |-> pattern, temporal |-> temporal, where |-> where]

ReturnItem(expr, alias) == [op |-> "item", expr |-> expr, alias |-> alias]
OrderItem(expr, ascending) == [op |-> "order", expr |-> expr, ascending |-> ascending]
ReturnClause(distinct, items, order, skip, limit) ==
    [op |-> "RETURN", distinct |-> distinct, items |-> items, order |-> order, skip |-> skip, limit |-> limit]
WithClause(distinct, items, where) == [op |-> "WITH", distinct |-> distinct, items |-> items, where |-> where]
UnwindClause(expr, name) == [op |-> "UNWIND", expr |-> expr, name |-> name]

CreateClause(pattern) == [op |-> "CREATE", pattern |-> pattern]
\* The target of an assignment: a name, and the keys after it.
SetItem(name, path, value) == [op |-> "set", name |-> name, path |-> path, value |-> value]
SetClause(items) == [op |-> "SET", items |-> items]
\* kind: "key" or "label".
RemoveItem(name, kind, of) == [op |-> "remove", name |-> name, what |-> [op |-> kind, of |-> of]]
RemoveClause(items) == [op |-> "REMOVE", items |-> items]
DeleteClause(detach, exprs) == [op |-> "DELETE", detach |-> detach, exprs |-> exprs]
\* on: actions in the order they are written, "on match" or "on create".
OnAction(kind, items) == [op |-> kind, items |-> items]
MergeClause(pattern, on) == [op |-> "MERGE", pattern |-> pattern, on |-> on]

\* kind: "label" or "type".
IndexTarget(kind, of, key) == [op |-> kind, of |-> of, key |-> key]
CreateIndexClause(name, target) == [op |-> "CREATE INDEX", name |-> name, target |-> target]
DropIndexClause(name) == [op |-> "DROP INDEX", name |-> name]

CreateSnapshotClause(variable, labels, properties, anchor, from, items) ==
    [op |-> "CREATE SNAPSHOT", variable |-> variable, labels |-> labels, properties |-> properties,
     anchor |-> anchor, from |-> from, items |-> items]
\* A name, and a time if it is a TemporalRef.
Participant(name, time) == [op |-> "participant", name |-> name, time |-> time]
Participants(of) == [op |-> "participants", of |-> of]
CreateHyperedgeClause(variable, labels, sources, targets) ==
    [op |-> "CREATE HYPEREDGE", variable |-> variable, labels |-> labels, sources |-> Participants(sources),
     targets |-> Participants(targets)]
MatchHyperedgeClause(variable, labels) == [op |-> "MATCH HYPEREDGE", variable |-> variable, labels |-> labels]
===============================================================================
