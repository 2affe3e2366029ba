------------------------------- MODULE Queries -------------------------------
(***************************************************************************)
(* A query that reads, from its text to its rows (api/mod.rs): lexer,      *)
(* parser, semantic analysis, planner, optimizer and executor, one step    *)
(* each.  It is typed in small letters with spaces between all tokens, or  *)
(* in capitals with no spaces but between words; the stage "refused" is    *)
(* an error of any of them.                                                *)
(* Statements that write are module Statements.                            *)
(***************************************************************************)
EXTENDS QueryText, Semantics, Optimizer, Reads

CONSTANTS QueriesMeant,     \* sequences of clauses
          GraphsOf(_)       \* the graphs a query is run on

VARIABLES written,      \* the query meant
          spaced,       \* it was typed with spaces
          stage,        \* "typed", "lexed", "parsed", "planned", "done", "refused"
          tokens,       \* tokens as typed, then as the lexer sees them
          parsed,       \* what the parser made of them
          plan,         \* what the optimizer made of that
          graph,        \* the graph it ran on, as a sequence of at most one
          answer        \* rows, or the failure

vars == <<written, spaced, stage, tokens, parsed, plan, graph, answer>>

Init == /\ written \in QueriesMeant /\ spaced \in BOOLEAN
        /\ stage = "typed" /\ tokens = QueryText(written)
        /\ parsed = <<>> /\ plan = <<>> /\ graph = <<>> /\ answer = Rows(<<>>)

\* A keyword in small letters.
Small(t) == IF t \in Keywords THEN CHOOSE s \in DOMAIN KeywordOf : KeywordOf[s] = t ELSE t

LexText == /\ stage = "typed" /\ stage' = "lexed"
           /\ tokens' = IF spaced THEN [k \in DOMAIN tokens |-> Word(Small(tokens[k]))] ELSE Lex(Typed(tokens))
           /\ UNCHANGED <<written, spaced, parsed, plan, graph, answer>>

Parse == /\ stage = "lexed"
         /\ parsed' = ParseQuery(tokens)
         /\ stage' = IF parsed' = <<>> THEN "refused" ELSE "parsed"
         /\ UNCHANGED <<written, spaced, tokens, plan, graph, answer>>

\* analyze, plan, optimize.
Compile == /\ stage = "parsed"
           /\ LET planned == Plan(parsed)
              IN  IF Analyze(parsed).ok /\ Ready(planned)
                  THEN stage' = "planned" /\ plan' = Optimize(planned)
                  ELSE stage' = "refused" /\ UNCHANGED plan
           /\ UNCHANGED <<written, spaced, tokens, parsed, graph, answer>>

\* execute.
ReadOps == Finders \cup {"Filter", "Project", "With", "Unwind", "Aggregate", "Sort", "Skip", "Limit"}
Run1 == /\ stage = "planned" /\ stage' = "done"
        /\ \A k \in DOMAIN plan : plan[k].op \in ReadOps
        /\ ~ PanicsIn(plan)
        /\ \E db \in GraphsOf(written) : graph' = <<db>> /\ answer' = RunPlan(plan, db)
        /\ UNCHANGED <<written, spaced, tokens, parsed, plan>>

Next == LexText \/ Parse \/ Compile \/ Run1
Spec == Init /\ [][Next]_vars

-----------------------------------------------------------------------------
(* Text.                                                                   *)

\* A query printed with the fewest parentheses (QueryText) is read as the query it was: operators
\* bind as infix_binding_power and prefix_binding_power say, AND, OR and arithmetic associate to the
\* left, BETWEEN keeps its AND, and no clause takes tokens of the next one.  It says nothing of
\* comparisons of comparisons without parentheses.  Without the spaces the lexer may join symbols
\* (1--2, a<-1), which is an error; it is never a different query.
RoundTrip == /\ parsed \in {written, <<>>}
             /\ stage \in {"parsed", "refused"} /\ spaced => parsed = written

-----------------------------------------------------------------------------
(* Names.                                                                  *)

\* The expressions an operator evaluates for the rows of its source, and the names of its rows.
ExprsOf(o) == CASE o.op = "Filter" -> {o.predicate}
                [] o.op \in {"Project", "With"} -> {o.items[k].expr : k \in DOMAIN o.items}
                [] o.op = "Aggregate" -> {o.keys[k] : k \in DOMAIN o.keys}
                [] o.op = "Unwind" -> {o.expr}
                [] o.op = "SetOp" -> {o.items[k].value : k \in DOMAIN o.items}
                [] o.op = "DeleteOp" -> ToSet(o.exprs)
                [] OTHER -> {}
PatternNames(pattern) ==
    UNION {ToSet(c.first.variable) \cup UNION {ToSet(c.steps[k].rel.variable) \cup ToSet(c.steps[k].node.variable)
                                               : k \in DOMAIN c.steps} : c \in ToSet(pattern)}
Names(names, o) ==
    CASE o.op \in {"NodeScan", "IndexScan", "SubgraphScan", "HyperEdgeScan"} -> {o.variable}
      [] o.op \in {"Expand", "VarLengthExpand", "OptionalExpand"} ->
           names \cup {o.target} \cup ToSet(o.rel)
      [] o.op \in {"Project", "With"} -> {ColumnOf(o.items[k])[1] : k \in DOMAIN o.items}
      [] o.op = "Aggregate" -> {KeyName(o.keys[k])[1] : k \in DOMAIN o.keys} \cup {o.aggs[k].name[1] : k \in DOMAIN o.aggs}
      [] o.op = "Unwind" -> names \cup {o.name}
      [] o.op \in {"CreateOp", "MergeOp"} -> names \cup PatternNames(o.pattern)
      [] o.op = "CreateHyperedgeOp" -> names \cup ToSet(o.variable)
      [] o.op = "CreateSnapshotOp" -> ToSet(o.variable)
      [] OTHER -> names
NamesBefore(ops, k) == FoldLeft(Names, {}, SubSeq(ops, 1, k - 1))

\* One MATCH of one chain; an OPTIONAL MATCH starts where the pattern before it ended; aliases for
\* what is computed; what is ordered has gone through RETURN already.
LastName(chain) == IF chain.steps = <<>> THEN chain.first.variable ELSE Last(chain.steps).node.variable
OneChain(clauses) ==
    /\ \A k \in DOMAIN clauses : clauses[k].op = "MATCH" =>
         /\ Len(clauses[k].pattern) = 1
         /\ k > 1 => /\ clauses[k].optional /\ clauses[k - 1].op = "MATCH"
                     /\ clauses[k].pattern[1].first.variable = LastName(clauses[k - 1].pattern[1])
    /\ \A k \in DOMAIN clauses : clauses[k].op = "WITH" =>
         \A j \in DOMAIN clauses[k].items : ~ IsAggregate(clauses[k].items[j].expr)


-----------------------------------------------------------------------------
(* Rows.                                                                   *)

\* What a filter and a lookup judge differently: a node of the label stores the number of the other
\* type under the key (1 for 1.0: equal to eval_cmp, not to the lookup), or stores NULL where NULL is
\* looked up (equal to the lookup, to eval_cmp nothing is).
Differs(stored, value) == \/ stored = Null /\ value = Null
                          \/ Number(stored) /\ Number(value) /\ stored # value /\ stored[2] = value[2]
LookupDiffers(o, db) ==
    \E id \in DOMAIN db.nodes :
      LET node == db.nodes[id]
      IN  o.label \in ToSet(node.labels) /\ o.key \in DOMAIN node.props /\ Differs(node.props[o.key], o.value.value)
SameToLookups(ops, db) == \A k \in DOMAIN ops : ops[k].op = "IndexScan" => ~ LookupDiffers(ops[k], db)

Keeps(plain, optimized) == IsOk(plain) => optimized = plain

\* What a pattern of one chain asks for: nodes and edges for its variables.  The labels of the
\* nodes but the first are not looked at.
NodeFits(n, id, db) == \/ n.labels = <<>>
                       \/ \E k \in DOMAIN db.nodes[id].labels : db.nodes[id].labels[k] = n.labels[1]
PropsFit(opt, props) ==
    opt # <<>> => \A k \in DOMAIN opt[1].entries :
                    LET x == opt[1].entries[k]
                    IN  x.key \in DOMAIN props /\ props[x.key] = x.value.value
Joins(r, edge, from, to) ==
    /\ r.types = <<>> \/ edge.type = r.types[1]
    /\ \/ r.direction # "in" /\ edge.from = from /\ edge.to = to
       \/ r.direction # "out" /\ edge.from = to /\ edge.to = from
\* A node is there from its creation on, an edge from _valid_from until before _valid_to.
ThereAt(node, t) == node.props["_created_at"][2] <= t
Valid(edge, t) == /\ "_valid_from" \in DOMAIN edge.props => edge.props["_valid_from"][2] <= t
                  /\ {"_valid_from", "_valid_to"} \subseteq DOMAIN edge.props => t < edge.props["_valid_to"][2]
Matches(c, db) ==
    LET chain == c.pattern[1]
        n == Len(chain.steps)
        Rel(k) == chain.steps[k].rel
        time == c.temporal[1].time.value[2]
        Lays(ns, es) ==
            /\ NodeFits(chain.first, ns[1], db) /\ PropsFit(chain.first.properties, db.nodes[ns[1]].props)
            /\ \A k \in 1..n : /\ Joins(Rel(k), db.edges[es[k]], ns[k], ns[k + 1])
                               /\ PropsFit(Rel(k).properties, db.edges[es[k]].props)
                               /\ PropsFit(chain.steps[k].node.properties, db.nodes[ns[k + 1]].props)
            /\ c.temporal # <<>> => /\ \A k \in 1..(n + 1) : ThereAt(db.nodes[ns[k]], time)
                                    /\ \A k \in 1..n : Valid(db.edges[es[k]], time)
        NodeName(k) == (IF k = 1 THEN chain.first ELSE chain.steps[k - 1].node).variable
        Row(ns, es) == [column \in {NodeName(k) : k \in 1..(n + 1)} \cup {Rel(k).variable : k \in 1..n} |->
                          IF \E k \in 1..n : Rel(k).variable = column
                          THEN <<"Edge", es[CHOOSE k \in 1..n : Rel(k).variable = column]>>
                          ELSE <<"Node", ns[CHOOSE k \in 1..(n + 1) : NodeName(k) = column]>>]
    IN  {Row(m[1], m[2]) : m \in {m \in [1..(n + 1) -> DOMAIN db.nodes] \X [1..n -> DOMAIN db.edges] :
                                    Lays(m[1], m[2])}}

\* MATCH of one chain, and RETURN of just these variables of it.
Returns(clauses, Variables(_)) ==
    /\ Len(clauses) = 2 /\ clauses[1].op = "MATCH" /\ clauses[2].op = "RETURN"
    /\ Len(clauses[1].pattern) = 1 /\ clauses[1].where = <<>>
    /\ LET names == Variables(clauses[1].pattern[1])
       IN  /\ <<>> \notin ToSet(names) /\ IsInjective(names)
           /\ \A k \in DOMAIN clauses[2].items : clauses[2].items[k].expr.op = "var" /\ clauses[2].items[k].alias = <<>>
           /\ [k \in DOMAIN clauses[2].items |-> <<clauses[2].items[k].expr.name>>] = names
    /\ ~ clauses[2].distinct /\ clauses[2].skip = <<>> /\ clauses[2].limit = <<>>
NodeNames(chain) == <<chain.first.variable>> \o [k \in DOMAIN chain.steps |-> chain.steps[k].node.variable]
AllNames(chain) == NodeNames(chain) \o [k \in DOMAIN chain.steps |-> chain.steps[k].rel.variable]
ReturnsMatch(clauses) ==
    /\ Returns(clauses, AllNames)
    /\ clauses[1].temporal = <<>> \/ clauses[1].temporal[1].op = "as of"
    /\ LET chain == clauses[1].pattern[1]
       IN  ~ IsSubgraph(chain.first) /\ \A k \in DOMAIN chain.steps : chain.steps[k].rel.hops = <<>>

\* MATCH answers every way to lay its pattern on the graph, once each; AT TIME, on the nodes and
\* edges there were then (a property in the pattern is the one of now even so: its filter comes
\* before the scan of the past).
RowsAreMatches ==
    stage = "done" /\ ReturnsMatch(parsed) /\ IsOk(answer) =>
      /\ ToSet(answer.rows) = Matches(parsed[1], graph[1])
      /\ IsInjective(answer.rows)

\* How many paths lead from a node to another: along every sequence of different nodes, the product
\* of the numbers of edges between them.
EdgesBetween(r, a, b, db) == Cardinality({e \in DOMAIN db.edges : Joins(r, db.edges[e], a, b)})
SimplePaths(a, b, len, db) ==
    {ns \in [1..(len + 1) -> DOMAIN db.nodes] : ns[1] = a /\ ns[len + 1] = b /\ IsInjective(ns)}
PathCount(r, a, b, db) ==
    LET max == IF r.hops[1].max = <<>> THEN DefaultMaxHops ELSE r.hops[1].max[1]
        Along(ns) == FoldFunction(LAMBDA count, product : count * product, 1,
                                  [k \in 1..(Len(ns) - 1) |-> EdgesBetween(r, ns[k], ns[k + 1], db)])
    IN  MapThenSumSet(Along, UNION {SimplePaths(a, b, len, db) : len \in r.hops[1].min .. max})
ReturnsPaths(clauses) ==
    /\ Returns(clauses, NodeNames) /\ clauses[1].temporal = <<>>
    /\ LET steps == clauses[1].pattern[1].steps IN Len(steps) = 1 /\ steps[1].rel.hops # <<>>

\* A path of variable length visits no node twice, and every such path between two nodes is found
\* once, whatever cycles the graph has, up to the hops the pattern allows; a pattern that sets no
\* limit allows DefaultMaxHops, and longer paths are not found.
PathsAreSimple ==
    stage = "done" /\ ReturnsPaths(parsed) /\ IsOk(answer) =>
      LET chain == parsed[1].pattern[1]
          Walks(a, b) == {k \in DOMAIN answer.rows : answer.rows[k] = (chain.first.variable :> <<"Node", a>>)
                                                                  @@ (chain.steps[1].node.variable :> <<"Node", b>>)}
      IN  \A a, b \in DOMAIN graph[1].nodes :
            Cardinality(Walks(a, b)) = PathCount(chain.steps[1].rel, a, b, graph[1])
=============================================================================
