----------------------------- MODULE MCStatements -----------------------------
(* Statements over one or two nodes, and the rows of a bound on every store. *)
EXTENDS Statements

MCParamOf == "$p" :> IntV(1)
MCDateOf == [s \in {} |-> 0]
MCRank == "s" :> 1
\* Eval and RunOn, as values: TLC's coverage unfolds an operator put for a constant at every use of
\* it, down to the first LET.
MCValueIn(e, row, d) == LET value == Eval(e, row, d) IN value
MCReadBy(rows, ops, d) == LET result == RunOn(rows, ops, d) IN result
\* Every key but this one has been named before: by a statement from before the ones here.
MCInCatalog(key, d) == key # "unheard of"
MCMaxIds == [node |-> 3, edge |-> 2, subgraph |-> 1, hyperedge |-> 1]

L(k) == LitExpr(IntV(k))
Q(name) == PropExpr(VarExpr(name), "q")
MapOf(key, e) == MapLiteral(<<Entry(key, e)>>)
N(opt, labels, props) == NodePattern(opt, labels, props)
Chain(n, steps) == PatternChain(n, steps)
To(r, n) == StepTo(r, n)
R(opt, direction, props) == RelationshipPattern(opt, <<"T">>, <<>>, direction, props)
Plain(name) == N(<<name>>, <<>>, <<>>)
Nodes1 == Chain(Plain("n"), <<>>)
Linked == Chain(Plain("n"), <<To(R(<<"r">>, "out", <<>>), Plain("m"))>>)
Match(chain, temporal) == MatchClause(FALSE, <<chain>>, temporal, <<>>)
Q1 == <<MapOf("q", L(1))>>
Q2 == <<MapOf("q", L(2))>>

Creates ==
    {<<CreateClause(<<Chain(N(<<"n">>, <<"L">>, Q1), <<>>)>>)>>,
     <<CreateClause(<<Chain(N(<<"n">>, <<"L">>, Q1), <<To(R(<<>>, "in", <<>>), N(<<>>, <<"M">>, <<>>))>>)>>)>>,
     <<CreateClause(<<Chain(N(<<>>, <<"L">>, <<>>), <<To(R(<<>>, "out", <<>>), N(<<>>, <<>>, <<>>))>>)>>)>>,
     <<Match(Nodes1, <<>>), CreateClause(<<Chain(Plain("n"), <<To(R(<<"r">>, "both", Q1), Plain("n"))>>)>>)>>,
     <<Match(Nodes1, <<>>), CreateClause(<<Chain(N(<<"m">>, <<>>, <<MapOf("_created_at", L(1))>>), <<>>)>>)>>}

Merge(chain, on) == <<MergeClause(<<chain>>, on)>>
SetTo(name, key, e) == SetItem(name, <<key>>, e)
On == <<OnAction("on match", <<SetTo("n", "q", L(2))>>), OnAction("on create", <<SetTo("n", "p", Q("n"))>>)>>
LtoM(direction) == Chain(N(<<"n">>, <<"L">>, <<>>), <<To(R(<<"r">>, direction, Q2), N(<<"m">>, <<"M">>, Q2))>>)
Merges ==
    {Merge(Chain(N(<<"n">>, <<"L">>, Q1), <<>>), on) : on \in {<<>>, On}}
    \cup {Merge(LtoM(direction), <<>>) : direction \in {"out", "in"}}
    \cup {Merge(Chain(N(<<>>, <<>>, Q2), <<>>), <<>>),
          Merge(Chain(N(<<"n">>, <<"L">>, <<>>), <<To(R(<<>>, "both", <<>>), N(<<>>, <<"M", "L">>, <<>>))>>), <<>>),
          Merge(Chain(N(<<"n">>, <<"L">>, <<>>), <<To(R(<<>>, "out", <<>>), N(<<"m">>, <<"M">>, <<MapOf("q", Q("n"))>>))>>), <<>>),
          <<Match(Nodes1, <<>>)>> \o Merge(Chain(Plain("n"), <<To(R(<<>>, "out", <<>>), Plain("m"))>>), <<>>)}

Set(chain, items) == <<Match(chain, <<>>), SetClause(items)>>
RemoveFrom(chain, name, kind, of) == <<Match(chain, <<>>), RemoveClause(<<RemoveItem(name, kind, of)>>)>>
Updates ==
    {Set(Nodes1, <<SetTo("n", "q", L(2))>>),
     Set(Nodes1, <<SetTo("n", "q", L(1)), SetTo("n", "_valid_from", L(1))>>),
     Set(Linked, <<SetTo("r", "_valid_to", L(2)), SetTo("m", "q", Q("r"))>>),
     <<Match(Nodes1, <<AsOf(L(1))>>), SetClause(<<SetTo("n", "q", Q("n"))>>)>>,
     RemoveFrom(Nodes1, "n", "key", "q"), RemoveFrom(Nodes1, "n", "key", "_created_at"),
     RemoveFrom(Nodes1, "n", "key", "unheard of"), RemoveFrom(Nodes1, "n", "label", "L"),
     RemoveFrom(Linked, "r", "key", "q")}

Delete(chain, exprs, detach) == <<Match(chain, <<>>), DeleteClause(detach, exprs)>>
Deletes ==
    {Delete(Nodes1, <<VarExpr("n")>>, detach) : detach \in BOOLEAN}
    \cup {Delete(Linked, <<VarExpr("r")>>, FALSE), Delete(Linked, <<VarExpr("n"), VarExpr("r")>>, FALSE),
          Delete(Linked, <<VarExpr("m")>>, TRUE), Delete(Nodes1, <<Q("n")>>, FALSE)}

Snapshot(anchor, chain, alias) ==
    <<CreateSnapshotClause(<<"s">>, <<>>, Q1, anchor, Match(chain, <<>>), <<ReturnItem(VarExpr("n"), alias)>>)>>
Hyperedge(of) == CreateHyperedgeClause(<<"h">>, <<"T">>, of, <<Participant("n", <<>>)>>)
Groups ==
    {Snapshot(<<>>, Nodes1, <<"m">>), Snapshot(<<L(1)>>, Linked, <<>>),
     <<Match(Nodes1, <<>>), Hyperedge(<<Participant("n", <<L(1)>>)>>)>>, <<Hyperedge(<<>>)>>}

MCFuses == {-1, 3}
MadePlan == Plan(<<CreateClause(<<Chain(N(<<"n">>, <<"L">>, Q1), <<To(R(<<>>, "out", Q2), N(<<>>, <<"M">>, Q2))>>)>>)>>)
MCDatabases == {Execute(plan, EmptyDb(1), -1).db : plan \in {<<>>, MadePlan}}

\* What the nodes of a MERGE are to have is worth the same on an engine that has more.
Grown(d) == {CreateNode(d, <<"L">>, EmptyRow),
             CreateEdge(d, [type |-> "T", from |-> 1, to |-> 1, props |-> EmptyRow])}
ASSUME SameOnMoreAssumption ==
  \A d \in MCDatabases, e \in {L(1), L(2), Q("n"), ParamExpr("$p")} :
    \A id \in DOMAIN d.nodes, c \in Grown(d) :
      LET row == Bind(EmptyRow, <<"n">>, <<"Node", id>>) IN Eval(e, row, d) = Eval(e, row, c)

MCStatementsMeant == Creates \cup Merges \cup Updates \cup Deletes \cup Groups

\* MATCH (n:L), (m:M) CREATE (n)-[:T]->(m).
MCPairs ==
    {<<[Match(Chain(N(<<"n">>, <<"L">>, <<>>), <<>>), <<>>) EXCEPT !.pattern = @ \o <<Chain(N(<<"m">>, <<"M">>, <<>>), <<>>)>>],
       CreateClause(<<Chain(Plain("n"), <<To(R(<<>>, "out", <<>>), Plain("m"))>>)>>)>>}
=============================================================================
