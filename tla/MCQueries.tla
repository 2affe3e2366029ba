------------------------------ MODULE MCQueries ------------------------------
(* Queries on small graphs: every expression of three levels over a few    *)
(* operators after WHERE, every form of every clause, and patterns of up   *)
(* to two steps.                                                           *)
EXTENDS Queries

IsMatch(c) == c.op = "MATCH"

MCIdent == {"n", "m", "r", "s", "t", "x", "L", "M", "T", "U", "p", "q", "TO", "Subgraph", "CONTAINS",
            "id", "labels", "now", "datetime"}
MCQuotedOf == ("quoted time" :> "time") @@ ("quoted from" :> "from") @@ ("quoted index" :> "index")
Int1(k) == <<"Int", k>>
Float1(k) == <<"Float", k>>
MCLiteralOf == ("0" :> Int1(0)) @@ ("1" :> Int1(1)) @@ ("2" :> Int1(2)) @@ ("3" :> Int1(3)) @@ ("'s'" :> <<"String", "s">>)
               @@ ("1.0" :> Float1(1)) @@ ("2.0" :> Float1(2))
MCParam == {"$p"}
MCParamOf == "$p" :> <<"Int", 1>>
MCRank == "s" :> 1
MCDateOf == "s" :> [year |-> 1970, month |-> 1, day |-> 2, seconds |-> 1, offset |-> -60]

One1 == LitExpr(<<"Int", 1>>)
V == VarExpr("n")
N == PropExpr(V, "q")
Leaves == {N, One1}
Bin(syms, A, B) == {BinExpr(sym, l, r) : sym \in syms, l \in A, r \in B}
Un(A) == {UnExpr(sym, e) : sym \in UnaryOp, e \in A}
Prop(A) == {PropExpr(e, "p") : e \in A}
IsNull(A) == {IsNullExpr(e, TRUE) : e \in A}
Calls(A) == {CallExpr("count", distinct, <<e>>) : distinct \in BOOLEAN, e \in A}
            \cup {CallExpr("m", FALSE, args) : args \in {<<>>} \cup {<<e, N>> : e \in A}}
Lists(A) == {ListExpr(items) : items \in {<<>>} \cup {<<e, One1>> : e \in A}}
Atoms == {CountStarExpr, ParamExpr("$p"), LitExpr(Null), LitExpr(Bool(TRUE)), LitExpr(<<"String", "s">>),
          VarExpr("from"), PropExpr(V, "time"), PropExpr(VarExpr("index"), "from")}

Ops == {"OR", "AND", "=", "<", "-", "*"}
Flat == Bin(Ops, {N}, Leaves) \cup Un({N}) \cup Prop({N}) \cup IsNull({N})
Nested == Bin(Ops, Flat, Leaves) \cup Bin(Ops, {N}, Flat) \cup Un(Flat) \cup Prop(Flat) \cup IsNull(Flat)
Deep == Bin({"AND", "<", "-"}, Flat, Flat) \cup Un(Nested) \cup IsNull(Nested)
        \cup Bin({"OR", "=", "-"}, {N}, Nested) \cup Bin({"AND", "<", "/"}, Nested, {N})
Exprs == Deep \cup Nested \cup Flat \cup Atoms \cup Calls(Flat \cup Leaves) \cup Lists(Flat \cup Leaves)
         \cup Bin(BinaryOp \ Ops, {N}, Leaves)

Opt(S) == {<<>>} \cup {<<x>> : x \in S}
Some == {N, BinExpr("AND", N, One1)}
Map == MapLiteral(<<Entry("p", One1), Entry("time", N)>>)
EmptyMap == MapLiteral(<<>>)
Nodes == {NodePattern(v, labels, props) :
            v \in Opt({"n", "from"}), labels \in {<<>>, <<"L">>, <<"L", "index">>}, props \in Opt({Map})}
PlainNode == NodePattern(<<"n">>, <<>>, <<>>)
HopForms == [min : {0, 1}, max : Opt({0, 1, 2})]
Rels == {RelationshipPattern(v, types, hops, d, props) :
           v \in Opt({"r"}), types \in {<<>>, <<"T">>, <<"T", "time">>}, hops \in Opt(HopForms), d \in RelDirection,
           props \in Opt({EmptyMap})}
AnyRel == RelationshipPattern(<<"r">>, <<"T">>, <<>>, "out", <<>>)
P1 == <<PatternChain(PlainNode, <<>>)>>
P2 == <<PatternChain(PlainNode, <<StepTo(AnyRel, PlainNode)>>), PatternChain(PlainNode, <<>>)>>
Patterns == {<<PatternChain(n, <<>>)>> : n \in Nodes}
            \cup {<<PatternChain(PlainNode, <<StepTo(r, PlainNode)>>)>> : r \in Rels} \cup {P2}

Times == {AsOf(e) : e \in Some} \cup {Between(e, f) : e, f \in Flat}
Items1 == {<<ReturnItem(e, a)>> : e \in Some, a \in Opt({"m", "time"})}
          \cup {<<ReturnItem(N, <<>>), ReturnItem(One1, <<"m">>)>>}
Orders == {<<>>} \cup {<<OrderItem(e, b)>> : e \in Some, b \in BOOLEAN}
          \cup {<<OrderItem(N, TRUE), OrderItem(N, FALSE)>>}
ReturnForms == {ReturnClause(d, items, order, skip, limit) :
                  d \in BOOLEAN, items \in Items1, order \in Orders, skip, limit \in Opt({One1})}
Return1 == ReturnClause(FALSE, <<ReturnItem(N, <<>>)>>, <<>>, <<>>, <<>>)
Sets == {<<SetItem("n", <<"p">>, N)>>, <<SetItem("from", <<>>, N), SetItem("n", <<"p", "time">>, N)>>}
On(kind) == OnAction(kind, <<SetItem("n", <<"p">>, N)>>)
Parts == {<<>>, <<Participant("n", <<One1>>), Participant("TO", <<>>), Participant("time", <<>>)>>}
NoLabelOrL == {<<>>, <<"L">>}
Clauses ==
    {MatchClause(FALSE, p, <<>>, <<>>) : p \in Patterns}
    \cup {MatchClause(TRUE, P1, <<t>>, w) : t \in Times, w \in Opt({N})}
    \cup ReturnForms \cup {WithClause(d, items, w) : d \in BOOLEAN, items \in Items1, w \in Opt(Some)}
    \cup {UnwindClause(e, name) : e \in Some, name \in {"m", "index"}} \cup {CreateClause(P1), CreateClause(P2)}
    \cup {SetClause(items) : items \in Sets}
    \cup {RemoveClause(<<RemoveItem("n", k, "p"), RemoveItem("n", j, "time")>>) : k, j \in {"label", "key"}}
    \cup {DeleteClause(detach, exprs) : detach \in BOOLEAN, exprs \in {<<N>>, <<N, One1>>}}
    \cup {MergeClause(p, on) : p \in {P1, P2}, on \in {<<>>, <<On("on match")>>, <<On("on create"), On("on match")>>}}
    \cup {CreateIndexClause(name, IndexTarget(kind, of, "from")) :
            name \in Opt({"m", "index"}), kind \in {"label", "type"}, of \in {"L", "time"}}
    \cup {DropIndexClause(name) : name \in {"m", "index"}}
    \cup {CreateSnapshotClause(v, labels, props, anchor, MatchClause(FALSE, P1, <<>>, w), items) :
            v \in Opt({"n"}), labels \in NoLabelOrL, props \in Opt({Map}), anchor \in Opt({One1}), w \in Opt({N}),
            items \in Items1}
    \cup {CreateHyperedgeClause(v, labels, sources, targets) :
            v \in Opt({"n"}), labels \in NoLabelOrL, sources, targets \in Parts}
    \cup {MatchHyperedgeClause(v, labels) : v \in Opt({"n"}), labels \in NoLabelOrL}

-----------------------------------------------------------------------------
(* Queries to run.                                                         *)

L(k) == LitExpr(<<"Int", k>>)
PropOf(name, key) == PropExpr(VarExpr(name), key)
Call(name, args) == CallExpr(name, FALSE, args)
MapOf(key, e) == MapLiteral(<<Entry(key, e)>>)
Match(pattern, optional, temporal, where) == MatchClause(optional, pattern, temporal, where)
ARel(opt, types, hops, direction) == RelationshipPattern(opt, types, hops, direction, <<>>)
Return(items) == ReturnClause(FALSE, items, <<>>, <<>>, <<>>)
ReturnVars(names) == Return([k \in DOMAIN names |-> ReturnItem(VarExpr(names[k]), <<>>)])

\* Patterns of one and of two steps, of fixed and of variable length, now and at a time.
Bare1(name) == NodePattern(<<name>>, <<>>, <<>>)
First == {NodePattern(<<"n">>, labels, props) : labels \in {<<>>, <<"L">>}, props \in Opt({MapOf("q", L(1))})}
Second == {NodePattern(<<"m">>, <<>>, props) : props \in Opt({MapOf("q", L(2))})}
OneStep == {<<Match(<<PatternChain(f, <<StepTo(ARel(<<"r">>, types, <<>>, d), t)>>)>>, FALSE, time, <<>>),
              ReturnVars(<<"n", "m", "r">>)>> :
             f \in First, t \in Second, types \in {<<>>, <<"T">>}, d \in RelDirection, time \in Opt({AsOf(L(1)), AsOf(L(2))})}
TwoSteps == {<<Match(<<PatternChain(Bare1("n"),
                             <<StepTo(ARel(<<"r">>, <<"T">>, <<>>, d), Bare1("m")),
                               StepTo(ARel(<<"s">>, <<>>, <<>>, e), NodePattern(<<"t">>, <<>>, p))>>)>>, FALSE, <<>>, <<>>),
               ReturnVars(<<"n", "m", "t", "r", "s">>)>> : d, e \in RelDirection, p \in Opt({MapOf("q", L(2))})}
Paths == {<<Match(<<PatternChain(Bare1("n"),
                          <<StepTo(ARel(<<>>, types, <<[min |-> min, max |-> max]>>, d), Bare1("m"))>>)>>,
                  FALSE, <<>>, <<>>), ReturnVars(<<"n", "m">>)>> :
          types \in {<<>>, <<"T">>}, min \in {0, 1, 2}, max \in {<<>>, <<1>>, <<2>>, <<3>>}, d \in RelDirection}

\* A date in a string, and what is not one.
Dates == {Call("datetime", <<LitExpr(<<"String", "s">>)>>), Call("datetime", <<L(1)>>), Call("now", <<>>)}

\* What the optimizer rewrites, or must not.
OfL == <<PatternChain(NodePattern(<<"n">>, <<"L">>, <<>>), <<>>)>>
MatchL(where) == Match(OfL, FALSE, <<>>, where)
Q == PropOf("n", "q")
PP == PropOf("n", "p")
Eq(l, r) == BinExpr("=", l, r)
And(l, r) == BinExpr("AND", l, r)
Less(l, r) == BinExpr("<", l, r)
Predicates == {Eq(Q, L(1)), Eq(L(1), Q), And(Eq(Q, L(1)), Less(PP, L(2))), And(Less(PP, L(2)), Eq(L(1), Q)),
               BinExpr("OR", Eq(Q, L(1)), Eq(PP, L(1))), Eq(Q, BinExpr("-", L(2), L(1))),
               And(LitExpr(Bool(TRUE)), Less(Q, PP)), Eq(Q, PP), Eq(PropOf("m", "q"), L(1)),
               And(Eq(Q, L(1)), Eq(Q, L(2)))}
              \cup {Eq(Q, LitExpr(v)) : v \in {Float1(1), Float1(2), Null}}
ReturnX(e) == Return(<<ReturnItem(e, <<"x">>)>>)
Outputs == {ReturnVars(<<"n">>), ReturnX(BinExpr("*", Q, BinExpr("-", L(3), L(2)))),
            [ReturnX(Q) EXCEPT !.distinct = TRUE],
            [ReturnX(Q) EXCEPT !.order = <<OrderItem(VarExpr("x"), FALSE)>>],
            [ReturnX(Q) EXCEPT !.skip = <<L(1)>>, !.limit = <<L(1)>>],
            Return(<<ReturnItem(CountStarExpr, <<"x">>), ReturnItem(Q, <<>>)>>), ReturnX(Call("labels", <<V>>))}
Unwinds == UnwindClause(ListExpr(<<L(1), L(2)>>), "x")
WithX(where) == WithClause(FALSE, <<ReturnItem(Q, <<"x">>), ReturnItem(V, <<>>)>>, where)
OptionalM == Match(<<PatternChain(Bare1("n"), <<StepTo(ARel(<<"r">>, <<"T">>, <<>>, "out"), Bare1("m"))>>)>>, TRUE, <<>>, <<>>)
InSubgraph(types) == Match(<<PatternChain(NodePattern(<<"s">>, <<"Subgraph">>, <<>>),
                                          <<StepTo(ARel(<<>>, types, <<>>, "out"), Bare1("n"))>>)>>, FALSE, <<>>, <<>>)
Selections == {<<MatchL(<<e>>), out>> : e \in Predicates, out \in Outputs}
Rewritten ==
    Selections
    \cup {<<MatchL(<<>>), c, ReturnVars(<<"n", "x">>)>> :
           c \in {Unwinds, WithX(<<>>), WithX(<<Less(VarExpr("x"), L(2))>>), WithX(<<Q>>)}}
    \cup {<<MatchL(w), WithX(<<>>), ReturnVars(names)>> : w \in Opt(Predicates), names \in {<<"x">>, <<"m">>, <<"n", "m">>}}
    \cup {<<MatchL(w), OptionalM, ReturnVars(<<"n", "r", "m">>)>> : w \in Opt(Predicates)}
    \cup {<<MatchL(<<>>), ReturnX(d)>> : d \in Dates}
    \cup {<<MatchL(<<>>), OptionalM, WithX(<<>>), ReturnVars(<<"m">>)>>}
    \cup {<<Unwinds, Return(<<ReturnItem(BinExpr("+", VarExpr("x"), L(1)), <<"m">>)>>)>>}
    \cup {<<Match(OfL, FALSE, <<t>>, w), Return(<<ReturnItem(V, <<>>), ReturnItem(Q, <<"x">>)>>)>> :
           t \in {AsOf(L(1)), AsOf(L(2)), Between(L(1), L(2)), Between(L(2), L(3))}, w \in Opt({Eq(Q, L(1))})}
    \cup {<<InSubgraph(types), Return(<<ReturnItem(Q, <<"x">>), ReturnItem(VarExpr("s"), <<>>)>>)>> :
           types \in {<<"CONTAINS">>, <<"T">>}}
    \cup {<<MatchHyperedgeClause(<<"n">>, <<>>), ReturnVars(<<"n">>)>>}

MCQueriesMeant ==
    {<<Match(P1, FALSE, <<>>, <<e>>), Return1>> : e \in Exprs}
    \cup {<<c, Return1>> : c \in Clauses} \cup {<<Return1, c>> : c \in Clauses}
    \cup OneStep \cup TwoSteps \cup Paths \cup Rewritten

-----------------------------------------------------------------------------
(* Graphs.                                                                 *)

None == [id \in {} |-> Null]
Time(t) == <<"DateTime", t>>
Stamps(created, updated) == ("_created_at" :> Time(created)) @@ ("_updated_at" :> Time(updated))
Graph(nodes, edges) == [nodes |-> nodes, edges |-> edges, versions |-> None, subgraphs |-> None, members |-> None,
                        hyperedges |-> None, clock |-> 3]
ANodeOf(labels, props) == [labels |-> labels, props |-> props]
Edge(type, from, to, since) == [type |-> type, from |-> from, to |-> to, props |-> "_valid_from" :> Time(since)]
Until(edge, t) == [edge EXCEPT !.props = @ @@ ("_valid_to" :> Time(t))]

\* One node, with a property of every type.
Single == {Graph(1 :> ANodeOf(<<"L">>, props), None) :
             props \in {None, "q" :> <<"Int", 1>>, "q" :> Bool(TRUE), "q" :> <<"String", "s">>}}

\* A cycle with an edge twice and a loop; a node that came later, one that changed; a subgraph.
Nodes3 == (1 :> ANodeOf(<<"L">>, ("q" :> <<"Int", 1>>) @@ ("p" :> <<"Int", 1>>) @@ Stamps(1, 2)))
          @@ (2 :> ANodeOf(<<"L", "M">>, ("q" :> <<"Int", 2>>) @@ ("p" :> <<"Int", 1>>) @@ Stamps(1, 1)))
          @@ (3 :> ANodeOf(<<>>, ("q" :> <<"Int", 2>>) @@ Stamps(2, 2)))
Cycle == [Graph(Nodes3, (1 :> Edge("T", 1, 2, 1)) @@ (2 :> Until(Edge("T", 1, 2, 1), 2)) @@ (3 :> Edge("T", 2, 3, 2))
                        @@ (4 :> Edge("U", 3, 1, 2)) @@ (5 :> Edge("T", 2, 2, 1)))
          EXCEPT !.versions = 1 :> <<ANodeOf(<<"L">>, ("q" :> <<"Int", 2>>) @@ Stamps(1, 1))>>,
                 !.subgraphs = 1 :> [props |-> None, anchor |-> Time(1)], !.members = 1 :> <<2, 1>>,
                 !.hyperedges = 1 :> [type |-> "T", sources |-> <<<<"Node", 1>>>>, targets |-> <<<<"NodeAt", 1, 1>>>>]]
Star == [Graph(Nodes3, (1 :> Edge("T", 1, 2, 1)) @@ (2 :> Edge("U", 1, 3, 2)) @@ (3 :> Edge("T", 3, 2, 2)))
         EXCEPT !.versions = Cycle.versions]
Empty == Graph(None, None)

\* Numbers of both types, a float that is no integer's equal among them, and a stored NULL.
Mixed == Graph((1 :> ANodeOf(<<"L">>, "q" :> Int1(1))) @@ (2 :> ANodeOf(<<"L">>, "q" :> Float1(2)))
               @@ (3 :> ANodeOf(<<"L">>, ("q" :> Null) @@ ("p" :> Int1(1)))), None)

MCGraphsOf(query) == IF query[2] = Return1 /\ IsMatch(query[1]) /\ query[1].pattern = P1 /\ query[1].where # <<>>
                     THEN Single
                     ELSE {Cycle, Star, Empty} \cup (IF query \in Selections THEN {Mixed} ELSE {})
=============================================================================
