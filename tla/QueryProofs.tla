------------------------------ MODULE QueryProofs ------------------------------
(***************************************************************************)
(* Statements on an engine (Sessions), for any plans, any evaluator of     *)
(* expressions and any operators that read: no edge dangles, time stamps   *)
(* tell the truth, only DELETE deletes, and what it names, the past is     *)
(* found as it was, and MERGE twice is MERGE once.                         *)
(*                                                                         *)
(* WellKept is what every operation keeps.  A statement under way keeps    *)
(* more (Good, GoodT): compared with the engine it began on, it has taken  *)
(* no id twice and no creation time away, has deleted nothing without      *)
(* DELETE, and finds every past state the engine before found.  This goes  *)
(* from the engine's operations to the operators, and through their loops  *)
(* to the plan.  DELETE (Doing) and MERGE (Again) have sections of their   *)
(* own.                                                                    *)
(*                                                                         *)
(* At the end, dates: days_from_civil counts days, and what a datetime is  *)
(* printed as is the date and the time it was read from.                   *)
(***************************************************************************)
EXTENDS Sessions, Calendar, SequenceTheorems, WellFoundedInduction, TLAPS

-----------------------------------------------------------------------------
(* Functions. *)

LEMMA OverIs ==
  ASSUME NEW f, NEW g
  PROVE  /\ DOMAIN Over(f, g) = DOMAIN f \cup DOMAIN g
         /\ \A k \in DOMAIN f : Over(f, g)[k] = f[k]
         /\ \A k \in DOMAIN g : k \notin DOMAIN f => Over(f, g)[k] = g[k]
BY DEF Over

LEMMA BindIs ==
  ASSUME NEW f, NEW k, NEW v
  PROVE  /\ DOMAIN Bind(f, k, v) = DOMAIN f \cup {k}
         /\ Bind(f, k, v)[k] = v
         /\ \A j \in DOMAIN f : j # k => Bind(f, k, v)[j] = f[j]
BY DEF Bind

LEMMA Removed ==
  ASSUME NEW f, NEW ids
  PROVE  /\ DOMAIN Without(f, ids) = DOMAIN f \ ids
         /\ \A j \in DOMAIN f \ ids : Without(f, ids)[j] = f[j]
BY DEF Without

IsSeq(s) == Len(s) \in Nat /\ s = [k \in 1..Len(s) |-> s[k]]

IsAppended(r, s, v) == IsSeq(r) /\ Len(r) = Len(s) + 1 /\ r[Len(s) + 1] = v /\ \A k \in 1..Len(s) : r[k] = s[k]

LEMMA AppendIs ==
  ASSUME NEW s, IsSeq(s), NEW v
  PROVE  IsAppended(Append(s, v), s, v)
<1> DEFINE S == {s[k] : k \in 1..Len(s)} \cup {v}
           r == Append(s, v)
<1>1. s \in Seq(S) /\ Len(s) \in Nat
  BY DEF IsSeq
<1>2. v \in S
  OBVIOUS
<1> HIDE DEF S
<1>3. r \in Seq(S) /\ Len(r) = Len(s) + 1 /\ r[Len(s) + 1] = v /\ \A k \in 1..Len(s) : r[k] = s[k]
  BY <1>1, <1>2
<1> HIDE DEF r
<1>4. r \in [1..Len(r) -> S]
  BY <1>3, LenProperties
<1>6. r = [k \in 1..Len(r) |-> r[k]]
  BY <1>4
<1>7. IsAppended(r, s, v)
  BY <1>1, <1>3, <1>6 DEF IsSeq, IsAppended
<1> QED BY <1>7 DEF r

-----------------------------------------------------------------------------
MadeAt(n) == n.props["_created_at"][2]
ChangedAt(n) == n.props["_updated_at"][2]

LEMMA DatedIs ==
  ASSUME NEW n, NEW by \in Nat, Dated(n.props, by)
  PROVE  /\ "_created_at" \in DOMAIN n.props /\ "_updated_at" \in DOMAIN n.props
         /\ n.props["_created_at"] = <<"DateTime", MadeAt(n)>>
         /\ n.props["_updated_at"] = <<"DateTime", ChangedAt(n)>>
         /\ MadeAt(n) \in Nat /\ ChangedAt(n) \in Nat
         /\ 1 <= MadeAt(n) /\ MadeAt(n) <= ChangedAt(n) /\ ChangedAt(n) <= by
BY DEF Dated, IsStamp, SystemKeys, MadeAt, ChangedAt

\* What find_node_state_at compares.
LEMMA StampIs ==
  ASSUME NEW n, NEW by \in Nat, Dated(n.props, by), NEW t \in Nat
  PROVE  StampBy(n, t) <=> ChangedAt(n) <= t
<1>1. Stamp(n) = <<"DateTime", ChangedAt(n)>>
  BY DatedIs DEF Stamp
<1> QED BY <1>1 DEF StampBy, Null


DbKeys == {"nodes", "edges", "versions", "subgraphs", "members", "hyperedges", "clock", "next"}
NextKeys == {"node", "edge", "subgraph", "hyperedge"}

\* IsDb as a function of its fields.
LEMMA DbIs ==
  ASSUME NEW d
  PROVE  IsDb(d) <=> /\ d = [k \in DbKeys |-> d[k]] /\ d.next = [k \in NextKeys |-> d.next[k]]
                     /\ d.clock \in Nat \ {0} /\ d.next.node \in Nat /\ d.next.edge \in Nat
BY DEF IsDb, DbKeys, NextKeys

LEMMA Set1 ==
  ASSUME NEW d, NEW S, d = [k \in S |-> d[k]], NEW k \in S, NEW v
  PROVE  /\ [d EXCEPT ![k] = v] = [j \in S |-> [d EXCEPT ![k] = v][j]]
         /\ [d EXCEPT ![k] = v][k] = v
         /\ \A j \in S : j # k => [d EXCEPT ![k] = v][j] = d[j]
OBVIOUS

LEMMA CountNext ==
  ASSUME NEW d, IsDb(d), NEW k \in NextKeys
  PROVE  LET n == [d.next EXCEPT ![k] = @ + 1]
         IN  /\ n = [j \in NextKeys |-> n[j]]
             /\ n[k] = d.next[k] + 1
             /\ \A j \in NextKeys : j # k => n[j] = d.next[j]
BY DbIs

NextUp(d, k) == [d.next EXCEPT ![k] = @ + 1]
Field(k, a, x, b, y, d) == IF k = a THEN x ELSE IF k = b THEN y ELSE d[k]

LEMMA CreateNodeFields ==
  ASSUME NEW d, IsDb(d), NEW labels, NEW props
  PROVE  CreateNode(d, labels, props) =
           [k \in DbKeys |-> Field(k, "nodes", Bind(d.nodes, d.next.node, [labels |-> labels, props |-> props]),
                                   "next", NextUp(d, "node"), d)]
BY DbIs DEF CreateNode, Field, NextUp, DbKeys

LEMMA UpdateNodeFields ==
  ASSUME NEW d, IsDb(d), NEW id, NEW props
  PROVE  UpdateNode(d, id, props) =
           [k \in DbKeys |-> Field(k, "versions", Bind(d.versions, id, Append(Versions(id, d), d.nodes[id])),
                                   "nodes", [d.nodes EXCEPT ![id] = [d.nodes[id] EXCEPT !.props = props]], d)]
BY DbIs DEF UpdateNode, Field, DbKeys

NextUpIs(d, n, k) ==
  /\ n = [j \in NextKeys |-> n[j]] /\ n[k] = d.next[k] + 1
  /\ \A j \in NextKeys : j # k => n[j] = d.next[j]

LEMMA NextUpRight ==
  ASSUME NEW d, IsDb(d), NEW k \in NextKeys
  PROVE  NextUpIs(d, NextUp(d, k), k)
BY DbIs DEF NextUp, NextUpIs

LEMMA CreateNodeIs ==
  ASSUME NEW d, IsDb(d), NEW labels, NEW props, NEW c, c = CreateNode(d, labels, props)
  PROVE  /\ IsDb(c) /\ c.clock = d.clock /\ c.edges = d.edges /\ c.versions = d.versions
         /\ c.nodes = Bind(d.nodes, d.next.node, [labels |-> labels, props |-> props])
         /\ c.next.node = d.next.node + 1 /\ c.next.edge = d.next.edge
<1>1. /\ c = [k \in DbKeys |-> c[k]] /\ c.clock = d.clock /\ c.edges = d.edges /\ c.versions = d.versions
      /\ c.nodes = Bind(d.nodes, d.next.node, [labels |-> labels, props |-> props])
      /\ c.next = NextUp(d, "node")
  BY CreateNodeFields DEF Field, DbKeys
<1>2. NextUpIs(d, c.next, "node")
  BY <1>1, NextUpRight DEF NextKeys
<1>3. c.next.node = d.next.node + 1 /\ c.next.edge = d.next.edge /\ c.next = [k \in NextKeys |-> c.next[k]]
  BY <1>2 DEF NextUpIs, NextKeys
<1>5. c.clock \in Nat \ {0} /\ c.next.node \in Nat /\ c.next.edge \in Nat
  BY <1>1, <1>3 DEF IsDb
<1> QED BY <1>1, <1>3, <1>5, DbIs

LEMMA UpdateNodeIs ==
  ASSUME NEW d, IsDb(d), NEW id \in DOMAIN d.nodes, NEW props, NEW c, c = UpdateNode(d, id, props)
  PROVE  /\ IsDb(c) /\ c.clock = d.clock /\ c.edges = d.edges
         /\ c.versions = Bind(d.versions, id, Append(Versions(id, d), d.nodes[id]))
         /\ c.nodes = [d.nodes EXCEPT ![id] = [d.nodes[id] EXCEPT !.props = props]]
         /\ c.next = d.next
<1>1. /\ c = [k \in DbKeys |-> c[k]] /\ c.clock = d.clock /\ c.edges = d.edges
      /\ c.versions = Bind(d.versions, id, Append(Versions(id, d), d.nodes[id]))
      /\ c.nodes = [d.nodes EXCEPT ![id] = [d.nodes[id] EXCEPT !.props = props]]
      /\ c.next = d.next
  BY UpdateNodeFields DEF Field, DbKeys
<1> QED BY <1>1, DbIs

LEMMA DeleteNodeIs ==
  ASSUME NEW d, IsDb(d), NEW id, NEW c, c = DeleteNode(d, id)
  PROVE  /\ IsDb(c) /\ c.clock = d.clock /\ c.versions = d.versions /\ c.next = d.next
         /\ c.nodes = Without(d.nodes, {id}) /\ c.edges = Without(d.edges, EdgesOf(id, d))
<1>1. c = [k \in DbKeys |-> Field(k, "nodes", Without(d.nodes, {id}), "edges", Without(d.edges, EdgesOf(id, d)), d)]
  BY DbIs DEF DeleteNode, Field, DbKeys
<1> QED BY <1>1, DbIs DEF Field, DbKeys

LEMMA LoseEdgeIdIs ==
  ASSUME NEW d, IsDb(d), NEW c, c = LoseEdgeId(d)
  PROVE  /\ IsDb(c) /\ c.clock = d.clock /\ c.versions = d.versions /\ c.nodes = d.nodes /\ c.edges = d.edges
         /\ c.next.node = d.next.node /\ c.next.edge = d.next.edge + 1
<1>1. c = [k \in DbKeys |-> Field(k, "next", NextUp(d, "edge"), "next", NextUp(d, "edge"), d)]
  BY DbIs DEF LoseEdgeId, Field, DbKeys, NextUp
<1>2. NextUpIs(d, c.next, "edge")
  BY <1>1, NextUpRight DEF NextKeys, Field, DbKeys
<1>3. c.next.edge = d.next.edge + 1 /\ c.next.node = d.next.node /\ c.next = [k \in NextKeys |-> c.next[k]]
  BY <1>2 DEF NextUpIs, NextKeys
<1>4. /\ c = [k \in DbKeys |-> c[k]] /\ c.clock = d.clock /\ c.versions = d.versions
      /\ c.nodes = d.nodes /\ c.edges = d.edges
  BY <1>1 DEF Field, DbKeys
<1>5. c.clock \in Nat \ {0} /\ c.next.node \in Nat /\ c.next.edge \in Nat
  BY <1>3, <1>4 DEF IsDb
<1> QED BY <1>3, <1>4, <1>5, DbIs

LEMMA CreateEdgeIs ==
  ASSUME NEW d, IsDb(d), NEW edge, NEW c, c = CreateEdge(d, edge)
  PROVE  /\ IsDb(c) /\ c.clock = d.clock /\ c.versions = d.versions /\ c.nodes = d.nodes
         /\ c.edges = Bind(d.edges, d.next.edge, edge)
         /\ c.next.node = d.next.node /\ c.next.edge = d.next.edge + 1
<1>1. c = [k \in DbKeys |-> Field(k, "edges", Bind(d.edges, d.next.edge, edge), "next", NextUp(d, "edge"), d)]
  BY DbIs DEF CreateEdge, Field, DbKeys, NextUp
<1>2. NextUpIs(d, c.next, "edge")
  BY <1>1, NextUpRight DEF NextKeys, Field, DbKeys
<1>3. c.next.edge = d.next.edge + 1 /\ c.next.node = d.next.node /\ c.next = [k \in NextKeys |-> c.next[k]]
  BY <1>2 DEF NextUpIs, NextKeys
<1>4. /\ c = [k \in DbKeys |-> c[k]] /\ c.clock = d.clock /\ c.versions = d.versions
      /\ c.nodes = d.nodes /\ c.edges = Bind(d.edges, d.next.edge, edge)
  BY <1>1 DEF Field, DbKeys
<1>5. c.clock \in Nat \ {0} /\ c.next.node \in Nat /\ c.next.edge \in Nat
  BY <1>3, <1>4 DEF IsDb
<1> QED BY <1>3, <1>4, <1>5, DbIs

LEMMA UpdateEdgeIs ==
  ASSUME NEW d, IsDb(d), NEW id, NEW props, NEW c, c = UpdateEdge(d, id, props)
  PROVE  /\ IsDb(c) /\ c.clock = d.clock /\ c.versions = d.versions /\ c.nodes = d.nodes /\ c.next = d.next
         /\ c.edges = [d.edges EXCEPT ![id] = [d.edges[id] EXCEPT !.props = props]]
<1> DEFINE X == [d.edges EXCEPT ![id] = [d.edges[id] EXCEPT !.props = props]]
<1>1. c = [k \in DbKeys |-> Field(k, "edges", X, "edges", X, d)]
  BY DbIs DEF UpdateEdge, Field, DbKeys
<1> HIDE DEF X
<1>2. c.edges = X /\ IsDb(c) /\ c.clock = d.clock /\ c.versions = d.versions /\ c.nodes = d.nodes /\ c.next = d.next
  BY <1>1, DbIs DEF Field, DbKeys
<1> QED BY <1>2 DEF X

LEMMA DeleteEdgeIs ==
  ASSUME NEW d, IsDb(d), NEW id, NEW c, c = DeleteEdge(d, id)
  PROVE  /\ IsDb(c) /\ c.clock = d.clock /\ c.versions = d.versions /\ c.nodes = d.nodes /\ c.next = d.next
         /\ c.edges = Without(d.edges, {id})
<1> DEFINE X == Without(d.edges, {id})
<1>1. c = [k \in DbKeys |-> Field(k, "edges", X, "edges", X, d)]
  BY DbIs DEF DeleteEdge, Field, DbKeys
<1> HIDE DEF X
<1>2. c.edges = X /\ IsDb(c) /\ c.clock = d.clock /\ c.versions = d.versions /\ c.nodes = d.nodes /\ c.next = d.next
  BY <1>1, DbIs DEF Field, DbKeys
<1> QED BY <1>2 DEF X

\* What has no part in time.
LEMMA GroupIs ==
  ASSUME NEW d, IsDb(d), NEW c,
         \/ \E graph, ids : c = AddSubgraph(d, graph, ids)
         \/ \E edge : c = AddHyperedge(d, edge)
  PROVE  /\ IsDb(c) /\ c.clock = d.clock /\ c.versions = d.versions /\ c.nodes = d.nodes /\ c.edges = d.edges
         /\ c.next.node = d.next.node /\ c.next.edge = d.next.edge
<1>1. \E k \in {"subgraph", "hyperedge"} :
        /\ c = [j \in DbKeys |-> c[j]] /\ c.next = NextUp(d, k)
        /\ c.clock = d.clock /\ c.versions = d.versions /\ c.nodes = d.nodes /\ c.edges = d.edges
  <2>1. CASE \E graph, ids : c = AddSubgraph(d, graph, ids)
    <3>1. PICK graph, ids : c = AddSubgraph(d, graph, ids)
      BY <2>1
    <3>2. /\ c = [j \in DbKeys |-> c[j]] /\ c.next = NextUp(d, "subgraph")
          /\ c.clock = d.clock /\ c.versions = d.versions /\ c.nodes = d.nodes /\ c.edges = d.edges
      BY <3>1, DbIs DEF AddSubgraph, NextUp, DbKeys
    <3> QED BY <3>2
  <2>2. CASE \E edge : c = AddHyperedge(d, edge)
    <3>1. PICK edge : c = AddHyperedge(d, edge)
      BY <2>2
    <3>2. /\ c = [j \in DbKeys |-> c[j]] /\ c.next = NextUp(d, "hyperedge")
          /\ c.clock = d.clock /\ c.versions = d.versions /\ c.nodes = d.nodes /\ c.edges = d.edges
      BY <3>1, DbIs DEF AddHyperedge, NextUp, DbKeys
    <3> QED BY <3>2
  <2> QED BY <2>1, <2>2
<1>2. PICK k \in {"subgraph", "hyperedge"} :
        /\ c = [j \in DbKeys |-> c[j]] /\ c.next = NextUp(d, k)
        /\ c.clock = d.clock /\ c.versions = d.versions /\ c.nodes = d.nodes /\ c.edges = d.edges
  BY <1>1
<1>3. NextUpIs(d, c.next, k)
  BY <1>2, NextUpRight DEF NextKeys
<1>4. c.next.node = d.next.node /\ c.next.edge = d.next.edge /\ c.next = [j \in NextKeys |-> c.next[j]]
  BY <1>3 DEF NextUpIs, NextKeys
<1> QED BY <1>2, <1>4, DbIs

-----------------------------------------------------------------------------
(* What a statement does to the nodes, or to the edges, f0 it finds.       *)

KeptOf(x, f0, n0, f, n, now) ==
  /\ n0 \in Nat /\ n \in Nat /\ n0 <= n
  /\ DOMAIN f0 \subseteq 0..(n0 - 1) /\ DOMAIN f \subseteq 0..(n - 1)
  /\ Tells(f0, f, now)
  /\ \A id \in DOMAIN f \ DOMAIN f0 : id >= n0
  /\ x \/ DOMAIN f0 \subseteq DOMAIN f

LEMMA KeptAdd ==
  ASSUME NEW x, NEW f0, NEW n0, NEW f, NEW n, NEW now, KeptOf(x, f0, n0, f, n, now), NEW r,
         NEW g, g = Bind(f, n, r)
  PROVE  KeptOf(x, f0, n0, g, n + 1, now)
<1>1. DOMAIN g = DOMAIN f \cup {n} /\ \A j \in DOMAIN f : j # n => g[j] = f[j]
  BY DEF Bind
<1>2. n \notin DOMAIN f0 /\ n \notin DOMAIN f
  BY DEF KeptOf
<1>3. DOMAIN g \subseteq 0..n
  BY <1>1 DEF KeptOf
<1>4. Tells(f0, g, now)
  BY <1>1, <1>2 DEF KeptOf, Tells
<1>5. \A id \in DOMAIN g \ DOMAIN f0 : id >= n0
  BY <1>1 DEF KeptOf
<1> QED BY <1>1, <1>3, <1>4, <1>5 DEF KeptOf

LEMMA KeptCount ==
  ASSUME NEW x, NEW f0, NEW n0, NEW f, NEW n, NEW now, KeptOf(x, f0, n0, f, n, now)
  PROVE  KeptOf(x, f0, n0, f, n + 1, now)
BY DEF KeptOf

LEMMA KeptChange ==
  ASSUME NEW x, NEW f0, NEW n0, NEW f, NEW n, NEW now, KeptOf(x, f0, n0, f, n, now),
         NEW id \in DOMAIN f, NEW r, NEW g,
         g = [f EXCEPT ![id] = r],
         r.props["_created_at"] = f[id].props["_created_at"], r.props["_updated_at"] = <<"DateTime", now>>
  PROVE  KeptOf(x, f0, n0, g, n, now)
<1>1. DOMAIN g = DOMAIN f /\ g[id] = r /\ \A j \in DOMAIN f : j # id => g[j] = f[j]
  OBVIOUS
<1>2. Tells(f0, g, now)
  BY <1>1 DEF KeptOf, Tells
<1> QED BY <1>1, <1>2 DEF KeptOf

LEMMA KeptRemove ==
  ASSUME NEW f0, NEW n0, NEW f, NEW n, NEW now, KeptOf(TRUE, f0, n0, f, n, now), NEW ids,
         NEW g, g = Without(f, ids)
  PROVE  KeptOf(TRUE, f0, n0, g, n, now)
<1>1. DOMAIN g = DOMAIN f \ ids /\ \A j \in DOMAIN g : g[j] = f[j]
  BY DEF Without
<1>2. Tells(f0, g, now)
  BY <1>1 DEF KeptOf, Tells
<1> QED BY <1>1, <1>2 DEF KeptOf

-----------------------------------------------------------------------------
(* The past.                                                               *)

\* The state that counts for the end of t: the last version of t or before.
LastBy(chain, then, t) ==
  \E k \in 1..Len(chain) : /\ chain[k] = then /\ ChangedAt(chain[k]) <= t
                           /\ \A j \in 1..Len(chain) : j > k => ChangedAt(chain[j]) > t
Recalled(then, now, chain, t) ==
  /\ MadeAt(now) <= t
  /\ \/ ChangedAt(now) <= t /\ now = then
     \/ ChangedAt(now) > t /\ LastBy(chain, then, t)
RecalledAll(p, d) ==
  \A t \in DOMAIN p : \A id \in DOMAIN d.nodes :
    IF id \in DOMAIN p[t] THEN Recalled(p[t][id], d.nodes[id], Versions(id, d), t) ELSE MadeAt(d.nodes[id]) > t
PastKept(p, d) ==
  /\ DOMAIN p = 1..(d.clock - 1)
  /\ \A t \in DOMAIN p : DOMAIN p[t] \subseteq 0..(d.next.node - 1)
  /\ RecalledAll(p, d)

LEMMA RecalledUpdate ==
  ASSUME NEW chain, IsSeq(chain), NEW then, NEW now, NEW new, NEW t \in Nat, NEW by \in Nat, t < by,
         Dated(now.props, by), MadeAt(new) = MadeAt(now), ChangedAt(new) = by,
         Recalled(then, now, chain, t)
  PROVE  Recalled(then, new, Append(chain, now), t)
<1> DEFINE c == Append(chain, now)
           n == Len(chain)
<1>1. Len(c) = n + 1 /\ c[n + 1] = now /\ \A k \in 1..n : c[k] = chain[k]
  <2>1. IsAppended(c, chain, now)
    BY AppendIs
  <2> QED BY <2>1 DEF IsAppended
<1>2. n \in Nat
  BY DEF IsSeq
<1>3. ChangedAt(now) \in Nat
  BY DatedIs
<1> HIDE DEF c
<1>4. CASE ChangedAt(now) <= t /\ now = then
  <2>1. LastBy(c, then, t)
    <3>1. n + 1 \in 1..Len(c) /\ \A j \in 1..Len(c) : ~ (j > n + 1)
      BY <1>1, <1>2
    <3> QED BY <1>1, <1>4, <3>1 DEF LastBy
  <2> QED BY <1>4, <2>1 DEF Recalled, c
<1>5. CASE ChangedAt(now) > t /\ LastBy(chain, then, t)
  <2>1. PICK k \in 1..n : /\ chain[k] = then /\ ChangedAt(chain[k]) <= t
                         /\ \A j \in 1..n : j > k => ChangedAt(chain[j]) > t
    BY <1>5 DEF LastBy
  <2>2. k \in 1..Len(c) /\ c[k] = then /\ ChangedAt(c[k]) <= t
    BY <1>1, <1>2, <2>1
  <2>3. ASSUME NEW j \in 1..Len(c), j > k  PROVE ChangedAt(c[j]) > t
    <3>1. CASE j = n + 1
      BY <1>1, <1>5, <3>1
    <3>2. CASE j # n + 1
      BY <1>1, <1>2, <2>1, <2>3, <3>2
    <3> QED BY <3>1, <3>2
  <2>4. LastBy(c, then, t)
    BY <2>2, <2>3 DEF LastBy
  <2> QED BY <2>4 DEF Recalled, c
<1> QED BY <1>4, <1>5 DEF Recalled

-----------------------------------------------------------------------------
(* Engines a statement may leave: d, when it began on d0.                  *)

Good(x, p, d0, d) ==
  /\ WellKept(d) /\ PastKept(p, d) /\ d.clock = d0.clock
  /\ KeptOf(x, d0.nodes, d0.next.node, d.nodes, d.next.node, d.clock)
  /\ KeptOf(x, d0.edges, d0.next.edge, d.edges, d.next.edge, d.clock)

Fresh(props, now) ==
  /\ SystemKeys \subseteq DOMAIN props
  /\ props["_created_at"] = <<"DateTime", now>> /\ props["_updated_at"] = <<"DateTime", now>>
Touched(props, old, now) ==
  /\ SystemKeys \subseteq DOMAIN props
  /\ props["_created_at"] = old["_created_at"] /\ props["_updated_at"] = <<"DateTime", now>>

LEMMA FreshDated ==
  ASSUME NEW props, NEW now \in Nat \ {0}, Fresh(props, now)
  PROVE  Dated(props, now)
BY DEF Fresh, Dated, IsStamp

LEMMA TouchedDated ==
  ASSUME NEW n, NEW now \in Nat \ {0}, NEW props, Dated(n.props, now), Touched(props, n.props, now)
  PROVE  Dated(props, now)
<1>1. now \in Nat
  OBVIOUS
<1>2. n.props["_created_at"] = <<"DateTime", MadeAt(n)>> /\ MadeAt(n) \in 1..now
  <2> DEFINE by == now
  <2>1. by \in Nat /\ Dated(n.props, by)
    BY <1>1
  <2> HIDE DEF by
  <2>2. n.props["_created_at"] = <<"DateTime", MadeAt(n)>> /\ MadeAt(n) \in Nat /\ 1 <= MadeAt(n) /\ MadeAt(n) <= by
    BY <2>1, DatedIs
  <2> QED BY <1>1, <2>2 DEF by
<1> QED BY <1>2 DEF Touched, Dated, IsStamp

AllDated(chain, by) == IsSeq(chain) /\ \A k \in 1..Len(chain) : Dated(chain[k].props, by)

LEMMA VersionsDatedIs ==
  ASSUME NEW d
  PROVE  VersionsDated(d) <=> \A id \in DOMAIN d.versions : AllDated(d.versions[id], d.clock)
BY DEF VersionsDated, AllDated, IsSeq

LEMMA SameVersions ==
  ASSUME NEW d, VersionsDated(d), NEW c, c.versions = d.versions, c.clock = d.clock
  PROVE  VersionsDated(c)
BY VersionsDatedIs

LEMMA VersionsIs ==
  ASSUME NEW d, VersionsDated(d), NEW id
  PROVE  IsSeq(Versions(id, d)) /\ \A k \in 1..Len(Versions(id, d)) : Dated(Versions(id, d)[k].props, d.clock)
<1>1. CASE id \in DOMAIN d.versions
  BY <1>1 DEF Versions, VersionsDated, IsSeq
<1>2. CASE id \notin DOMAIN d.versions
  BY <1>2 DEF Versions, IsSeq
<1> QED BY <1>1, <1>2

LEMMA CreateNodeGood ==
  ASSUME NEW x, NEW p, NEW d0, NEW d, Good(x, p, d0, d), NEW labels, NEW props, Fresh(props, d.clock),
         NEW c, c = CreateNode(d, labels, props)
  PROVE  Good(x, p, d0, c)
<1> DEFINE r == [labels |-> labels, props |-> props]
           n == d.next.node
<1>1. WellKept(d) /\ IsDb(d) /\ d.clock \in Nat \ {0} /\ n \in Nat
  BY DEF Good, WellKept, IsDb
<1>2. /\ IsDb(c) /\ c.clock = d.clock /\ c.edges = d.edges /\ c.versions = d.versions
      /\ c.nodes = Bind(d.nodes, n, r) /\ c.next.node = n + 1 /\ c.next.edge = d.next.edge
  BY <1>1, CreateNodeIs
<1>3. DOMAIN c.nodes = DOMAIN d.nodes \cup {n} /\ c.nodes[n] = r /\ \A j \in DOMAIN d.nodes : j # n => c.nodes[j] = d.nodes[j]
  <2> HIDE DEF r, n
  <2> QED BY <1>2 DEF Bind
<1>4. IdsGiven(c)
  BY <1>1, <1>2, <1>3 DEF WellKept, IdsGiven
<1>5. NodesDated(c)
  <2>1. Dated(props, c.clock)
    BY <1>1, <1>2, FreshDated
  <2> QED BY <1>1, <1>2, <1>3, <2>1 DEF WellKept, NodesDated
<1>6. VersionsDated(c) /\ EdgesDated(c)
  BY <1>1, <1>2, SameVersions DEF WellKept, EdgesDated
<1>7. EndsExist(c)
  BY <1>1, <1>2, <1>3 DEF WellKept, EndsExist
<1>8. PastKept(p, c)
  <2>1. PastKept(p, d)
    BY DEF Good
  <2>2. \A id : Versions(id, c) = Versions(id, d)
    BY <1>2 DEF Versions
  <2>3. MadeAt(r) = d.clock
    BY DEF MadeAt, Fresh
  <2>4. ASSUME NEW t \in DOMAIN p, NEW id \in DOMAIN c.nodes
        PROVE  IF id \in DOMAIN p[t] THEN Recalled(p[t][id], c.nodes[id], Versions(id, c), t) ELSE MadeAt(c.nodes[id]) > t
    <3>1. CASE id = n
      <4>1. n \notin DOMAIN p[t] /\ t < d.clock
        BY <1>1, <2>1, <2>4 DEF PastKept
      <4> QED BY <1>1, <1>3, <2>3, <3>1, <4>1
    <3>2. CASE id # n
      <4>1. id \in DOMAIN d.nodes /\ c.nodes[id] = d.nodes[id]
        BY <1>3, <3>2
      <4> QED BY <2>1, <2>2, <4>1 DEF PastKept, RecalledAll
    <3> QED BY <3>1, <3>2
  <2>5. RecalledAll(p, c)
    BY <2>4 DEF RecalledAll
  <2>6. \A t \in DOMAIN p : DOMAIN p[t] \subseteq 0..(c.next.node - 1)
    BY <1>1, <1>2, <2>1 DEF PastKept
  <2> QED BY <1>2, <2>1, <2>5, <2>6 DEF PastKept
<1>9. KeptOf(x, d0.nodes, d0.next.node, c.nodes, c.next.node, c.clock)
  BY <1>2, KeptAdd DEF Good
<1>10. KeptOf(x, d0.edges, d0.next.edge, c.edges, c.next.edge, c.clock)
  BY <1>2 DEF Good
<1> QED BY <1>2, <1>4, <1>5, <1>6, <1>7, <1>8, <1>9, <1>10 DEF Good, WellKept

LEMMA UpdateNodeGood ==
  ASSUME NEW x, NEW p, NEW d0, NEW d, Good(x, p, d0, d), NEW id \in DOMAIN d.nodes,
         NEW props, Touched(props, d.nodes[id].props, d.clock), NEW c, c = UpdateNode(d, id, props)
  PROVE  Good(x, p, d0, c)
<1> DEFINE old == d.nodes[id]
           new == [d.nodes[id] EXCEPT !.props = props]
           chain == Versions(id, d)
           longer == Append(Versions(id, d), d.nodes[id])
<1>1. WellKept(d) /\ IsDb(d) /\ d.clock \in Nat \ {0}
  BY DEF Good, WellKept, IsDb
<1>2. /\ IsDb(c) /\ c.clock = d.clock /\ c.edges = d.edges /\ c.next = d.next
      /\ c.versions = Bind(d.versions, id, longer)
      /\ c.nodes = [d.nodes EXCEPT ![id] = new]
  BY <1>1, UpdateNodeIs
<1>3. DOMAIN c.nodes = DOMAIN d.nodes /\ c.nodes[id] = new /\ \A j \in DOMAIN d.nodes : j # id => c.nodes[j] = d.nodes[j]
  BY <1>2
<1>4. DOMAIN c.versions = DOMAIN d.versions \cup {id} /\ c.versions[id] = longer /\ \A j \in DOMAIN d.versions : j # id => c.versions[j] = d.versions[j]
  <2> HIDE DEF longer
  <2> QED BY <1>2 DEF Bind
<1>5. Dated(old.props, d.clock) /\ old = [labels |-> old.labels, props |-> old.props]
  BY <1>1 DEF WellKept, NodesDated
<1>6. new = [labels |-> old.labels, props |-> props] /\ new.props = props
  BY <1>5
<1>7. Dated(new.props, d.clock)
  BY <1>1, <1>5, <1>6, TouchedDated
<1>8. IsSeq(chain) /\ \A k \in 1..Len(chain) : Dated(chain[k].props, d.clock)
  BY <1>1, VersionsIs DEF WellKept
<1>9. IsSeq(longer) /\ Len(longer) = Len(chain) + 1 /\ longer[Len(chain) + 1] = old /\ \A k \in 1..Len(chain) : longer[k] = chain[k]
  <2>1. IsAppended(longer, chain, old)
    BY <1>8, AppendIs
  <2> QED BY <2>1 DEF IsAppended
<1> HIDE DEF longer, chain
<1>10. IdsGiven(c)
  BY <1>1, <1>2, <1>3, <1>4 DEF WellKept, IdsGiven
<1>11. NodesDated(c)
  BY <1>1, <1>2, <1>3, <1>6, <1>7 DEF WellKept, NodesDated
<1>12. VersionsDated(c)
  <2>1. Len(chain) \in Nat
    BY <1>8 DEF IsSeq
  <2>2. ASSUME NEW k \in 1..Len(longer)  PROVE Dated(longer[k].props, c.clock)
    <3>1. CASE k = Len(chain) + 1
      BY <1>2, <1>5, <1>9, <3>1
    <3>2. CASE k # Len(chain) + 1
      BY <1>2, <1>8, <1>9, <2>1, <2>2, <3>2
    <3> QED BY <3>1, <3>2
  <2>3. AllDated(longer, c.clock)
    BY <1>9, <2>2 DEF AllDated
  <2>4. \A j \in DOMAIN d.versions : AllDated(d.versions[j], d.clock)
    BY <1>1, VersionsDatedIs DEF WellKept
  <2>5. \A j \in DOMAIN c.versions : AllDated(c.versions[j], c.clock)
    BY <1>2, <1>4, <2>3, <2>4
  <2> QED BY <2>5, VersionsDatedIs
<1>13. EdgesDated(c) /\ EndsExist(c)
  BY <1>1, <1>2, <1>3 DEF WellKept, EdgesDated, EndsExist
<1>14. PastKept(p, c)
  <2>1. PastKept(p, d)
    BY DEF Good
  <2>2. Versions(id, c) = longer
    BY <1>4 DEF Versions
  <2>3. \A j : j # id => Versions(j, c) = Versions(j, d)
    BY <1>4 DEF Versions
  <2>4. MadeAt(new) = MadeAt(old) /\ ChangedAt(new) = d.clock
    BY <1>6 DEF MadeAt, ChangedAt, Touched
  <2>5. ASSUME NEW t \in DOMAIN p, NEW j \in DOMAIN c.nodes
        PROVE  IF j \in DOMAIN p[t] THEN Recalled(p[t][j], c.nodes[j], Versions(j, c), t) ELSE MadeAt(c.nodes[j]) > t
    <3>1. t \in Nat /\ t < d.clock
      BY <1>1, <2>1, <2>5 DEF PastKept
    <3>2. j \in DOMAIN d.nodes
      BY <1>3
    <3>3. IF j \in DOMAIN p[t] THEN Recalled(p[t][j], d.nodes[j], Versions(j, d), t) ELSE MadeAt(d.nodes[j]) > t
      BY <2>1, <3>2 DEF PastKept, RecalledAll
    <3>4. CASE j = id /\ j \in DOMAIN p[t]
      <4>1. Recalled(p[t][j], old, chain, t)
        BY <3>3, <3>4 DEF chain
      <4>2. Recalled(p[t][j], new, longer, t)
        BY <1>1, <1>5, <1>8, <2>4, <3>1, <4>1, RecalledUpdate DEF longer, chain
      <4> QED BY <1>3, <2>2, <3>4, <4>2
    <3>5. CASE j = id /\ j \notin DOMAIN p[t]
      BY <1>3, <2>4, <3>3, <3>5
    <3>6. CASE j # id
      BY <1>3, <2>3, <3>2, <3>3, <3>6
    <3> QED BY <3>4, <3>5, <3>6
  <2>6. RecalledAll(p, c)
    BY <2>5 DEF RecalledAll
  <2> QED BY <1>2, <2>1, <2>6 DEF PastKept
<1>15. KeptOf(x, d0.nodes, d0.next.node, c.nodes, c.next.node, c.clock)
  <2>1. new.props["_created_at"] = old.props["_created_at"] /\ new.props["_updated_at"] = <<"DateTime", d.clock>>
    BY <1>6 DEF Touched
  <2> HIDE DEF new
  <2> QED BY <1>2, <2>1, KeptChange DEF Good
<1>16. KeptOf(x, d0.edges, d0.next.edge, c.edges, c.next.edge, c.clock)
  BY <1>2 DEF Good
<1> QED BY <1>2, <1>10, <1>11, <1>12, <1>13, <1>14, <1>15, <1>16 DEF Good, WellKept

\* Nodes and their versions as they were.
SameNodes(d, c) == c.clock = d.clock /\ c.versions = d.versions /\ c.nodes = d.nodes /\ c.next.node = d.next.node

LEMMA SameNodesKept ==
  ASSUME NEW p, NEW d, PastKept(p, d), NEW c, SameNodes(d, c)
  PROVE  PastKept(p, c)
<1>1. \A id : Versions(id, c) = Versions(id, d)
  BY DEF Versions, SameNodes
<1> QED BY <1>1 DEF PastKept, RecalledAll, SameNodes

LEMMA SameNodesGood ==
  ASSUME NEW x, NEW p, NEW d0, NEW d, Good(x, p, d0, d), NEW c, IsDb(c), SameNodes(d, c),
         DOMAIN c.edges \subseteq 0..(c.next.edge - 1), EdgesDated(c), EndsExist(c),
         KeptOf(x, d0.edges, d0.next.edge, c.edges, c.next.edge, c.clock)
  PROVE  Good(x, p, d0, c)
<1>1. WellKept(d) /\ PastKept(p, d) /\ d.clock = d0.clock
      /\ KeptOf(x, d0.nodes, d0.next.node, d.nodes, d.next.node, d.clock)
  BY DEF Good
<1>2. PastKept(p, c)
  BY <1>1, SameNodesKept
<1>3. IdsGiven(c) /\ NodesDated(c) /\ VersionsDated(c)
  BY <1>1, SameVersions DEF WellKept, IdsGiven, NodesDated, SameNodes
<1>4. KeptOf(x, d0.nodes, d0.next.node, c.nodes, c.next.node, c.clock) /\ c.clock = d0.clock
  BY <1>1 DEF SameNodes
<1> QED BY <1>2, <1>3, <1>4 DEF Good, WellKept

LEMMA GroupGood ==
  ASSUME NEW x, NEW p, NEW d0, NEW d, Good(x, p, d0, d), NEW c,
         \/ \E graph, ids : c = AddSubgraph(d, graph, ids)
         \/ \E edge : c = AddHyperedge(d, edge)
  PROVE  Good(x, p, d0, c)
<1>1. IsDb(d) /\ IdsGiven(d) /\ EdgesDated(d) /\ EndsExist(d)
      /\ KeptOf(x, d0.edges, d0.next.edge, d.edges, d.next.edge, d.clock)
  BY DEF Good, WellKept
<1>2. /\ IsDb(c) /\ c.clock = d.clock /\ c.versions = d.versions /\ c.nodes = d.nodes /\ c.edges = d.edges
      /\ c.next.node = d.next.node /\ c.next.edge = d.next.edge
  BY <1>1, GroupIs
<1>3. SameNodes(d, c) /\ EdgesDated(c) /\ EndsExist(c) /\ DOMAIN c.edges \subseteq 0..(c.next.edge - 1)
      /\ KeptOf(x, d0.edges, d0.next.edge, c.edges, c.next.edge, c.clock)
  BY <1>1, <1>2 DEF SameNodes, EdgesDated, EndsExist, IdsGiven
<1> QED BY <1>2, <1>3, SameNodesGood

LEMMA LoseEdgeIdGood ==
  ASSUME NEW x, NEW p, NEW d0, NEW d, Good(x, p, d0, d), NEW c, c = LoseEdgeId(d)
  PROVE  Good(x, p, d0, c)
<1>1. IsDb(d) /\ IdsGiven(d) /\ EdgesDated(d) /\ EndsExist(d) /\ d.next.edge \in Nat
      /\ KeptOf(x, d0.edges, d0.next.edge, d.edges, d.next.edge, d.clock)
  BY DEF Good, WellKept, IsDb
<1>2. /\ IsDb(c) /\ c.clock = d.clock /\ c.versions = d.versions /\ c.nodes = d.nodes /\ c.edges = d.edges
      /\ c.next.node = d.next.node /\ c.next.edge = d.next.edge + 1
  BY <1>1, LoseEdgeIdIs
<1>3. SameNodes(d, c) /\ EdgesDated(c) /\ EndsExist(c) /\ DOMAIN c.edges \subseteq 0..(c.next.edge - 1)
  BY <1>1, <1>2 DEF SameNodes, EdgesDated, EndsExist, IdsGiven
<1>4. KeptOf(x, d0.edges, d0.next.edge, c.edges, c.next.edge, c.clock)
  BY <1>1, <1>2, KeptCount
<1> QED BY <1>2, <1>3, <1>4, SameNodesGood

LEMMA CreateEdgeGood ==
  ASSUME NEW x, NEW p, NEW d0, NEW d, Good(x, p, d0, d), NEW edge,
         edge = [type |-> edge.type, from |-> edge.from, to |-> edge.to, props |-> edge.props],
         {edge.from, edge.to} \subseteq DOMAIN d.nodes, Fresh(edge.props, d.clock),
         NEW c, c = CreateEdge(d, edge)
  PROVE  Good(x, p, d0, c)
<1> DEFINE n == d.next.edge
<1>1. IsDb(d) /\ IdsGiven(d) /\ EdgesDated(d) /\ EndsExist(d) /\ n \in Nat /\ d.clock \in Nat \ {0}
      /\ KeptOf(x, d0.edges, d0.next.edge, d.edges, n, d.clock)
  BY DEF Good, WellKept, IsDb
<1>2. /\ IsDb(c) /\ c.clock = d.clock /\ c.versions = d.versions /\ c.nodes = d.nodes
      /\ c.edges = Bind(d.edges, n, edge) /\ c.next.node = d.next.node /\ c.next.edge = n + 1
  BY <1>1, CreateEdgeIs
<1>3. DOMAIN c.edges = DOMAIN d.edges \cup {n} /\ c.edges[n] = edge /\ \A j \in DOMAIN d.edges : j # n => c.edges[j] = d.edges[j]
  <2> HIDE DEF n
  <2> QED BY <1>2 DEF Bind
<1>4. Dated(edge.props, c.clock)
  BY <1>1, <1>2, FreshDated
<1>5. SameNodes(d, c) /\ EndsExist(c)
  BY <1>1, <1>2, <1>3 DEF SameNodes, EndsExist
<1>6. EdgesDated(c)
  BY <1>1, <1>2, <1>3, <1>4 DEF EdgesDated
<1>7. DOMAIN c.edges \subseteq 0..(c.next.edge - 1)
  BY <1>1, <1>2, <1>3 DEF IdsGiven
<1>8. KeptOf(x, d0.edges, d0.next.edge, c.edges, c.next.edge, c.clock)
  BY <1>1, <1>2, KeptAdd
<1> QED BY <1>2, <1>5, <1>6, <1>7, <1>8, SameNodesGood

LEMMA UpdateEdgeGood ==
  ASSUME NEW x, NEW p, NEW d0, NEW d, Good(x, p, d0, d), NEW id \in DOMAIN d.edges,
         NEW props, Touched(props, d.edges[id].props, d.clock), NEW c, c = UpdateEdge(d, id, props)
  PROVE  Good(x, p, d0, c)
<1> DEFINE old == d.edges[id]
           new == [d.edges[id] EXCEPT !.props = props]
<1>1. IsDb(d) /\ IdsGiven(d) /\ EdgesDated(d) /\ EndsExist(d) /\ d.clock \in Nat \ {0}
      /\ KeptOf(x, d0.edges, d0.next.edge, d.edges, d.next.edge, d.clock)
  BY DEF Good, WellKept, IsDb
<1>2. /\ IsDb(c) /\ c.clock = d.clock /\ c.versions = d.versions /\ c.nodes = d.nodes /\ c.next = d.next
      /\ c.edges = [d.edges EXCEPT ![id] = new]
  BY <1>1, UpdateEdgeIs
<1>3. DOMAIN c.edges = DOMAIN d.edges /\ c.edges[id] = new /\ \A j \in DOMAIN d.edges : j # id => c.edges[j] = d.edges[j]
  BY <1>2
<1>4. old = [type |-> old.type, from |-> old.from, to |-> old.to, props |-> old.props] /\ Dated(old.props, d.clock)
  BY <1>1 DEF EdgesDated
<1>5. new = [type |-> old.type, from |-> old.from, to |-> old.to, props |-> props] /\ new.props = props
      /\ new.from = old.from /\ new.to = old.to
  BY <1>4
<1>6. Dated(new.props, c.clock)
  BY <1>1, <1>2, <1>4, <1>5, TouchedDated
<1>7. SameNodes(d, c) /\ DOMAIN c.edges \subseteq 0..(c.next.edge - 1)
  BY <1>1, <1>2, <1>3 DEF SameNodes, IdsGiven
<1>8. new = [type |-> new.type, from |-> new.from, to |-> new.to, props |-> new.props]
  BY <1>5
<1>9. new.props["_created_at"] = old.props["_created_at"] /\ new.props["_updated_at"] = <<"DateTime", d.clock>>
  BY <1>5 DEF Touched
<1> HIDE DEF new
<1>10. EndsExist(c)
  BY <1>1, <1>2, <1>3, <1>5 DEF EndsExist
<1>11. EdgesDated(c)
  BY <1>1, <1>2, <1>3, <1>6, <1>8 DEF EdgesDated
<1>12. KeptOf(x, d0.edges, d0.next.edge, c.edges, c.next.edge, c.clock)
  BY <1>1, <1>2, <1>9, KeptChange
<1> QED BY <1>2, <1>7, <1>10, <1>11, <1>12, SameNodesGood

LEMMA DeleteEdgeGood ==
  ASSUME NEW p, NEW d0, NEW d, Good(TRUE, p, d0, d), NEW id, NEW c, c = DeleteEdge(d, id)
  PROVE  Good(TRUE, p, d0, c)
<1>1. IsDb(d) /\ IdsGiven(d) /\ EdgesDated(d) /\ EndsExist(d)
      /\ KeptOf(TRUE, d0.edges, d0.next.edge, d.edges, d.next.edge, d.clock)
  BY DEF Good, WellKept
<1>2. /\ IsDb(c) /\ c.clock = d.clock /\ c.versions = d.versions /\ c.nodes = d.nodes /\ c.next = d.next
      /\ c.edges = Without(d.edges, {id})
  BY <1>1, DeleteEdgeIs
<1>3. DOMAIN c.edges \subseteq DOMAIN d.edges /\ \A j \in DOMAIN c.edges : c.edges[j] = d.edges[j]
  BY <1>2 DEF Without
<1>4. SameNodes(d, c) /\ DOMAIN c.edges \subseteq 0..(c.next.edge - 1)
  BY <1>1, <1>2, <1>3 DEF SameNodes, IdsGiven
<1>5. EdgesDated(c)
  BY <1>1, <1>2, <1>3 DEF EdgesDated
<1>6. EndsExist(c)
  BY <1>1, <1>2, <1>3 DEF EndsExist
<1>7. KeptOf(TRUE, d0.edges, d0.next.edge, c.edges, c.next.edge, c.clock)
  BY <1>1, <1>2, KeptRemove
<1> QED BY <1>2, <1>4, <1>5, <1>6, <1>7, SameNodesGood

LEMMA DeleteNodeGood ==
  ASSUME NEW p, NEW d0, NEW d, Good(TRUE, p, d0, d), NEW id, NEW c, c = DeleteNode(d, id)
  PROVE  Good(TRUE, p, d0, c)
<1>1. WellKept(d) /\ IsDb(d) /\ IdsGiven(d) /\ EdgesDated(d) /\ EndsExist(d) /\ NodesDated(d) /\ VersionsDated(d)
      /\ PastKept(p, d) /\ d.clock = d0.clock
      /\ KeptOf(TRUE, d0.edges, d0.next.edge, d.edges, d.next.edge, d.clock)
      /\ KeptOf(TRUE, d0.nodes, d0.next.node, d.nodes, d.next.node, d.clock)
  BY DEF Good, WellKept
<1>2. /\ IsDb(c) /\ c.clock = d.clock /\ c.versions = d.versions /\ c.next = d.next
      /\ c.nodes = Without(d.nodes, {id}) /\ c.edges = Without(d.edges, EdgesOf(id, d))
  BY <1>1, DeleteNodeIs
<1>3. DOMAIN c.nodes = DOMAIN d.nodes \ {id} /\ \A j \in DOMAIN c.nodes : c.nodes[j] = d.nodes[j]
  BY <1>2 DEF Without
<1>4. DOMAIN c.edges = DOMAIN d.edges \ EdgesOf(id, d) /\ \A j \in DOMAIN c.edges : c.edges[j] = d.edges[j]
  BY <1>2 DEF Without
<1>5. IdsGiven(c)
  BY <1>1, <1>2, <1>3, <1>4 DEF IdsGiven
<1>6. NodesDated(c)
  BY <1>1, <1>2, <1>3 DEF NodesDated
<1>7. EdgesDated(c)
  BY <1>1, <1>2, <1>4 DEF EdgesDated
<1>8. VersionsDated(c)
  BY <1>1, <1>2, SameVersions
<1>9. EndsExist(c)
  <2>1. ASSUME NEW e \in DOMAIN c.edges  PROVE {c.edges[e].from, c.edges[e].to} \subseteq DOMAIN c.nodes
    <3>1. e \in DOMAIN d.edges /\ c.edges[e] = d.edges[e] /\ id \notin {d.edges[e].from, d.edges[e].to}
      BY <1>4 DEF EdgesOf
    <3>2. {d.edges[e].from, d.edges[e].to} \subseteq DOMAIN d.nodes
      BY <1>1, <3>1 DEF EndsExist
    <3> QED BY <1>3, <3>1, <3>2
  <2> QED BY <2>1 DEF EndsExist
<1>10. PastKept(p, c)
  <2>1. \A j : Versions(j, c) = Versions(j, d)
    BY <1>2 DEF Versions
  <2> QED BY <1>1, <1>2, <1>3, <2>1 DEF PastKept, RecalledAll
<1>11. KeptOf(TRUE, d0.edges, d0.next.edge, c.edges, c.next.edge, c.clock)
  <2> DEFINE ids == EdgesOf(id, d)
  <2> HIDE DEF ids
  <2>1. c.edges = Without(d.edges, ids)
    BY <1>2 DEF ids
  <2> QED BY <1>1, <1>2, <2>1, KeptRemove
<1>12. KeptOf(TRUE, d0.nodes, d0.next.node, c.nodes, c.next.node, c.clock)
  BY <1>1, <1>2, KeptRemove
<1> QED BY <1>1, <1>2, <1>5, <1>6, <1>7, <1>8, <1>9, <1>10, <1>11, <1>12 DEF Good, WellKept

-----------------------------------------------------------------------------
(* A statement under way.                                                  *)

ThreadKeys == {"db", "fuse", "rows", "row", "failure", "own", "last", "created"}
IsThread(st) == st = [k \in ThreadKeys |-> st[k]]
GoodT(x, p, d0, st) == IsThread(st) /\ Good(x, p, d0, st.db)
OwnOk(st) == DOMAIN st.own \cap SystemKeys = {}

LEMMA ClockIs ==
  ASSUME NEW x, NEW p, NEW d0, NEW st, GoodT(x, p, d0, st)
  PROVE  st.db.clock = d0.clock /\ d0.clock \in Nat \ {0}
BY DEF GoodT, Good, WellKept, IsDb

Sets(u, st, k, v) == k \in ThreadKeys \ {"db"} /\ u = [st EXCEPT ![k] = v]

LEMMA SetOther ==
  ASSUME NEW x, NEW p, NEW d0, NEW st, GoodT(x, p, d0, st), NEW k, NEW v, NEW u, Sets(u, st, k, v)
  PROVE  GoodT(x, p, d0, u) /\ u.db = st.db /\ u[k] = v /\ \A j \in ThreadKeys \ {k} : u[j] = st[j]
<1>1. u = [j \in ThreadKeys |-> u[j]] /\ u[k] = v /\ \A j \in ThreadKeys \ {k} : u[j] = st[j]
  BY DEF GoodT, IsThread, Sets
<1>2. "db" \in ThreadKeys \ {k}
  BY DEF ThreadKeys, Sets
<1>3. u.db = st.db
  BY <1>1, <1>2
<1> QED BY <1>1, <1>3 DEF GoodT, IsThread

LEMMA FailIs ==
  ASSUME NEW x, NEW p, NEW d0, NEW st, GoodT(x, p, d0, st), NEW v, NEW u, u = FailWith(st, v)
  PROVE  GoodT(x, p, d0, u) /\ u.db = st.db /\ u.failure = v /\ u.own = st.own
<1>1. Sets(u, st, "failure", v) /\ "own" \in ThreadKeys \ {"failure"}
  BY DEF FailWith, ThreadKeys, Sets
<1> QED BY <1>1, SetOther

LEMMA FailGood ==
  ASSUME NEW x, NEW p, NEW d0, NEW st, GoodT(x, p, d0, st)
  PROVE  GoodT(x, p, d0, Fail(st)) /\ ~ Going(Fail(st)) /\ \A v : GoodT(x, p, d0, FailWith(st, v))
<1>1. ASSUME NEW v  PROVE GoodT(x, p, d0, FailWith(st, v)) /\ FailWith(st, v).failure = v
  BY FailIs
<1>2. Error # <<>>
  BY DEF Error
<1> QED BY <1>1, <1>2 DEF Fail, Going

LEMMA BindRowGood ==
  ASSUME NEW x, NEW p, NEW d0, NEW st, GoodT(x, p, d0, st), NEW opt, NEW v
  PROVE  GoodT(x, p, d0, BindRow(st, opt, v))
<1> DEFINE r == BindOpt(st.row, opt, v)
<1> HIDE DEF r
<1>1. Sets(BindRow(st, opt, v), st, "row", r)
  BY DEF BindRow, ThreadKeys, Sets, r
<1> QED BY <1>1, SetOther

LEMMA FireIs ==
  ASSUME NEW x, NEW p, NEW d0, NEW st, GoodT(x, p, d0, st), NEW u, u = Fire(st)
  PROVE  GoodT(x, p, d0, u) /\ u.db = st.db /\ u.own = st.own /\ (Going(u) => Going(st))
<1>1. CASE ~ Going(st) \/ st.fuse < 0
  <2>1. u = st
    BY <1>1 DEF Fire
  <2> QED BY <2>1
<1>2. CASE ~ (~ Going(st) \/ st.fuse < 0)
  <2>1. ASSUME NEW v, NEW w, Sets(w, st, "fuse", v)
        PROVE  GoodT(x, p, d0, w) /\ w.db = st.db /\ w.own = st.own
    BY <2>1, SetOther DEF ThreadKeys
  <2>3. CASE st.fuse = 0
    <3> DEFINE w == [st EXCEPT !.fuse = -1]
    <3>1. Sets(w, st, "fuse", -1)
      BY DEF Sets, ThreadKeys
    <3>2. u = FailWith(w, Error)
      BY <1>2, <2>3 DEF Fire, Fail
    <3> HIDE DEF w
    <3>3. GoodT(x, p, d0, w) /\ w.db = st.db /\ w.own = st.own
      BY <2>1, <3>1
    <3>4. GoodT(x, p, d0, u) /\ u.db = w.db /\ u.own = w.own
      BY <3>2, <3>3, FailIs
    <3> QED BY <1>2, <3>3, <3>4
  <2>4. CASE st.fuse # 0
    <3> DEFINE f == st.fuse - 1
    <3>1. Sets(u, st, "fuse", f)
      BY <1>2, <2>4 DEF Fire, Sets, ThreadKeys
    <3> HIDE DEF f
    <3> QED BY <1>2, <2>1, <3>1
  <2> QED BY <2>3, <2>4
<1> QED BY <1>1, <1>2

LEMMA ResolveIs ==
  ASSUME NEW x, NEW p, NEW d0, NEW st, GoodT(x, p, d0, st), NEW opt, NEW u, u = Resolve(st, opt)
  PROVE  GoodT(x, p, d0, u) /\ u.db = st.db /\ (~ SetsSystem(opt) => OwnOk(u))
<1> DEFINE vals == Resolved(st, opt)
<1>1. ASSUME NEW v, NEW w, Sets(w, st, "own", v)
      PROVE  GoodT(x, p, d0, w) /\ w.db = st.db /\ w.own = v
  BY <1>1, SetOther
<1>2. CASE HasFailed(vals)
  <2> DEFINE w == [st EXCEPT !.own = EmptyRow]
  <2>1. GoodT(x, p, d0, w) /\ w.db = st.db /\ w.own = EmptyRow
    <3>1. Sets(w, st, "own", EmptyRow)
      BY DEF Sets, ThreadKeys
    <3> QED BY <1>1, <3>1
  <2> DEFINE f == Failure(vals)
  <2>2. u = FailWith(w, f)
    BY <1>2 DEF Resolve, WithOwn
  <2> HIDE DEF w, f
  <2>4. GoodT(x, p, d0, u) /\ u.db = st.db /\ u.own = w.own
    BY <2>1, <2>2, FailIs
  <2> QED BY <2>1, <2>4 DEF OwnOk, EmptyRow
<1>3. CASE ~ HasFailed(vals)
  <2> DEFINE keys == {Entries(opt)[k].key : k \in DOMAIN vals}
             own == [key \in keys |-> vals[Min({k \in DOMAIN vals : Entries(opt)[k].key = key})]]
  <2>1. Sets(u, st, "own", own)
    BY <1>3 DEF Resolve, WithOwn, Sets, ThreadKeys
  <2>2. DOMAIN own = keys
    OBVIOUS
  <2>3. ~ SetsSystem(opt) => keys \cap SystemKeys = {}
    BY DEF SetsSystem, Resolved
  <2> HIDE DEF own
  <2>4. GoodT(x, p, d0, u) /\ u.db = st.db /\ u.own = own
    BY <1>1, <2>1
  <2> QED BY <2>2, <2>3, <2>4 DEF OwnOk
<1> QED BY <1>2, <1>3

LEMMA ResolveOwnIs ==
  ASSUME NEW x, NEW p, NEW d0, NEW st, GoodT(x, p, d0, st), NEW opt, NEW u, u = ResolveOwn(st, opt)
  PROVE  GoodT(x, p, d0, u) /\ u.db = st.db /\ (Going(u) => OwnOk(u))
<1>1. CASE SetsSystem(opt)
  <2>1. u = Fail(st) /\ u = FailWith(st, Error)
    BY <1>1 DEF ResolveOwn, Fail
  <2>2. ~ Going(u)
    BY <2>1, FailGood
  <2> QED BY <2>1, <2>2, FailIs
<1>2. CASE ~ SetsSystem(opt)
  BY <1>2, ResolveIs DEF ResolveOwn
<1> QED BY <1>1, <1>2

LEMMA OverFresh ==
  ASSUME NEW own, DOMAIN own \cap SystemKeys = {}, NEW stamps, NEW now, Fresh(stamps, now)
  PROVE  Fresh(Over(own, stamps), now)
BY DEF Fresh, Over, SystemKeys

LEMMA CreatedFresh ==
  ASSUME NEW st
  PROVE  Fresh(Created(st), st.db.clock) /\ Fresh(CreatedEdge(st), st.db.clock)
BY DEF Fresh, Created, CreatedEdge, Bind, Now, SystemKeys

LEMMA NewNodeGood ==
  ASSUME NEW x, NEW p, NEW d0, NEW st, GoodT(x, p, d0, st), Going(st) => OwnOk(st), NEW n
  PROVE  GoodT(x, p, d0, NewNode(st, n))
<1>1. CASE ~ Going(st)
  BY <1>1 DEF NewNode
<1>2. CASE Going(st)
  <2> DEFINE id == st.db.next.node
             props == Over(st.own, Created(st))
             c == CreateNode(st.db, n.labels, props)
             made == [st EXCEPT !.db = CreateNode(@, n.labels, Over(st.own, Created(st))), !.created = TRUE, !.last = id]
  <2>1. NewNode(st, n) = BindRow(made, n.variable, <<"Node", id>>)
    BY <1>2 DEF NewNode
  <2>2. IsThread(made) /\ made.db = c
    BY DEF GoodT, IsThread, ThreadKeys
  <2> HIDE DEF made
  <2>3. Fresh(props, st.db.clock)
    BY <1>2, OverFresh, CreatedFresh DEF OwnOk
  <2> HIDE DEF props
  <2>4. Good(x, p, d0, c)
    BY <2>3, CreateNodeGood DEF GoodT
  <2> HIDE DEF c
  <2>5. GoodT(x, p, d0, made)
    BY <2>2, <2>4 DEF GoodT
  <2> QED BY <2>1, <2>5, BindRowGood
<1> QED BY <1>1, <1>2

LEMMA MakeNodeGood ==
  ASSUME NEW x, NEW p, NEW d0, NEW st, GoodT(x, p, d0, st), NEW n
  PROVE  GoodT(x, p, d0, MakeNode(st, n))
<1> DEFINE a == ResolveOwn(st, n.properties)
           b == Fire(a)
           c == NewNode(b, n)
<1>1. GoodT(x, p, d0, a) /\ (Going(a) => OwnOk(a))
  BY ResolveOwnIs
<1> HIDE DEF a
<1>2. GoodT(x, p, d0, b) /\ b.own = a.own /\ (Going(b) => Going(a))
  BY <1>1, FireIs
<1> HIDE DEF b
<1>3. GoodT(x, p, d0, c)
  BY <1>1, <1>2, NewNodeGood DEF OwnOk
<1> HIDE DEF c
<1>4. GoodT(x, p, d0, Fire(c))
  BY <1>3, FireIs
<1> QED BY <1>4 DEF MakeNode, a, b, c

LEMMA NewEdgeGood ==
  ASSUME NEW x, NEW p, NEW d0, NEW st, GoodT(x, p, d0, st), Going(st) => OwnOk(st), NEW r, NEW ends,
         NEW stamps, Fresh(stamps, d0.clock)
  PROVE  GoodT(x, p, d0, NewEdge(st, r, ends, stamps))
<1>1. CASE ~ Going(st)
  BY <1>1 DEF NewEdge
<1>2. CASE Going(st) /\ {ends[1], ends[2]} \subseteq DOMAIN st.db.nodes
  <2> DEFINE props == Over(st.own, stamps)
             edge == [type |-> r.types[1], from |-> ends[1], to |-> ends[2], props |-> props]
             c == CreateEdge(st.db, edge)
             made == [st EXCEPT !.db = CreateEdge(@, edge), !.created = TRUE]
  <2>1. NewEdge(st, r, ends, stamps) = BindRow(made, r.variable, <<"Edge", st.db.next.edge>>)
    BY <1>2 DEF NewEdge
  <2>2. IsThread(made) /\ made.db = c
    <3> HIDE DEF edge
    <3> QED BY DEF GoodT, IsThread, ThreadKeys
  <2> HIDE DEF made
  <2>3. Fresh(props, st.db.clock)
    BY <1>2, OverFresh, ClockIs DEF OwnOk
  <2> HIDE DEF props
  <2>4. /\ edge = [type |-> edge.type, from |-> edge.from, to |-> edge.to, props |-> edge.props]
        /\ edge.from = ends[1] /\ edge.to = ends[2] /\ edge.props = props
    OBVIOUS
  <2> HIDE DEF edge
  <2>5. Good(x, p, d0, st.db) /\ {edge.from, edge.to} \subseteq DOMAIN st.db.nodes /\ Fresh(edge.props, st.db.clock)
    BY <1>2, <2>3, <2>4 DEF GoodT
  <2>6. Good(x, p, d0, c)
    BY <2>4, <2>5, CreateEdgeGood
  <2> HIDE DEF c
  <2>7. GoodT(x, p, d0, made)
    BY <2>2, <2>6 DEF GoodT
  <2> QED BY <2>1, <2>7, BindRowGood
<1>3. CASE Going(st) /\ ~ ({ends[1], ends[2]} \subseteq DOMAIN st.db.nodes)
  <2> DEFINE c == LoseEdgeId(st.db)
             lost == [st EXCEPT !.db = LoseEdgeId(@)]
  <2>1. NewEdge(st, r, ends, stamps) = Fail(lost)
    BY <1>3 DEF NewEdge
  <2>2. IsThread(lost) /\ lost.db = c
    BY DEF GoodT, IsThread, ThreadKeys
  <2> HIDE DEF lost
  <2>3. Good(x, p, d0, c)
    BY LoseEdgeIdGood DEF GoodT
  <2>4. GoodT(x, p, d0, lost)
    BY <2>2, <2>3 DEF GoodT
  <2> QED BY <2>1, <2>4, FailGood
<1> QED BY <1>1, <1>2, <1>3

LEMMA MakeEdgeGood ==
  ASSUME NEW x, NEW p, NEW d0, NEW st, GoodT(x, p, d0, st), NEW r, NEW ends
  PROVE  GoodT(x, p, d0, MakeEdge(st, r, ends))
<1> DEFINE a == ResolveOwn(st, r.properties)
           b == Fire(a)
           stamps == CreatedEdge(st)
           c == NewEdge(b, r, ends, stamps)
<1>1. GoodT(x, p, d0, a) /\ (Going(a) => OwnOk(a))
  BY ResolveOwnIs
<1>2. Fresh(stamps, d0.clock)
  BY CreatedFresh, ClockIs
<1> HIDE DEF a, stamps
<1>3. GoodT(x, p, d0, b) /\ b.own = a.own /\ (Going(b) => Going(a))
  BY <1>1, FireIs
<1> HIDE DEF b
<1>4. GoodT(x, p, d0, c)
  BY <1>1, <1>2, <1>3, NewEdgeGood DEF OwnOk
<1> HIDE DEF c
<1>5. GoodT(x, p, d0, Fire(c))
  BY <1>4, FireIs
<1> QED BY <1>5 DEF MakeEdge, a, b, c, stamps

LEMMA JoinGood ==
  ASSUME NEW x, NEW p, NEW d0, NEW st, GoodT(x, p, d0, st), NEW chain, NEW k
  PROVE  GoodT(x, p, d0, Join(st, chain, k))
BY MakeEdgeGood, FailGood DEF Join

LEMMA MeetGood ==
  ASSUME NEW x, NEW p, NEW d0, NEW st, GoodT(x, p, d0, st), NEW n
  PROVE  GoodT(x, p, d0, Meet(st, n))
<1> DEFINE v == At(st.row, n.variable)
<1>1. CASE Type(v) = "Node"
  <2> DEFINE id == v[2]
  <2>1. Sets(Meet(st, n), st, "last", id)
    BY <1>1 DEF Meet, Sets, ThreadKeys
  <2> HIDE DEF id
  <2> QED BY <2>1, SetOther
<1>2. CASE Type(v) # "Node"
  BY <1>2, FailGood DEF Meet
<1> QED BY <1>1, <1>2

LEMMA CreateStepGood ==
  ASSUME NEW x, NEW p, NEW d0, NEW st, GoodT(x, p, d0, st), NEW chain, NEW k
  PROVE  GoodT(x, p, d0, CreateStep(st, chain, k))
<1> DEFINE n == chain.steps[k].node
           a == IF IsBound(st, n.variable) THEN Meet(st, n) ELSE MakeNode(st, n)
<1>1. GoodT(x, p, d0, a)
  BY MeetGood, MakeNodeGood
<1> HIDE DEF a
<1>2. GoodT(x, p, d0, Join(a, chain, k))
  BY <1>1, JoinGood
<1> QED BY <1>2 DEF CreateStep, a

-----------------------------------------------------------------------------
(* SET, REMOVE and DELETE.                                                 *)

LEMMA TouchIs ==
  ASSUME NEW st, NEW props, NEW old, {"_created_at"} \subseteq DOMAIN props,
         props["_created_at"] = old["_created_at"]
  PROVE  Touched(Touch(st, props), old, st.db.clock)
BY DEF Touched, Touch, Bind, Now, SystemKeys

LEMMA NewPropsTouched ==
  ASSUME NEW st, NEW props, NEW by, Dated(props, by), NEW key, key \notin SystemKeys, NEW opt
  PROVE  Touched(NewProps(st, props, key, opt), props, st.db.clock)
<1>1. "_created_at" \in DOMAIN props /\ key # "_created_at"
  BY DEF Dated, SystemKeys
<1>2. CASE opt = <<>>
  <2> DEFINE q == Without(props, {key})
  <2>1. {"_created_at"} \subseteq DOMAIN q /\ q["_created_at"] = props["_created_at"]
    BY <1>1 DEF Without
  <2> HIDE DEF q
  <2>2. Touched(Touch(st, q), props, st.db.clock)
    BY <2>1, TouchIs
  <2> QED BY <1>2, <2>2 DEF NewProps, KeyRemoved, q
<1>3. CASE opt # <<>>
  <2> DEFINE q == Bind(props, key, opt[1])
  <2>1. {"_created_at"} \subseteq DOMAIN q /\ q["_created_at"] = props["_created_at"]
    BY <1>1 DEF Bind
  <2> HIDE DEF q
  <2>2. Touched(Touch(st, q), props, st.db.clock)
    BY <2>1, TouchIs
  <2> QED BY <1>3, <2>2 DEF NewProps, q
<1> QED BY <1>2, <1>3

LEMMA ChangedGood ==
  ASSUME NEW x, NEW p, NEW d0, NEW st, GoodT(x, p, d0, st), NEW entity, NEW props,
         \/ Type(entity) = "Node" /\ entity[2] \in DOMAIN st.db.nodes
            /\ Touched(props, st.db.nodes[entity[2]].props, st.db.clock)
         \/ Type(entity) = "Edge" /\ entity[2] \in DOMAIN st.db.edges
            /\ Touched(props, st.db.edges[entity[2]].props, st.db.clock)
  PROVE  GoodT(x, p, d0, Changed(st, entity, props))
<1> DEFINE id == entity[2]
           u == Changed(st, entity, props)
<1>1. CASE ~ Going(st)
  BY <1>1 DEF Changed
<1>2. CASE Going(st) /\ Type(entity) = "Node"
  <2> DEFINE c == UpdateNode(st.db, id, props)
  <2>1. u = [st EXCEPT !.db = c]
    BY <1>2 DEF Changed
  <2>2. Good(x, p, d0, c)
    <3>1. id \in DOMAIN st.db.nodes /\ Touched(props, st.db.nodes[id].props, st.db.clock)
      BY <1>2
    <3> HIDE DEF id
    <3> QED BY <3>1, UpdateNodeGood DEF GoodT
  <2> HIDE DEF c
  <2> QED BY <2>1, <2>2 DEF GoodT, IsThread, ThreadKeys
<1>3. CASE Going(st) /\ Type(entity) # "Node"
  <2> DEFINE c == UpdateEdge(st.db, id, props)
  <2>1. u = [st EXCEPT !.db = c]
    BY <1>3 DEF Changed
  <2>2. Good(x, p, d0, c)
    <3>1. id \in DOMAIN st.db.edges /\ Touched(props, st.db.edges[id].props, st.db.clock)
      BY <1>3
    <3> HIDE DEF id
    <3> QED BY <3>1, UpdateEdgeGood DEF GoodT
  <2> HIDE DEF c
  <2> QED BY <2>1, <2>2 DEF GoodT, IsThread, ThreadKeys
<1> QED BY <1>1, <1>2, <1>3

LEMMA ChangeGood ==
  ASSUME NEW x, NEW p, NEW d0, NEW st, GoodT(x, p, d0, st), NEW entity, NEW key, key \notin SystemKeys, NEW opt
  PROVE  GoodT(x, p, d0, Change(st, entity, key, opt))
<1> DEFINE id == entity[2]
           all == Entities(st, Type(entity))
           props == NewProps(st, all[id].props, key, opt)
           b == Fire(st)
           c == Changed(b, entity, props)
<1>1. CASE entity = Null
  BY <1>1 DEF Change
<1>2. CASE entity # Null /\ (Type(entity) \notin {"Node", "Edge"} \/ id \notin DOMAIN all)
  BY <1>2, FailGood DEF Change
<1>3. CASE entity # Null /\ Type(entity) \in {"Node", "Edge"} /\ id \in DOMAIN all
  <2>1. Change(st, entity, key, opt) = Fire(c)
    BY <1>3 DEF Change
  <2>2. GoodT(x, p, d0, b) /\ b.db = st.db
    BY FireIs
  <2>3. all = IF Type(entity) = "Node" THEN st.db.nodes ELSE st.db.edges
    BY DEF Entities
  <2>4. Dated(all[id].props, st.db.clock)
    <3>1. NodesDated(st.db) /\ EdgesDated(st.db)
      BY DEF GoodT, Good, WellKept
    <3> HIDE DEF all, id
    <3> QED BY <1>3, <2>3, <3>1 DEF NodesDated, EdgesDated
  <2>5. Touched(props, all[id].props, st.db.clock)
    <3> HIDE DEF all
    <3> QED BY <2>4, NewPropsTouched
  <2> HIDE DEF props, all, b
  <2>6. GoodT(x, p, d0, c)
    BY <1>3, <2>2, <2>3, <2>5, ChangedGood
  <2> HIDE DEF c
  <2>7. GoodT(x, p, d0, Fire(c))
    BY <2>6, FireIs
  <2> QED BY <2>1, <2>7
<1> QED BY <1>1, <1>2, <1>3

LEMMA AssignItemGood ==
  ASSUME NEW x, NEW p, NEW d0, NEW st, GoodT(x, p, d0, st), NEW item
  PROVE  GoodT(x, p, d0, AssignItem(st, item))
<1>1. CASE item.path = <<>> \/ Last(item.path) \in SystemKeys
  BY <1>1, FailGood DEF AssignItem
<1>2. CASE ~ (item.path = <<>> \/ Last(item.path) \in SystemKeys)
  <2> DEFINE key == Last(item.path)
             entity == Owner(st, item)
             value == Stored(item.value, st.row, st.db)
  <2>1. AssignItem(st, item) = Assigned(st, item, entity, value) /\ key \notin SystemKeys
    BY <1>2 DEF AssignItem
  <2> HIDE DEF entity, value
  <2>2. GoodT(x, p, d0, Change(st, entity, key, <<value>>))
    BY <2>1, ChangeGood
  <2>3. GoodT(x, p, d0, Assigned(st, item, entity, value))
    BY <2>2, FailGood DEF Assigned
  <2> QED BY <2>1, <2>3
<1> QED BY <1>1, <1>2

LEMMA DropItemGood ==
  ASSUME NEW x, NEW p, NEW d0, NEW st, GoodT(x, p, d0, st), NEW item
  PROVE  GoodT(x, p, d0, DropItem(st, item))
<1> DEFINE entity == At(st.row, <<item.name>>)
<1> HIDE DEF entity
<1>1. GoodT(x, p, d0, DropLabel(st, entity))
  BY FailGood DEF DropLabel
<1>2. item.what.of \notin SystemKeys => GoodT(x, p, d0, Change(st, entity, item.what.of, <<>>))
  BY ChangeGood
<1> QED BY <1>1, <1>2, FailGood DEF DropItem, entity

LEMMA EdgeGoneGood ==
  ASSUME NEW p, NEW d0, NEW st, GoodT(TRUE, p, d0, st), NEW id
  PROVE  GoodT(TRUE, p, d0, EdgeGone(st, id))
<1> DEFINE c == DeleteEdge(st.db, id)
<1>1. Good(TRUE, p, d0, c)
  BY DeleteEdgeGood DEF GoodT
<1> HIDE DEF c
<1>2. GoodT(TRUE, p, d0, [st EXCEPT !.db = c])
  BY <1>1 DEF GoodT, IsThread, ThreadKeys
<1> QED BY <1>2, FailGood DEF EdgeGone, c

LEMMA NodeGoneGood ==
  ASSUME NEW p, NEW d0, NEW st, GoodT(TRUE, p, d0, st), NEW id
  PROVE  GoodT(TRUE, p, d0, NodeGone(st, id))
<1> DEFINE c == DeleteNode(st.db, id)
<1>1. Good(TRUE, p, d0, c)
  BY DeleteNodeGood DEF GoodT
<1> HIDE DEF c
<1>2. GoodT(TRUE, p, d0, [st EXCEPT !.db = c])
  BY <1>1 DEF GoodT, IsThread, ThreadKeys
<1> QED BY <1>2, FailGood DEF NodeGone, c

LEMMA DeleteOneGood ==
  ASSUME NEW p, NEW d0, NEW st, GoodT(TRUE, p, d0, st), NEW kind, NEW id, NEW detach
  PROVE  GoodT(TRUE, p, d0, DeleteOne(st, kind, id, detach))
<1> DEFINE b == Fire(st)
<1>1. GoodT(TRUE, p, d0, b)
  BY FireIs
<1> HIDE DEF b
<1>2. GoodT(TRUE, p, d0, EdgeGone(b, id)) /\ GoodT(TRUE, p, d0, NodeGone(b, id))
  BY <1>1, EdgeGoneGood, NodeGoneGood
<1>3. GoodT(TRUE, p, d0, Fire(EdgeGone(b, id))) /\ GoodT(TRUE, p, d0, Fire(NodeGone(b, id)))
  BY <1>2, FireIs
<1> QED BY <1>3, FailGood DEF DeleteOne, DeleteOneEdge, DeleteOneNode, b

-----------------------------------------------------------------------------
(* MERGE.                                                                  *)

LEMMA FindOrMakeGood ==
  ASSUME NEW x, NEW p, NEW d0, NEW st, GoodT(x, p, d0, st), NEW n, ~ SetsSystem(n.properties) => OwnOk(st), NEW found
  PROVE  GoodT(x, p, d0, FindOrMake(st, n, found))
<1> DEFINE id == found[1]
           a == [st EXCEPT !.last = id]
<1> HIDE DEF id
<1>1. Sets(a, st, "last", id)
  BY DEF Sets, ThreadKeys
<1> HIDE DEF a
<1>2. GoodT(x, p, d0, a)
  BY <1>1, SetOther
<1>3. GoodT(x, p, d0, BindRow(a, n.variable, <<"Node", id>>))
  BY <1>2, BindRowGood
<1>4. ~ SetsSystem(n.properties) => GoodT(x, p, d0, NewNode(st, n))
  BY NewNodeGood
<1> QED BY <1>3, <1>4, FailGood DEF FindOrMake, a, id

LEMMA MergeNodeGood ==
  ASSUME NEW x, NEW p, NEW d0, NEW st, GoodT(x, p, d0, st), NEW n, NEW findable
  PROVE  GoodT(x, p, d0, MergeNode(st, n, findable))
<1> DEFINE a == Resolve(st, n.properties)
           found == Found(a, n, findable)
<1>1. GoodT(x, p, d0, a) /\ (~ SetsSystem(n.properties) => OwnOk(a))
  BY ResolveIs
<1> HIDE DEF a, found
<1>2. GoodT(x, p, d0, FindOrMake(a, n, found))
  BY <1>1, FindOrMakeGood
<1> QED BY <1>2 DEF MergeNode, Merged, ResolveToFind, a, found

LEMMA MergeEdgeGood ==
  ASSUME NEW x, NEW p, NEW d0, NEW st, GoodT(x, p, d0, st), NEW r, NEW ends
  PROVE  GoodT(x, p, d0, MergeEdge(st, r, ends))
<1> DEFINE a == ResolveOwn(st, r.properties)
           stamps == Created(st)
           found == FindEdge(st.db, ends[1], ends[2], r.types[1])
           v == <<"Edge", found[1]>>
<1>1. GoodT(x, p, d0, a) /\ (Going(a) => OwnOk(a))
  BY ResolveOwnIs
<1>2. Fresh(stamps, d0.clock)
  BY CreatedFresh, ClockIs
<1> HIDE DEF a, stamps, found
<1>3. GoodT(x, p, d0, NewEdge(a, r, ends, stamps))
  BY <1>1, <1>2, NewEdgeGood
<1>4. GoodT(x, p, d0, BindRow(st, r.variable, v))
  BY BindRowGood
<1> QED BY <1>3, <1>4 DEF MergeEdge, a, stamps, found

LEMMA MergeStepGood ==
  ASSUME NEW x, NEW p, NEW d0, NEW st, GoodT(x, p, d0, st), NEW chain, NEW k
  PROVE  GoodT(x, p, d0, MergeStep(st, chain, k))
<1> DEFINE n == chain.steps[k].node
           a == IF IsBound(st, n.variable) THEN Meet(st, n) ELSE MergeNode(st, n, n.labels # <<>>)
<1>1. GoodT(x, p, d0, a)
  BY MeetGood, MergeNodeGood
<1> HIDE DEF a
<1>2. GoodT(x, p, d0, JoinMerging(a, chain, k))
  BY <1>1, MergeEdgeGood, FailGood DEF JoinMerging
<1> QED BY <1>2 DEF MergeStep, a

LEMMA SetMergedGood ==
  ASSUME NEW x, NEW p, NEW d0, NEW st, GoodT(x, p, d0, st), NEW item
  PROVE  GoodT(x, p, d0, SetMerged(st, item))
<1>1. CASE item.path = <<>> \/ Last(item.path) \in SystemKeys
  BY <1>1, FailGood DEF SetMerged
<1>2. CASE ~ (item.path = <<>> \/ Last(item.path) \in SystemKeys)
  <2> DEFINE key == Last(item.path)
             entity == Owner(st, item)
             id == entity[2]
             value == Stored(item.value, st.row, st.db)
             props == Bind(st.db.nodes[id].props, key, value)
             new == Touch(st, props)
             c == UpdateNode(st.db, id, new)
  <2>1. SetMerged(st, item) = AssignedMerged(st, item, entity, value) /\ key \notin SystemKeys
    BY <1>2 DEF SetMerged
  <2> HIDE DEF entity, value
  <2>2. ASSUME id \in DOMAIN st.db.nodes  PROVE GoodT(x, p, d0, [st EXCEPT !.db = c])
    <3> HIDE DEF id
    <3>1. Dated(st.db.nodes[id].props, st.db.clock)
      BY <2>2 DEF GoodT, Good, WellKept, NodesDated
    <3>2. {"_created_at"} \subseteq DOMAIN props /\ props["_created_at"] = st.db.nodes[id].props["_created_at"]
      BY <2>1, <3>1 DEF Bind, Dated, SystemKeys
    <3> HIDE DEF props
    <3>3. Touched(new, st.db.nodes[id].props, st.db.clock)
      BY <3>2, TouchIs
    <3> HIDE DEF new
    <3>4. Good(x, p, d0, c)
      BY <2>2, <3>3, UpdateNodeGood DEF GoodT
    <3> HIDE DEF c
    <3> QED BY <3>4 DEF GoodT, IsThread, ThreadKeys
  <2>3. GoodT(x, p, d0, AssignedMerged(st, item, entity, value))
    BY <2>2, FailGood DEF AssignedMerged
  <2> QED BY <2>1, <2>3
<1> QED BY <1>1, <1>2

-----------------------------------------------------------------------------
(* Loops.                                                                  *)

\* A non-empty set of natural numbers has a least one.
LEMMA LeastExists ==
  ASSUME NEW S \in SUBSET Nat, S # {}
  PROVE  \E p \in S : \A q \in S : p <= q
<1>1. PICK x \in S : \A y \in S : ~ (<<y, x>> \in OpToRel(<, Nat))
  BY NatLessThanWellFounded, WFMin
<1>2. ASSUME NEW y \in S  PROVE x <= y
  <2>1. x \in Nat /\ y \in Nat
    OBVIOUS
  <2>2. ~ (y < x)
    BY <1>1, <2>1 DEF OpToRel
  <2> QED BY <2>1, <2>2
<1> QED BY <1>2

\* A set that has 0 and with every number the next has them all.
LEMMA Induct ==
  ASSUME NEW S, 0 \in S, \A n \in Nat : n \in S => n + 1 \in S
  PROVE  Nat \subseteq S
<1> DEFINE rest == {n \in Nat : n \notin S}
<1>1. ASSUME rest # {}  PROVE FALSE
  <2>1. rest \in SUBSET Nat
    OBVIOUS
  <2>2. PICK p \in rest : \A q \in rest : p <= q
    BY ONLY <1>1, <2>1, LeastExists
  <2>3. p \in Nat /\ p # 0 /\ p \notin S
    OBVIOUS
  <2>4. p - 1 \in Nat /\ p - 1 \notin rest
    BY <2>2, <2>3
  <2>5. p - 1 + 1 \in S
    BY <2>4
  <2> QED BY <2>3, <2>5
<1> QED BY <1>1

Kinds == {"create", "merge", "set", "set merged", "remove", "delete", "detach delete"}
MayDelete(x, kind) == kind \in {"delete", "detach delete"} => x = TRUE

LEMMA NextStepGood ==
  ASSUME NEW x, NEW p, NEW d0, NEW st, GoodT(x, p, d0, st), NEW kind \in Kinds, MayDelete(x, kind), NEW e
  PROVE  GoodT(x, p, d0, NextStep(kind, st, e))
<1>1. CASE ~ Going(st)
  BY <1>1 DEF NextStep
<1>2. CASE Going(st)
  <2>1. NextStep(kind, st, e) = Step(kind, st, e)
    BY <1>2 DEF NextStep
  <2>2. CASE kind = "create"
    BY <2>1, <2>2, CreateStepGood DEF Step
  <2>3. CASE kind = "merge"
    BY <2>1, <2>3, MergeStepGood DEF Step
  <2>4. CASE kind = "set"
    BY <2>1, <2>4, AssignItemGood DEF Step
  <2>5. CASE kind = "set merged"
    BY <2>1, <2>5, SetMergedGood DEF Step
  <2>6. CASE kind = "remove"
    BY <2>1, <2>6, DropItemGood DEF Step
  <2>7. CASE kind \in {"delete", "detach delete"}
    <3>1. NextStep(kind, st, e) = DeleteOne(st, e[1], e[2], kind = "detach delete")
      BY <2>1, <2>7 DEF Step
    <3>2. x = TRUE
      BY <2>7 DEF MayDelete
    <3> DEFINE detach == kind = "detach delete"
    <3> HIDE DEF detach
    <3>3. GoodT(TRUE, p, d0, DeleteOne(st, e[1], e[2], detach))
      BY <3>2, DeleteOneGood
    <3> QED BY <3>1, <3>2, <3>3 DEF detach
  <2> QED BY <2>2, <2>3, <2>4, <2>5, <2>6, <2>7 DEF Kinds
<1> QED BY <1>1, <1>2

LEMMA EachRuns ==
  ASSUME NEW st, NEW kind, NEW seq, NEW n \in Nat
  PROVE  \E f : f = [k \in 0..n |-> IF k = 0 THEN st ELSE NextStep(kind, f[k - 1], seq[k])]
<1> DEFINE Runs(f, m) == f = [k \in 0..m |-> IF k = 0 THEN st ELSE NextStep(kind, f[k - 1], seq[k])]
           S == {m \in Nat : \E f : Runs(f, m)}
<1>1. 0 \in S
  <2> DEFINE f == [k \in 0..0 |-> st]
  <2>1. Runs(f, 0)
    OBVIOUS
  <2> QED BY <2>1
<1>2. ASSUME NEW m \in Nat, m \in S  PROVE m + 1 \in S
  <2>1. PICK f : Runs(f, m)
    BY <1>2
  <2> DEFINE h == [k \in 0..(m + 1) |-> IF k = m + 1 THEN NextStep(kind, f[m], seq[m + 1]) ELSE f[k]]
  <2>2. ASSUME NEW k \in 0..(m + 1)  PROVE h[k] = IF k = 0 THEN st ELSE NextStep(kind, h[k - 1], seq[k])
    <3>1. CASE k = 0
      BY <2>1, <3>1
    <3>2. CASE k = m + 1
      BY <2>1, <3>2
    <3>3. CASE k \in 1..m
      BY <2>1, <3>3
    <3> QED BY <3>1, <3>2, <3>3
  <2>3. Runs(h, m + 1)
    BY <2>2
  <2> HIDE DEF Runs, h
  <2> QED BY <2>3
<1>3. n \in S
  <2> HIDE DEF S
  <2> QED BY <1>1, <1>2, Induct
<1> QED BY <1>3

LEMMA EachGood ==
  ASSUME NEW x, NEW p, NEW d0, NEW st, GoodT(x, p, d0, st), NEW kind \in Kinds, MayDelete(x, kind), NEW seq
  PROVE  GoodT(x, p, d0, Each(kind, st, seq))
<1> DEFINE n == Count(seq)
           run == CHOOSE f : f = [k \in 0..n |-> IF k = 0 THEN st ELSE NextStep(kind, f[k - 1], seq[k])]
           S == {m \in Nat : m <= n => GoodT(x, p, d0, run[m])}
<1>1. n \in Nat
  BY DEF Count
<1>2. Each(kind, st, seq) = run[n]
  BY DEF Each
<1> HIDE DEF n
<1>3. run = [k \in 0..n |-> IF k = 0 THEN st ELSE NextStep(kind, run[k - 1], seq[k])]
  BY <1>1, EachRuns
<1> HIDE DEF run
<1>4. 0 \in S
  BY <1>1, <1>3
<1>5. ASSUME NEW m \in Nat, m \in S, m + 1 <= n  PROVE GoodT(x, p, d0, run[m + 1])
  <2>1. GoodT(x, p, d0, run[m])
    BY <1>1, <1>5
  <2> DEFINE r == run[m]
             e == seq[m + 1]
  <2>2. run[m + 1] = NextStep(kind, r, e)
    BY <1>1, <1>3, <1>5
  <2> HIDE DEF r, e
  <2>3. GoodT(x, p, d0, r)
    BY <2>1 DEF r
  <2> QED BY <2>2, <2>3, NextStepGood
<1>6. \A m \in Nat : m \in S => m + 1 \in S
  BY <1>5
<1>7. n \in S
  <2> HIDE DEF S
  <2> QED BY <1>1, <1>4, <1>6, Induct
<1> QED BY <1>1, <1>2, <1>7

LEMMA CreateChainGood ==
  ASSUME NEW x, NEW p, NEW d0, NEW st, GoodT(x, p, d0, st), NEW chain
  PROVE  GoodT(x, p, d0, CreateChain(st, chain))
<1> DEFINE a == IF IsBound(st, chain.first.variable) THEN st ELSE MakeNode(st, chain.first)
<1>1. GoodT(x, p, d0, a)
  BY MakeNodeGood
<1> HIDE DEF a
<1>2. MayDelete(x, "create") /\ "create" \in Kinds
  BY DEF MayDelete, Kinds
<1>3. GoodT(x, p, d0, Each("create", a, StepsOf(chain)))
  BY <1>1, <1>2, EachGood
<1> QED BY <1>3 DEF CreateChain, a

LEMMA MergePatternGood ==
  ASSUME NEW x, NEW p, NEW d0, NEW st, GoodT(x, p, d0, st), NEW chain, NEW on
  PROVE  GoodT(x, p, d0, MergePattern(st, chain, on))
<1> DEFINE w == [st EXCEPT !.created = FALSE]
           n == chain.first
           findable == n.labels # <<>> \/ Entries(n.properties) # <<>>
           a == IF IsBound(w, n.variable) THEN w ELSE MergeNode(w, n, n.labels # <<>> \/ Entries(n.properties) # <<>>)
           b == Each("merge", a, StepsOf(chain))
           items == ItemsOf(on, IF b.created THEN "on create" ELSE "on match")
<1>1. Sets(w, st, "created", FALSE)
  BY DEF Sets, ThreadKeys
<1> HIDE DEF w
<1>2. GoodT(x, p, d0, w)
  BY <1>1, SetOther
<1>3. GoodT(x, p, d0, a)
  BY <1>2, MergeNodeGood
<1> HIDE DEF a
<1>4. MayDelete(x, "merge") /\ "merge" \in Kinds /\ MayDelete(x, "set merged") /\ "set merged" \in Kinds
  BY DEF MayDelete, Kinds
<1>5. GoodT(x, p, d0, b)
  BY <1>3, <1>4, EachGood
<1>6. MergePattern(st, chain, on) = Each("set merged", b, items)
  BY DEF MergePattern, Then, MergeChain, w, a
<1> HIDE DEF b, items
<1>7. GoodT(x, p, d0, Each("set merged", b, items))
  BY <1>4, <1>5, EachGood
<1> QED BY <1>6, <1>7

LEMMA NextChainGood ==
  ASSUME NEW x, NEW p, NEW d0, NEW st, GoodT(x, p, d0, st), NEW o, NEW chain
  PROVE  GoodT(x, p, d0, NextChain(st, o, chain))
BY MergePatternGood, CreateChainGood DEF NextChain

LEMMA EachChainRuns ==
  ASSUME NEW st, NEW o, NEW seq, NEW n \in Nat
  PROVE  \E f : f = [k \in 0..n |-> IF k = 0 THEN st ELSE NextChain(f[k - 1], o, seq[k])]
<1> DEFINE Runs(f, m) == f = [k \in 0..m |-> IF k = 0 THEN st ELSE NextChain(f[k - 1], o, seq[k])]
           S == {m \in Nat : \E f : Runs(f, m)}
<1>1. 0 \in S
  <2> DEFINE f == [k \in 0..0 |-> st]
  <2>1. Runs(f, 0)
    OBVIOUS
  <2> QED BY <2>1
<1>2. ASSUME NEW m \in Nat, m \in S  PROVE m + 1 \in S
  <2>1. PICK f : Runs(f, m)
    BY <1>2
  <2> DEFINE h == [k \in 0..(m + 1) |-> IF k = m + 1 THEN NextChain(f[m], o, seq[m + 1]) ELSE f[k]]
  <2>2. ASSUME NEW k \in 0..(m + 1)  PROVE h[k] = IF k = 0 THEN st ELSE NextChain(h[k - 1], o, seq[k])
    <3>1. CASE k = 0
      BY <2>1, <3>1
    <3>2. CASE k = m + 1
      BY <2>1, <3>2
    <3>3. CASE k \in 1..m
      BY <2>1, <3>3
    <3> QED BY <3>1, <3>2, <3>3
  <2>3. Runs(h, m + 1)
    BY <2>2
  <2> HIDE DEF Runs, h
  <2> QED BY <2>3
<1>3. n \in S
  <2> HIDE DEF S
  <2> QED BY <1>1, <1>2, Induct
<1> QED BY <1>3

LEMMA EachChainGood ==
  ASSUME NEW x, NEW p, NEW d0, NEW st, GoodT(x, p, d0, st), NEW o
  PROVE  GoodT(x, p, d0, EachChain(st, o))
<1> DEFINE seq == o.pattern
           n == Count(seq)
           run == CHOOSE f : f = [k \in 0..n |-> IF k = 0 THEN st ELSE NextChain(f[k - 1], o, seq[k])]
           S == {m \in Nat : m <= n => GoodT(x, p, d0, run[m])}
<1>1. n \in Nat
  BY DEF Count
<1>2. EachChain(st, o) = run[n]
  BY DEF EachChain
<1> HIDE DEF n, seq
<1>3. run = [k \in 0..n |-> IF k = 0 THEN st ELSE NextChain(run[k - 1], o, seq[k])]
  BY <1>1, EachChainRuns
<1> HIDE DEF run
<1>4. 0 \in S
  BY <1>1, <1>3
<1>5. ASSUME NEW m \in Nat, m \in S, m + 1 <= n  PROVE GoodT(x, p, d0, run[m + 1])
  <2>1. GoodT(x, p, d0, run[m])
    BY <1>1, <1>5
  <2> DEFINE r == run[m]
             e == seq[m + 1]
  <2>2. run[m + 1] = NextChain(r, o, e)
    BY <1>1, <1>3, <1>5
  <2> HIDE DEF r, e
  <2>3. GoodT(x, p, d0, r)
    BY <2>1 DEF r
  <2> QED BY <2>2, <2>3, NextChainGood
<1>6. \A m \in Nat : m \in S => m + 1 \in S
  BY <1>5
<1>7. n \in S
  <2> HIDE DEF S
  <2> QED BY <1>1, <1>4, <1>6, Induct
<1> QED BY <1>1, <1>2, <1>7

PerRowOps == {"CreateOp", "MergeOp", "SetOp", "RemoveOp"}

LEMMA ForRowGood ==
  ASSUME NEW x, NEW p, NEW d0, NEW st, GoodT(x, p, d0, st), NEW o, o.op \in PerRowOps
  PROVE  GoodT(x, p, d0, ForRow(st, o))
<1>1. MayDelete(x, "set") /\ "set" \in Kinds /\ MayDelete(x, "remove") /\ "remove" \in Kinds
  BY DEF MayDelete, Kinds
<1>2. GoodT(x, p, d0, Each("set", st, o.items)) /\ GoodT(x, p, d0, Each("remove", st, o.items))
  BY <1>1, EachGood
<1>3. GoodT(x, p, d0, EachChain(st, o))
  BY EachChainGood
<1>4. CASE o.op \in {"CreateOp", "MergeOp"}
  BY <1>3, <1>4 DEF ForRow
<1>5. CASE o.op = "SetOp"
  BY <1>2, <1>5 DEF ForRow
<1>6. CASE o.op = "RemoveOp"
  BY <1>2, <1>6 DEF ForRow
<1> QED BY <1>4, <1>5, <1>6 DEF PerRowOps

LEMMA NextRowGood ==
  ASSUME NEW x, NEW p, NEW d0, NEW st, GoodT(x, p, d0, st), NEW o, o.op \in PerRowOps, NEW row
  PROVE  GoodT(x, p, d0, NextRow(st, o, row))
<1> DEFINE w == [st EXCEPT !.row = row]
           a == ForRow(w, o)
           rows == Append(a.rows, a.row)
           done == RowDone(a)
<1>1. Sets(w, st, "row", row)
  BY DEF Sets, ThreadKeys
<1> HIDE DEF w
<1>2. GoodT(x, p, d0, w)
  BY <1>1, SetOther
<1>3. GoodT(x, p, d0, a)
  BY <1>2, ForRowGood
<1> HIDE DEF a
<1>4. Sets(done, a, "rows", rows)
  BY DEF RowDone, Sets, ThreadKeys
<1> HIDE DEF rows, done
<1>5. GoodT(x, p, d0, done)
  BY <1>3, <1>4, SetOther
<1> QED BY <1>5 DEF NextRow, w, a, done

LEMMA EachRowRuns ==
  ASSUME NEW st, NEW o, NEW seq, NEW n \in Nat
  PROVE  \E f : f = [k \in 0..n |-> IF k = 0 THEN st ELSE NextRow(f[k - 1], o, seq[k])]
<1> DEFINE Runs(f, m) == f = [k \in 0..m |-> IF k = 0 THEN st ELSE NextRow(f[k - 1], o, seq[k])]
           S == {m \in Nat : \E f : Runs(f, m)}
<1>1. 0 \in S
  <2> DEFINE f == [k \in 0..0 |-> st]
  <2>1. Runs(f, 0)
    OBVIOUS
  <2> QED BY <2>1
<1>2. ASSUME NEW m \in Nat, m \in S  PROVE m + 1 \in S
  <2>1. PICK f : Runs(f, m)
    BY <1>2
  <2> DEFINE h == [k \in 0..(m + 1) |-> IF k = m + 1 THEN NextRow(f[m], o, seq[m + 1]) ELSE f[k]]
  <2>2. ASSUME NEW k \in 0..(m + 1)  PROVE h[k] = IF k = 0 THEN st ELSE NextRow(h[k - 1], o, seq[k])
    <3>1. CASE k = 0
      BY <2>1, <3>1
    <3>2. CASE k = m + 1
      BY <2>1, <3>2
    <3>3. CASE k \in 1..m
      BY <2>1, <3>3
    <3> QED BY <3>1, <3>2, <3>3
  <2>3. Runs(h, m + 1)
    BY <2>2
  <2> HIDE DEF Runs, h
  <2> QED BY <2>3
<1>3. n \in S
  <2> HIDE DEF S
  <2> QED BY <1>1, <1>2, Induct
<1> QED BY <1>3

LEMMA EachRowGood ==
  ASSUME NEW x, NEW p, NEW d0, NEW st, GoodT(x, p, d0, st), NEW o, o.op \in PerRowOps, NEW seq
  PROVE  GoodT(x, p, d0, EachRow(st, o, seq))
<1> DEFINE n == Count(seq)
           run == CHOOSE f : f = [k \in 0..n |-> IF k = 0 THEN st ELSE NextRow(f[k - 1], o, seq[k])]
           S == {m \in Nat : m <= n => GoodT(x, p, d0, run[m])}
<1>1. n \in Nat
  BY DEF Count
<1>2. EachRow(st, o, seq) = run[n]
  BY DEF EachRow
<1> HIDE DEF n
<1>3. run = [k \in 0..n |-> IF k = 0 THEN st ELSE NextRow(run[k - 1], o, seq[k])]
  BY <1>1, EachRowRuns
<1> HIDE DEF run
<1>4. 0 \in S
  BY <1>1, <1>3
<1>5. ASSUME NEW m \in Nat, m \in S, m + 1 <= n  PROVE GoodT(x, p, d0, run[m + 1])
  <2>1. GoodT(x, p, d0, run[m])
    BY <1>1, <1>5
  <2> DEFINE r == run[m]
             e == seq[m + 1]
  <2>2. run[m + 1] = NextRow(r, o, e)
    BY <1>1, <1>3, <1>5
  <2> HIDE DEF r, e
  <2>3. GoodT(x, p, d0, r)
    BY <2>1 DEF r
  <2> QED BY <2>2, <2>3, NextRowGood
<1>6. \A m \in Nat : m \in S => m + 1 \in S
  BY <1>5
<1>7. n \in S
  <2> HIDE DEF S
  <2> QED BY <1>1, <1>4, <1>6, Induct
<1> QED BY <1>1, <1>2, <1>7

LEMMA PerRowGood ==
  ASSUME NEW x, NEW p, NEW d0, NEW st, GoodT(x, p, d0, st), NEW o, o.op \in PerRowOps
  PROVE  GoodT(x, p, d0, PerRow(st, o))
<1> DEFINE w == [st EXCEPT !.rows = <<>>]
           rows == st.rows
<1>1. Sets(w, st, "rows", <<>>)
  BY DEF Sets, ThreadKeys
<1> HIDE DEF w, rows
<1>2. GoodT(x, p, d0, w)
  BY <1>1, SetOther
<1>3. GoodT(x, p, d0, EachRow(w, o, rows))
  BY <1>2, EachRowGood
<1> QED BY <1>3 DEF PerRow, w, rows

LEMMA DeleteAllGood ==
  ASSUME NEW p, NEW d0, NEW st, GoodT(TRUE, p, d0, st), NEW o
  PROVE  GoodT(TRUE, p, d0, DeleteAll(st, o))
<1> DEFINE vals == ToDelete(st, o)
           kind == IF o.detach THEN "detach delete" ELSE "delete"
           seq == InTurn("Edge", IdsOf("Edge", vals)) \o InTurn("Node", IdsOf("Node", vals))
<1>1. kind \in Kinds /\ MayDelete(TRUE, kind)
  BY DEF Kinds, MayDelete
<1> HIDE DEF kind, seq, vals
<1>2. GoodT(TRUE, p, d0, Each(kind, st, seq))
  BY <1>1, EachGood
<1>3. GoodT(TRUE, p, d0, DeleteThese(st, vals, o.detach))
  BY <1>2, FailGood DEF DeleteThese, kind, seq
<1> QED BY <1>3 DEF DeleteAll, vals

-----------------------------------------------------------------------------
(* Snapshots, hyperedges and reads.                                        *)

LEMMA NewSnapshotGood ==
  ASSUME NEW x, NEW p, NEW d0, NEW st, GoodT(x, p, d0, st), NEW o, NEW ids, NEW anchor
  PROVE  GoodT(x, p, d0, NewSnapshot(st, o, ids, anchor))
<1> DEFINE graph == [props |-> Over(st.own, [key \in {"_created_at"} |-> Now(st)]), anchor |-> IntV(anchor[2])]
           row == BindOpt(EmptyRow, o.variable, <<"Subgraph", st.db.next.subgraph>>)
           c == AddSubgraph(st.db, graph, ids)
           made == [st EXCEPT !.db = AddSubgraph(@, graph, ids), !.rows = <<row>>]
<1> HIDE DEF graph, row
<1>1. IsThread(made) /\ made.db = c
  BY DEF GoodT, IsThread, ThreadKeys
<1>2. Good(x, p, d0, c)
  BY GroupGood DEF GoodT
<1> HIDE DEF c, made
<1>3. GoodT(x, p, d0, made)
  BY <1>1, <1>2 DEF GoodT
<1> QED BY <1>3, FailGood DEF NewSnapshot, made, graph, row

LEMMA CreateSnapshotGood ==
  ASSUME NEW x, NEW p, NEW d0, NEW st, GoodT(x, p, d0, st), NEW o
  PROVE  GoodT(x, p, d0, CreateSnapshot(st, o))
<1> DEFINE found == ReadBy(Rows(<<EmptyRow>>), o.plan, st.db)
           anchor == IF o.anchor = <<>> THEN IntV(st.db.clock) ELSE AsTime(ValueIn(o.anchor[1], EmptyRow, st.db))
           ids == NodesIn(found.rows, o.vars)
           w == [st EXCEPT !.row = EmptyRow]
           a == Resolve(w, o.properties)
<1> HIDE DEF found, anchor, ids
<1>1. Sets(w, st, "row", EmptyRow)
  BY DEF Sets, ThreadKeys
<1> HIDE DEF w
<1>2. GoodT(x, p, d0, w)
  BY <1>1, SetOther
<1>3. GoodT(x, p, d0, a)
  BY <1>2, ResolveIs
<1> HIDE DEF a
<1>4. GoodT(x, p, d0, NewSnapshot(a, o, ids, anchor))
  BY <1>3, NewSnapshotGood
<1>5. GoodT(x, p, d0, SnapshotOf(st, o, found, anchor))
  BY <1>4, FailGood DEF SnapshotOf, ids, a, w
<1> QED BY <1>5 DEF CreateSnapshot, found, anchor

LEMMA NewHyperedgeGood ==
  ASSUME NEW x, NEW p, NEW d0, NEW st, GoodT(x, p, d0, st), NEW o, NEW row, NEW sources, NEW targets
  PROVE  GoodT(x, p, d0, NewHyperedge(st, o, row, sources, targets))
<1> DEFINE edge == [type |-> NameOr(FirstOf(o.labels), ""), sources |-> sources, targets |-> targets]
           to == BindOpt(row, o.variable, <<"Hyperedge", st.db.next.hyperedge>>)
           c == AddHyperedge(st.db, edge)
           made == [st EXCEPT !.db = AddHyperedge(@, edge), !.rows = <<to>>]
<1> HIDE DEF edge, to
<1>1. IsThread(made) /\ made.db = c
  BY DEF GoodT, IsThread, ThreadKeys
<1>2. Good(x, p, d0, c)
  BY GroupGood DEF GoodT
<1> HIDE DEF c, made
<1>3. GoodT(x, p, d0, made)
  BY <1>1, <1>2 DEF GoodT
<1> QED BY <1>3, FailGood DEF NewHyperedge, made, edge, to

LEMMA CreateHyperedgeGood ==
  ASSUME NEW x, NEW p, NEW d0, NEW st, GoodT(x, p, d0, st), NEW o
  PROVE  GoodT(x, p, d0, CreateHyperedge(st, o))
<1> DEFINE row == IF st.rows = <<>> THEN EmptyRow ELSE st.rows[1]
           sources == ParticipantsIn(o.sources, row, st.db)
           targets == ParticipantsIn(o.targets, row, st.db)
<1> HIDE DEF sources, targets, row
<1>1. GoodT(x, p, d0, NewHyperedge(st, o, row, sources, targets))
  BY NewHyperedgeGood
<1> QED BY <1>1 DEF CreateHyperedge, HyperedgeFor, row, sources, targets

LEMMA ReadStepGood ==
  ASSUME NEW x, NEW p, NEW d0, NEW st, GoodT(x, p, d0, st), NEW o
  PROVE  GoodT(x, p, d0, ReadStep(st, o))
<1> DEFINE result == ReadBy(Rows(st.rows), <<o>>, st.db)
           rows == result.rows
           a == [st EXCEPT !.rows = rows]
<1> HIDE DEF rows
<1>1. Sets(a, st, "rows", rows)
  BY DEF Sets, ThreadKeys
<1> HIDE DEF a, result
<1>2. GoodT(x, p, d0, a)
  BY <1>1, SetOther
<1>3. GoodT(x, p, d0, Took(st, result))
  BY <1>2, FailGood DEF Took, a, rows
<1> QED BY <1>3 DEF ReadStep, result

LEMMA NextOpGood ==
  ASSUME NEW x, NEW p, NEW d0, NEW st, GoodT(x, p, d0, st), NEW o, o.op = "DeleteOp" => x = TRUE
  PROVE  GoodT(x, p, d0, NextOp(st, o))
<1>1. CASE o.op \in PerRowOps
  <2>1. GoodT(x, p, d0, PerRow(st, o))
    BY <1>1, PerRowGood
  <2> QED BY <1>1, <2>1 DEF NextOp, ExecuteOp, PerRowOps
<1>2. CASE o.op = "DeleteOp"
  <2>1. GoodT(x, p, d0, DeleteAll(st, o))
    BY <1>2, DeleteAllGood
  <2> QED BY <1>2, <2>1 DEF NextOp, ExecuteOp
<1>3. CASE o.op \notin PerRowOps /\ o.op # "DeleteOp"
  BY <1>3, CreateSnapshotGood, CreateHyperedgeGood, ReadStepGood DEF NextOp, ExecuteOp, PerRowOps
<1> QED BY <1>1, <1>2, <1>3

LEMMA ExecuteOnRuns ==
  ASSUME NEW st, NEW seq, NEW n \in Nat
  PROVE  \E f : f = [k \in 0..n |-> IF k = 0 THEN st ELSE NextOp(f[k - 1], seq[k])]
<1> DEFINE Runs(f, m) == f = [k \in 0..m |-> IF k = 0 THEN st ELSE NextOp(f[k - 1], seq[k])]
           S == {m \in Nat : \E f : Runs(f, m)}
<1>1. 0 \in S
  <2> DEFINE f == [k \in 0..0 |-> st]
  <2>1. Runs(f, 0)
    OBVIOUS
  <2> QED BY <2>1
<1>2. ASSUME NEW m \in Nat, m \in S  PROVE m + 1 \in S
  <2>1. PICK f : Runs(f, m)
    BY <1>2
  <2> DEFINE h == [k \in 0..(m + 1) |-> IF k = m + 1 THEN NextOp(f[m], seq[m + 1]) ELSE f[k]]
  <2>2. ASSUME NEW k \in 0..(m + 1)  PROVE h[k] = IF k = 0 THEN st ELSE NextOp(h[k - 1], seq[k])
    <3>1. CASE k = 0
      BY <2>1, <3>1
    <3>2. CASE k = m + 1
      BY <2>1, <3>2
    <3>3. CASE k \in 1..m
      BY <2>1, <3>3
    <3> QED BY <3>1, <3>2, <3>3
  <2>3. Runs(h, m + 1)
    BY <2>2
  <2> HIDE DEF Runs, h
  <2> QED BY <2>3
<1>3. n \in S
  <2> HIDE DEF S
  <2> QED BY <1>1, <1>2, Induct
<1> QED BY <1>3

LEMMA ExecuteOnGood ==
  ASSUME NEW x, NEW p, NEW d0, NEW st, GoodT(x, p, d0, st), NEW plan, HasDelete(plan) => x = TRUE
  PROVE  GoodT(x, p, d0, ExecuteOn(st, plan))
<1> DEFINE n == Count(plan)
           run == CHOOSE f : f = [k \in 0..n |-> IF k = 0 THEN st ELSE NextOp(f[k - 1], plan[k])]
           S == {m \in Nat : m <= n => GoodT(x, p, d0, run[m])}
<1>1. n \in Nat
  BY DEF Count
<1>2. ExecuteOn(st, plan) = run[n]
  BY DEF ExecuteOn
<1>8. \A k \in 1..n : plan[k].op = "DeleteOp" => x = TRUE
  BY DEF HasDelete
<1> HIDE DEF n
<1>3. run = [k \in 0..n |-> IF k = 0 THEN st ELSE NextOp(run[k - 1], plan[k])]
  BY <1>1, ExecuteOnRuns
<1> HIDE DEF run
<1>4. 0 \in S
  BY <1>1, <1>3
<1>5. ASSUME NEW m \in Nat, m \in S, m + 1 <= n  PROVE GoodT(x, p, d0, run[m + 1])
  <2>1. GoodT(x, p, d0, run[m])
    BY <1>1, <1>5
  <2> DEFINE r == run[m]
             e == plan[m + 1]
  <2>2. run[m + 1] = NextOp(r, e)
    BY <1>1, <1>3, <1>5
  <2>4. e.op = "DeleteOp" => x = TRUE
    BY <1>1, <1>5, <1>8
  <2> HIDE DEF r, e
  <2>3. GoodT(x, p, d0, r)
    BY <2>1 DEF r
  <2> QED BY <2>2, <2>3, <2>4, NextOpGood
<1>6. \A m \in Nat : m \in S => m + 1 \in S
  BY <1>5
<1>7. n \in S
  <2> HIDE DEF S
  <2> QED BY <1>1, <1>4, <1>6, Induct
<1> QED BY <1>1, <1>2, <1>7

-----------------------------------------------------------------------------
(* Statements.                                                             *)

LEMMA BeginGood ==
  ASSUME NEW p, NEW d, WellKept(d), PastKept(p, d), NEW x
  PROVE  Good(x, p, d, d)
BY DEF Good, KeptOf, Tells, WellKept, IsDb, IdsGiven

LEMMA ExecuteGood ==
  ASSUME NEW p, NEW d, WellKept(d), PastKept(p, d), NEW plan, NEW n
  PROVE  Good(HasDelete(plan), p, d, Execute(plan, d, n).db)
<1> DEFINE x == HasDelete(plan)
           st == Thread(d, n)
<1>1. x => x = TRUE
  BY DEF HasDelete
<1> HIDE DEF x
<1>2. IsThread(st) /\ st.db = d
  BY DEF Thread, IsThread, ThreadKeys
<1> HIDE DEF st
<1>3. GoodT(x, p, d, st)
  BY <1>2, BeginGood DEF GoodT
<1>4. GoodT(x, p, d, ExecuteOn(st, plan))
  BY <1>1, <1>3, ExecuteOnGood DEF x
<1> QED BY <1>4 DEF GoodT, Execute, st, x

-----------------------------------------------------------------------------
(* The specification.                                                      *)

\* The inductive invariant.
IInv == WellKept(db) /\ PastKept(past, db) /\ IsSeq(past) /\ Len(past) = db.clock - 1

LEMMA InitIInv == Init => IInv
<1> SUFFICES ASSUME Init  PROVE IInv
  OBVIOUS
<1>1. WellKept(db) /\ db.clock = 1 /\ past = <<>>
  BY DatabasesAssumption DEF Init
<1>2. IsSeq(past) /\ Len(past) = 0 /\ DOMAIN past = {}
  BY <1>1 DEF IsSeq
<1>3. DOMAIN past = 1..(db.clock - 1)
  BY <1>1, <1>2
<1>4. PastKept(past, db)
  BY <1>2, <1>3 DEF PastKept, RecalledAll
<1> QED BY <1>1, <1>2, <1>4 DEF IInv

LEMMA RunIs ==
  ASSUME IInv, NEW clauses, NEW plan, Run1(clauses, plan)
  PROVE  Good(HasDelete(plan), past, db, db') /\ past' = past /\ last'.plan = plan
<1> DEFINE end == Execute(plan, db, fuse)
<1>1. Good(HasDelete(plan), past, db, end.db)
  BY ExecuteGood DEF IInv
<1> HIDE DEF end
<1>2. db' = end.db /\ past' = past /\ last'.plan = plan
  BY DEF Run1, end
<1> QED BY <1>1, <1>2

LEMMA TickIs ==
  ASSUME IInv, Tick
  PROVE  /\ db'.nodes = db.nodes /\ db'.edges = db.edges /\ db'.versions = db.versions /\ db'.next = db.next
         /\ db'.clock = db.clock + 1 /\ IsDb(db') /\ past' = Append(past, db.nodes)
<1>1. IsDb(db)
  BY DEF IInv, WellKept
<1> DEFINE c == db.clock + 1
<1>2. db' = [db EXCEPT !.clock = c] /\ past' = Append(past, db.nodes)
  BY DEF Tick
<1>3. c \in Nat \ {0}
  BY <1>1 DEF IsDb
<1> HIDE DEF c
<1>4. db' = [k \in DbKeys |-> IF k = "clock" THEN c ELSE db[k]]
  BY <1>1, <1>2, DbIs DEF DbKeys
<1>5. db' = [k \in DbKeys |-> db'[k]] /\ db'.clock = c /\ db'.next = db.next /\ db'.nodes = db.nodes
      /\ db'.edges = db.edges /\ db'.versions = db.versions
  BY <1>4 DEF DbKeys
<1>6. \A d : d = [k \in DbKeys |-> d[k]] /\ d.clock = c /\ d.next = db.next => IsDb(d)
  BY <1>1, <1>3, DbIs
<1>7. IsDb(db')
  BY <1>5, <1>6
<1> QED BY <1>2, <1>5, <1>7 DEF c

LEMMA TickKeeps ==
  ASSUME IInv, Tick
  PROVE  IInv'
<1> DEFINE e == db'
           q == past'
           c == db.clock
<1>1. /\ WellKept(db) /\ PastKept(past, db) /\ IsSeq(past) /\ Len(past) = c - 1 /\ c \in Nat \ {0}
  BY DEF IInv, WellKept, IsDb
<1>2. /\ e.nodes = db.nodes /\ e.edges = db.edges /\ e.versions = db.versions /\ e.next = db.next
      /\ e.clock = c + 1 /\ IsDb(e) /\ IsAppended(q, past, db.nodes)
  BY <1>1, TickIs, AppendIs
<1> HIDE DEF e, q, c
<1>3. \A props : Dated(props, c) => Dated(props, c + 1)
  BY <1>1 DEF Dated, IsStamp
<1>4. db.clock = c
  BY DEF c
<1>5. IdsGiven(e) /\ EndsExist(e)
  BY <1>1, <1>2 DEF WellKept, IdsGiven, EndsExist
<1>6. NodesDated(e) /\ EdgesDated(e)
  BY <1>1, <1>2, <1>3, <1>4 DEF WellKept, NodesDated, EdgesDated
<1>7. VersionsDated(e)
  <2>1. \A chain : AllDated(chain, c) => AllDated(chain, c + 1)
    BY <1>3 DEF AllDated
  <2>2. \A id \in DOMAIN db.versions : AllDated(db.versions[id], c)
    BY <1>1, <1>4, VersionsDatedIs DEF WellKept
  <2> QED BY <1>2, <2>1, <2>2, VersionsDatedIs
<1>8. IsSeq(q) /\ Len(q) = c /\ q[c] = db.nodes /\ \A t \in 1..(c - 1) : q[t] = past[t]
  BY <1>1, <1>2 DEF IsAppended
<1>9. DOMAIN q = 1..c
  BY <1>8 DEF IsSeq
<1>10. \A id : Versions(id, e) = Versions(id, db)
  BY <1>2 DEF Versions
<1>11. ASSUME NEW t \in DOMAIN q
       PROVE  /\ DOMAIN q[t] \subseteq 0..(e.next.node - 1)
              /\ \A id \in DOMAIN e.nodes :
                   IF id \in DOMAIN q[t] THEN Recalled(q[t][id], e.nodes[id], Versions(id, e), t) ELSE MadeAt(e.nodes[id]) > t
  <2>1. CASE t = c
    <3>1. q[t] = db.nodes
      BY <1>8, <2>1
    <3>2. ASSUME NEW id \in DOMAIN db.nodes  PROVE Recalled(db.nodes[id], db.nodes[id], Versions(id, e), t)
      <4>1. Dated(db.nodes[id].props, c)
        BY <1>1, <1>4 DEF WellKept, NodesDated
      <4>2. MadeAt(db.nodes[id]) <= c /\ ChangedAt(db.nodes[id]) <= c
        <5> DEFINE n == db.nodes[id]
        <5>1. Dated(n.props, c)
          BY <4>1
        <5>2. c \in Nat
          BY <1>1
        <5> HIDE DEF n
        <5>3. MadeAt(n) <= c /\ ChangedAt(n) <= c
          BY ONLY <5>1, <5>2, DatedIs
        <5> QED BY <5>3 DEF n
      <4> QED BY <2>1, <4>2 DEF Recalled
    <3> QED BY <1>1, <1>2, <3>1, <3>2 DEF WellKept, IdsGiven
  <2>2. CASE t # c
    <3>1. t \in 1..(c - 1) /\ q[t] = past[t] /\ DOMAIN past = 1..(c - 1)
      BY <1>1, <1>4, <1>8, <1>9, <2>2 DEF PastKept
    <3> QED BY <1>1, <1>2, <1>10, <3>1 DEF PastKept, RecalledAll
  <2> QED BY <2>1, <2>2
<1>12. DOMAIN q = 1..(e.clock - 1)
  BY <1>1, <1>2, <1>9
<1>13. PastKept(q, e)
  BY <1>11, <1>12 DEF PastKept, RecalledAll
<1>14. WellKept(e) /\ Len(q) = e.clock - 1
  BY <1>1, <1>2, <1>5, <1>6, <1>7, <1>8 DEF WellKept
<1> QED BY <1>8, <1>13, <1>14 DEF IInv, e, q

LEMMA StepIInv == IInv /\ [Next]_vars => IInv'
<1> SUFFICES ASSUME IInv, [Next]_vars  PROVE IInv'
  OBVIOUS
<1>1. CASE Tick
  BY <1>1, TickKeeps
<1>2. ASSUME NEW clauses, NEW plan, Run1(clauses, plan)  PROVE IInv'
  <2>1. Good(HasDelete(plan), past, db, db') /\ past' = past
    BY <1>2, RunIs
  <2>2. WellKept(db') /\ PastKept(past', db') /\ db'.clock = db.clock
    BY <2>1 DEF Good
  <2> QED BY <2>1, <2>2 DEF IInv
<1>3. CASE UNCHANGED vars
  BY <1>3 DEF vars, IInv
<1> QED BY <1>1, <1>2, <1>3 DEF Next

\* Engines stay well kept, with ids given once, time stamps in order and no edge dangling, and for
\* every moment over the state each node had then is among its versions.
THEOREM EngineInv == Spec => []IInv
  BY InitIInv, StepIInv, PTL DEF Spec

LEMMA NodeAtIs ==
  ASSUME NEW d, WellKept(d), NEW p, PastKept(p, d), NEW t \in DOMAIN p, NEW id \in DOMAIN d.nodes
  PROVE  NodeAt(id, t, d) = IF id \in DOMAIN p[t] THEN <<p[t][id]>> ELSE <<>>
<1> DEFINE n == d.nodes[id]
           chain == Versions(id, d)
           early == {k \in DOMAIN chain : StampBy(chain[k], t)}
           created == At(n.props, "_created_at")
<1>1. d.clock \in Nat \ {0} /\ t \in Nat /\ Dated(n.props, d.clock)
  BY DEF WellKept, IsDb, NodesDated, PastKept
<1>2. created = <<"DateTime", MadeAt(n)>> /\ created # Null /\ created[2] = MadeAt(n) /\ MadeAt(n) \in Nat
      /\ ChangedAt(n) \in Nat /\ (StampBy(n, t) <=> ChangedAt(n) <= t)
  <2>1. /\ "_created_at" \in DOMAIN n.props /\ n.props["_created_at"] = <<"DateTime", MadeAt(n)>>
        /\ MadeAt(n) \in Nat /\ ChangedAt(n) \in Nat
    BY <1>1, DatedIs
  <2>2. StampBy(n, t) <=> ChangedAt(n) <= t
    BY <1>1, StampIs
  <2> HIDE DEF n
  <2> QED BY <2>1, <2>2 DEF At, Null
<1>3. NodeAt(id, t, d) = IF MadeAt(n) > t THEN <<>>
                         ELSE IF ChangedAt(n) <= t THEN <<n>>
                         ELSE IF early # {} THEN <<chain[Newest(early)]>>
                         ELSE NodeAt(id, t, d)
  <2> HIDE DEF chain, n
  <2>1. DOMAIN d.nodes = DOMAIN d.nodes /\ id \in DOMAIN d.nodes
    OBVIOUS
  <2> QED BY <1>2, <2>1 DEF NodeAt, chain, n
<1>4. IF id \in DOMAIN p[t] THEN Recalled(p[t][id], n, chain, t) ELSE MadeAt(n) > t
  BY DEF PastKept, RecalledAll
<1>5. CASE id \notin DOMAIN p[t]
  BY <1>3, <1>4, <1>5
<1>6. CASE id \in DOMAIN p[t] /\ ChangedAt(n) <= t
  <2>1. MadeAt(n) <= t /\ n = p[t][id]
    BY <1>1, <1>2, <1>4, <1>6 DEF Recalled
  <2> QED BY <1>1, <1>2, <1>3, <1>6, <2>1
<1>7. CASE id \in DOMAIN p[t] /\ ~ (ChangedAt(n) <= t)
  <2>1. MadeAt(n) <= t /\ LastBy(chain, p[t][id], t)
    BY <1>1, <1>2, <1>4, <1>7 DEF Recalled
  <2>2. PICK k \in 1..Len(chain) : /\ chain[k] = p[t][id] /\ ChangedAt(chain[k]) <= t
                                   /\ \A j \in 1..Len(chain) : j > k => ChangedAt(chain[j]) > t
    BY <2>1 DEF LastBy
  <2>3. IsSeq(chain) /\ \A j \in 1..Len(chain) : Dated(chain[j].props, d.clock)
    BY VersionsIs DEF WellKept
  <2> HIDE DEF chain
  <2>4. DOMAIN chain = 1..Len(chain) /\ Len(chain) \in Nat
    BY <2>3 DEF IsSeq
  <2>5. \A j \in 1..Len(chain) : ChangedAt(chain[j]) \in Nat /\ (StampBy(chain[j], t) <=> ChangedAt(chain[j]) <= t)
    BY <1>1, <2>3, DatedIs, StampIs
  <2>6. k \in early /\ \A j \in early : j <= k
    <3>1. k \in early
      BY <2>2, <2>4, <2>5
    <3>2. ASSUME NEW j \in early  PROVE j <= k
      <4>1. j \in 1..Len(chain) /\ ChangedAt(chain[j]) <= t /\ ChangedAt(chain[j]) \in Nat
        BY <2>4, <2>5
      <4>2. ~ (j > k)
        BY <1>1, <2>2, <4>1
      <4> QED BY <2>2, <2>4, <4>1, <4>2
    <3> QED BY <3>1, <3>2
  <2>7. early \subseteq Nat
    BY <2>4
  <2> HIDE DEF early
  <2>8. Newest(early) = k
    <3>1. ASSUME NEW m \in early, \A j \in early : j <= m  PROVE m = k
      <4>1. m <= k /\ k <= m /\ m \in Nat /\ k \in Nat
        BY <2>6, <2>7, <3>1
      <4> QED BY <4>1
    <3>2. \E m \in early : \A j \in early : j <= m
      BY <2>6
    <3> QED BY <3>1, <3>2 DEF Newest
  <2>9. early # {}
    BY <2>6
  <2> QED BY <1>1, <1>2, <1>3, <1>7, <2>1, <2>2, <2>8, <2>9
<1> QED BY <1>5, <1>6, <1>7

\* find_node_state_at answers for every moment over the very state a node had then.
THEOREM PastIsFound == Spec => []PastFound
<1>1. IInv => PastFound
  BY NodeAtIs DEF IInv, PastFound
<1> QED BY <1>1, EngineInv, PTL

\* No statement leaves an edge without its ends.
THEOREM EdgesStayAttached == Spec => []EdgesAttached
<1>1. IInv => EdgesAttached
  BY DEF IInv, WellKept, EdgesAttached
<1> QED BY <1>1, EngineInv, PTL

\* Whatever a statement does, it stamps with the time of now what it changes, and leaves the time
\* of creation.
THEOREM StampsTellTheTruth == Spec => StampsTell
<1>1. ASSUME IInv, [Next]_vars
      PROVE  [Tells(db.nodes, db'.nodes, db.clock) /\ Tells(db.edges, db'.edges, db.clock)]_vars
  <2>1. CASE Tick
    BY <1>1, <2>1, TickIs DEF Tells
  <2>2. ASSUME NEW clauses, NEW plan, Run1(clauses, plan)
        PROVE  Tells(db.nodes, db'.nodes, db.clock) /\ Tells(db.edges, db'.edges, db.clock)
    <3>1. Good(HasDelete(plan), past, db, db')
      BY <1>1, <2>2, RunIs
    <3> QED BY <3>1 DEF Good, KeptOf
  <2> QED BY <1>1, <2>1, <2>2 DEF Next
<1> QED BY <1>1, EngineInv, PTL DEF Spec, StampsTell

\* Only a plan with DELETE takes nodes or edges away, and ids are given once.
THEOREM DeletesDelete == Spec => OnlyDeletesDelete
<1> DEFINE A == /\ \/ HasDelete(last'.plan)
                   \/ DOMAIN db.nodes \subseteq DOMAIN db'.nodes /\ DOMAIN db.edges \subseteq DOMAIN db'.edges
                /\ DOMAIN db'.nodes \ DOMAIN db.nodes \subseteq db.next.node..(db'.next.node - 1)
                /\ DOMAIN db'.edges \ DOMAIN db.edges \subseteq db.next.edge..(db'.next.edge - 1)
                /\ db.next.node <= db'.next.node /\ db.next.edge <= db'.next.edge
<1>1. ASSUME IInv, [Next]_vars  PROVE [A]_vars
  <2>1. CASE Tick
    <3>1. db.next.node \in Nat /\ db.next.edge \in Nat
      BY <1>1 DEF IInv, WellKept, IsDb
    <3>2. db'.nodes = db.nodes /\ db'.edges = db.edges /\ db'.next = db.next
      BY <1>1, <2>1, TickIs
    <3> QED BY <3>1, <3>2
  <2>2. ASSUME NEW clauses, NEW plan, Run1(clauses, plan)  PROVE A
    <3>1. Good(HasDelete(plan), past, db, db') /\ last'.plan = plan
      BY <1>1, <2>2, RunIs
    <3> QED BY <3>1 DEF Good, KeptOf
  <2> QED BY <1>1, <2>1, <2>2 DEF Next
<1> QED BY <1>1, EngineInv, PTL DEF Spec, OnlyDeletesDelete

-----------------------------------------------------------------------------
(* Sequences. *)

In(v, s) == \E k \in 1..Len(s) : s[k] = v

LEMMA ConcatIs ==
  ASSUME NEW s, IsSeq(s), NEW t, IsSeq(t)
  PROVE  IsSeq(s \o t) /\ \A v : In(v, s \o t) <=> In(v, s) \/ In(v, t)
<1> DEFINE S == {s[k] : k \in 1..Len(s)} \cup {t[k] : k \in 1..Len(t)}
           r == s \o t
<1>1. s \in Seq(S) /\ t \in Seq(S) /\ Len(s) \in Nat /\ Len(t) \in Nat
  BY DEF IsSeq
<1> HIDE DEF S
<1>2. /\ r \in Seq(S) /\ Len(r) = Len(s) + Len(t)
      /\ \A k \in 1..(Len(s) + Len(t)) : r[k] = IF k <= Len(s) THEN s[k] ELSE t[k - Len(s)]
  BY <1>1, ConcatProperties
<1> HIDE DEF r
<1>3. Len(r) \in Nat /\ r \in [1..Len(r) -> S]
  BY <1>2, LenProperties
<1>4. IsSeq(r)
  <2>1. r = [k \in 1..Len(r) |-> r[k]]
    BY <1>3
  <2> QED BY <1>3, <2>1 DEF IsSeq
<1>5. ASSUME NEW v, In(v, r)  PROVE In(v, s) \/ In(v, t)
  <2>1. PICK k \in 1..Len(r) : r[k] = v
    BY <1>5 DEF In
  <2>2. CASE k <= Len(s)
    BY <1>1, <1>2, <2>1, <2>2 DEF In
  <2>3. CASE k > Len(s)
    <3>1. k - Len(s) \in 1..Len(t) /\ t[k - Len(s)] = v
      BY <1>1, <1>2, <2>1, <2>3
    <3> QED BY <3>1 DEF In
  <2> QED BY <1>1, <2>1, <2>2, <2>3
<1>6. ASSUME NEW v, In(v, s)  PROVE In(v, r)
  <2>1. PICK k \in 1..Len(s) : s[k] = v
    BY <1>6 DEF In
  <2>2. k \in 1..Len(r) /\ r[k] = v
    BY <1>1, <1>2, <2>1
  <2> QED BY <2>2 DEF In
<1>7. ASSUME NEW v, In(v, t)  PROVE In(v, r)
  <2>1. PICK k \in 1..Len(t) : t[k] = v
    BY <1>7 DEF In
  <2>2. Len(s) + k \in 1..Len(r) /\ ~ (Len(s) + k <= Len(s)) /\ Len(s) + k - Len(s) = k
    BY <1>1, <1>2, <2>1
  <2>3. r[Len(s) + k] = v
    BY <1>1, <1>2, <2>1, <2>2
  <2> QED BY <2>2, <2>3 DEF In
<1> QED BY <1>4, <1>5, <1>6, <1>7 DEF r

Pieces(ss) == IsSeq(ss) /\ \A k \in 1..Len(ss) : IsSeq(ss[k])

LEMMA FlattenRuns ==
  ASSUME NEW ss, NEW n \in Nat
  PROVE  \E f : f = [i \in 1..n |-> IF i = 1 THEN ss[i] ELSE f[i - 1] \o ss[i]]
<1> DEFINE Runs(f, m) == f = [i \in 1..m |-> IF i = 1 THEN ss[i] ELSE f[i - 1] \o ss[i]]
           S == {m \in Nat : \E f : Runs(f, m)}
<1>1. 0 \in S
  <2> DEFINE f == [i \in 1..0 |-> ss]
  <2>1. Runs(f, 0)
    OBVIOUS
  <2> QED BY <2>1
<1>2. ASSUME NEW m \in Nat, m \in S  PROVE m + 1 \in S
  <2>1. PICK f : Runs(f, m)
    BY <1>2
  <2> DEFINE here == IF m + 1 = 1 THEN ss[m + 1] ELSE f[m] \o ss[m + 1]
             h == [i \in 1..(m + 1) |-> IF i = m + 1 THEN here ELSE f[i]]
  <2>2. ASSUME NEW i \in 1..(m + 1)  PROVE h[i] = IF i = 1 THEN ss[i] ELSE h[i - 1] \o ss[i]
    <3>1. CASE i = m + 1
      <4> HIDE DEF here
      <4>1. h[i] = here
        BY <3>1
      <4>2. CASE i = 1
        BY <3>1, <4>1, <4>2 DEF here
      <4>3. CASE i # 1
        <5>1. i - 1 = m /\ m \in 1..(m + 1) /\ m # m + 1
          BY <3>1, <4>3
        <5>2. h[i - 1] = f[m]
          BY <5>1
        <5> QED BY <3>1, <4>1, <4>3, <5>1, <5>2 DEF here
      <4> QED BY <4>2, <4>3
    <3>2. CASE i \in 1..m
      <4> HIDE DEF here
      <4>1. h[i] = f[i] /\ (i # 1 => h[i - 1] = f[i - 1])
        BY <3>2
      <4>2. f[i] = IF i = 1 THEN ss[i] ELSE f[i - 1] \o ss[i]
        BY <2>1, <3>2
      <4> QED BY <4>1, <4>2
    <3> QED BY <3>1, <3>2
  <2>3. Runs(h, m + 1)
    BY <2>2
  <2> HIDE DEF Runs, h
  <2> QED BY <2>3
<1>3. n \in S
  <2> HIDE DEF S
  <2> QED BY <1>1, <1>2, Induct
<1> QED BY <1>3

LEMMA FlattenIs ==
  ASSUME NEW ss, Pieces(ss)
  PROVE  IsSeq(FlattenSeq(ss)) /\ \A v : In(v, FlattenSeq(ss)) <=> \E k \in 1..Len(ss) : In(v, ss[k])
<1> DEFINE n == Len(ss)
           f == CHOOSE f : f = [i \in 1..n |-> IF i = 1 THEN ss[i] ELSE f[i - 1] \o ss[i]]
           Is(r, m) == IsSeq(r) /\ \A v : In(v, r) <=> \E k \in 1..m : In(v, ss[k])
           S == {m \in Nat : m + 1 <= n => Is(f[m + 1], m + 1)}
<1>1. n \in Nat
  BY DEF Pieces, IsSeq
<1>2. CASE n = 0
  <2>1. FlattenSeq(ss) = ss
    BY <1>2 DEF FlattenSeq
  <2> QED BY <1>2, <2>1 DEF Pieces, In
<1>3. CASE n # 0
  <2>1. FlattenSeq(ss) = f[n]
    BY <1>3 DEF FlattenSeq
  <2> HIDE DEF n
  <2>2. f = [i \in 1..n |-> IF i = 1 THEN ss[i] ELSE f[i - 1] \o ss[i]]
    BY <1>1, FlattenRuns
  <2> HIDE DEF f
  <2>3. \A k \in 1..n : IsSeq(ss[k])
    BY DEF Pieces, n
  <2>4. 0 \in S
    <3>1. f[1] = ss[1] /\ IsSeq(ss[1])
      BY <1>1, <1>3, <2>2, <2>3
    <3>2. Is(ss[1], 1)
      BY <3>1
    <3> QED BY <3>1, <3>2
  <2>5. ASSUME NEW m \in Nat, m \in S, m + 2 <= n  PROVE Is(f[m + 2], m + 2)
    <3>1. Is(f[m + 1], m + 1)
      BY <1>1, <2>5
    <3> DEFINE j == m + 2
               r == f[m + 1]
               s == ss[j]
    <3>a. j \in 1..n /\ j # 1 /\ j - 1 = m + 1
      BY <1>1, <2>5
    <3>b. ASSUME NEW i \in 1..n, i # 1  PROVE f[i] = f[i - 1] \o ss[i]
      BY <2>2, <3>b
    <3>c. f[j] = f[j - 1] \o ss[j]
      <4> HIDE DEF j, r, s
      <4> QED BY <3>a, <3>b
    <3>2. f[j] = r \o s /\ IsSeq(s)
      <4> HIDE DEF j
      <4> QED BY <2>3, <3>a, <3>c
    <3>3. IsSeq(r)
      BY <3>1
    <3> HIDE DEF r, s
    <3>4. IsSeq(r \o s) /\ \A v : In(v, r \o s) <=> In(v, r) \/ In(v, s)
      BY <3>2, <3>3, ConcatIs
    <3>5. ASSUME NEW v  PROVE In(v, r \o s) <=> \E k \in 1..(m + 2) : In(v, ss[k])
      <4>1. In(v, r) <=> \E k \in 1..(m + 1) : In(v, ss[k])
        BY <3>1 DEF r
      <4>2. (\E k \in 1..(m + 2) : In(v, ss[k])) <=> (\E k \in 1..(m + 1) : In(v, ss[k])) \/ In(v, ss[m + 2])
        OBVIOUS
      <4> QED BY <3>4, <4>1, <4>2 DEF s
    <3> QED BY <3>2, <3>4, <3>5
  <2>6. \A m \in Nat : m \in S => m + 1 \in S
    <3> SUFFICES ASSUME NEW m \in Nat, m \in S, m + 2 <= n  PROVE Is(f[m + 1 + 1], m + 1 + 1)
      BY <1>1
    <3>1. m + 1 + 1 = m + 2
      OBVIOUS
    <3> HIDE DEF Is, S
    <3> QED BY <2>5, <3>1
  <2>7. n - 1 \in S /\ n - 1 \in Nat /\ n - 1 + 1 = n
    <3>1. n - 1 \in Nat
      BY <1>1, <1>3
    <3> HIDE DEF S
    <3> QED BY <1>1, <2>4, <2>6, <3>1, Induct
  <2>8. Is(f[n], n)
    BY <2>7
  <2> QED BY <2>1, <2>8 DEF n
<1> QED BY <1>2, <1>3

IsUpTo(f, n) == f = [k \in 1..n |-> f[k]]

LEMMA UpToIsSeq ==
  ASSUME NEW n \in Nat, NEW f, IsUpTo(f, n)
  PROVE  IsSeq(f) /\ Len(f) = n
<1> DEFINE S == {f[k] : k \in 1..n}
<1>1. f \in [1..n -> S]
  BY DEF IsUpTo
<1> HIDE DEF S
<1>2. f \in Seq(S)
  BY <1>1, SeqDef
<1>3. Len(f) \in Nat /\ DOMAIN f = 1..Len(f)
  BY <1>2, LenProperties
<1> DEFINE m == Len(f)
<1>5. m \in Nat /\ 1..m = 1..n
  BY <1>1, <1>3
<1> HIDE DEF m
<1>6. m <= n
  <2>1. CASE m = 0
    BY <1>5, <2>1
  <2>2. CASE m # 0
    <3>1. m \in 1..m
      BY <1>5, <2>2
    <3> QED BY <1>5, <3>1
  <2> QED BY <2>1, <2>2
<1>7. n <= m
  <2>1. CASE n = 0
    BY <1>5, <2>1
  <2>2. CASE n # 0
    <3>1. n \in 1..n
      BY <2>2
    <3> QED BY <1>5, <3>1
  <2> QED BY <2>1, <2>2
<1>4. Len(f) = n
  BY <1>5, <1>6, <1>7 DEF m
<1> QED BY <1>4 DEF IsSeq, IsUpTo

LEMMA Singles ==
  ASSUME NEW v
  PROVE  IsSeq(<<v>>) /\ IsSeq(<<>>) /\ \A w : (In(w, <<v>>) <=> w = v) /\ ~ In(w, <<>>)
<1>1. Len(<<v>>) = 1 /\ <<v>>[1] = v /\ Len(<<>>) = 0
  OBVIOUS
<1>2. <<v>> = [k \in 1..1 |-> <<v>>[k]]
  OBVIOUS
<1>3. <<>> = [k \in 1..0 |-> <<>>[k]]
  OBVIOUS
<1> QED BY <1>1, <1>2, <1>3 DEF IsSeq, In

LEMMA DeduplicateIs ==
  ASSUME NEW s, IsSeq(s)
  PROVE  IsSeq(Deduplicate(s)) /\ \A v : In(v, Deduplicate(s)) <=> In(v, s)
<1> DEFINE ss == [k \in DOMAIN s |-> IF Repeated(s, k) THEN <<>> ELSE <<s[k]>>]
           n == Len(s)
<1>1. n \in Nat /\ DOMAIN s = 1..n
  BY DEF IsSeq
<1>2. IsSeq(ss) /\ Len(ss) = n
  <2>1. IsUpTo(ss, n)
    BY <1>1 DEF IsUpTo
  <2> HIDE DEF ss, n
  <2> QED BY <1>1, <2>1, UpToIsSeq
<1>3. \A k \in 1..n : ss[k] = IF Repeated(s, k) THEN <<>> ELSE <<s[k]>>
  BY <1>1
<1> HIDE DEF ss
<1>a. ASSUME NEW k \in 1..n
      PROVE  IsSeq(ss[k]) /\ \A v : In(v, ss[k]) <=> ~ Repeated(s, k) /\ v = s[k]
  <2> DEFINE one == <<s[k]>>
             none == <<>>
  <2>1. IsSeq(one) /\ IsSeq(none) /\ \A w : (In(w, one) <=> w = s[k]) /\ ~ In(w, none)
    BY Singles
  <2>2. ss[k] = IF Repeated(s, k) THEN none ELSE one
    BY <1>3
  <2> HIDE DEF one, none
  <2> QED BY <2>1, <2>2
<1>4. Pieces(ss)
  BY <1>2, <1>a DEF Pieces
<1>5. IsSeq(FlattenSeq(ss)) /\ \A v : In(v, FlattenSeq(ss)) <=> \E k \in 1..n : In(v, ss[k])
  BY <1>2, <1>4, FlattenIs
<1>6. ASSUME NEW v, NEW k \in 1..n, In(v, ss[k])  PROVE In(v, s)
  <2>1. v = s[k]
    BY <1>a, <1>6
  <2> QED BY <2>1 DEF In
<1>7. ASSUME NEW v, In(v, s)  PROVE \E k \in 1..n : In(v, ss[k])
  <2> DEFINE S == {k \in 1..n : s[k] = v}
  <2>1. S \in SUBSET Nat /\ S # {}
    BY <1>7 DEF In
  <2>2. PICK k \in S : \A j \in S : k <= j
    <3> HIDE DEF S
    <3> QED BY <2>1, LeastExists
  <2>3. ~ Repeated(s, k)
    <3>1. ASSUME NEW j \in 1..(k - 1), s[j] = s[k]  PROVE FALSE
      <4>1. j \in S /\ ~ (k <= j)
        BY <1>1, <2>2, <3>1
      <4> QED BY <2>2, <4>1
    <3> QED BY <3>1 DEF Repeated
  <2>4. k \in 1..n /\ s[k] = v
    BY <2>2
  <2>5. In(v, ss[k])
    BY <1>a, <2>3, <2>4
  <2> QED BY <2>4, <2>5
<1> QED BY <1>5, <1>6, <1>7 DEF Deduplicate, ss

LEMMA IdsOfIs ==
  ASSUME NEW vals, IsSeq(vals), NEW type
  PROVE  /\ IsSeq(IdsOf(type, vals))
         /\ \A id : In(id, IdsOf(type, vals)) <=> \E k \in 1..Len(vals) : Type(vals[k]) = type /\ vals[k][2] = id
<1> DEFINE ss == [k \in DOMAIN vals |-> IF Type(vals[k]) = type THEN <<vals[k][2]>> ELSE <<>>]
           n == Len(vals)
<1>1. n \in Nat /\ DOMAIN vals = 1..n
  BY DEF IsSeq
<1>2. IsSeq(ss) /\ Len(ss) = n
  <2>1. IsUpTo(ss, n)
    BY <1>1 DEF IsUpTo
  <2> HIDE DEF ss, n
  <2> QED BY <1>1, <2>1, UpToIsSeq
<1>3. \A k \in 1..n : ss[k] = IF Type(vals[k]) = type THEN <<vals[k][2]>> ELSE <<>>
  BY <1>1
<1> HIDE DEF ss
<1>a. ASSUME NEW k \in 1..n
      PROVE  IsSeq(ss[k]) /\ \A v : In(v, ss[k]) <=> Type(vals[k]) = type /\ vals[k][2] = v
  <2> DEFINE one == <<vals[k][2]>>
             none == <<>>
  <2>1. IsSeq(one) /\ IsSeq(none) /\ \A w : (In(w, one) <=> w = vals[k][2]) /\ ~ In(w, none)
    BY Singles
  <2>2. ss[k] = IF Type(vals[k]) = type THEN one ELSE none
    BY <1>3
  <2> HIDE DEF one, none
  <2> QED BY <2>1, <2>2
<1>4. Pieces(ss)
  BY <1>2, <1>a DEF Pieces
<1>5. IsSeq(FlattenSeq(ss)) /\ \A v : In(v, FlattenSeq(ss)) <=> \E k \in 1..n : In(v, ss[k])
  BY <1>2, <1>4, FlattenIs
<1> DEFINE all == FlattenSeq(ss)
<1> HIDE DEF all
<1>7. IsSeq(Deduplicate(all)) /\ \A v : In(v, Deduplicate(all)) <=> In(v, all)
  BY <1>5, DeduplicateIs DEF all
<1>8. IdsOf(type, vals) = Deduplicate(all)
  BY DEF IdsOf, all, ss
<1>9. IsSeq(IdsOf(type, vals))
  BY <1>7, <1>8
<1>10. ASSUME NEW id  PROVE In(id, all) <=> \E k \in 1..n : Type(vals[k]) = type /\ vals[k][2] = id
  BY <1>5, <1>a DEF all
<1> QED BY <1>7, <1>8, <1>9, <1>10

\* What the values to be deleted are.
LEMMA ToDeleteIs ==
  ASSUME NEW st, NEW o
  PROVE  /\ IsSeq(ToDelete(st, o))
         /\ \A v : In(v, ToDelete(st, o)) <=>
              \E j \in 1..Count(o.exprs), k \in 1..Count(st.rows) : v = ValueIn(o.exprs[j], st.rows[k], st.db)
<1> DEFINE m == Count(o.exprs)
           n == Count(st.rows)
           Row(k) == [j \in 1..m |-> ValueIn(o.exprs[j], st.rows[k], st.db)]
           ss == [k \in 1..n |-> Row(k)]
<1>1. m \in Nat /\ n \in Nat
  BY DEF Count
<1> HIDE DEF m, n
<1>2. IsSeq(ss) /\ Len(ss) = n
  <2>1. IsUpTo(ss, n)
    BY DEF IsUpTo
  <2> HIDE DEF ss
  <2> QED BY <1>1, <2>1, UpToIsSeq
<1>3. ASSUME NEW k \in 1..n
      PROVE  /\ IsSeq(ss[k])
             /\ \A v : In(v, ss[k]) <=> \E j \in 1..m : v = ValueIn(o.exprs[j], st.rows[k], st.db)
  <2> DEFINE r == ss[k]
  <2>1. r = [j \in 1..m |-> ValueIn(o.exprs[j], st.rows[k], st.db)]
    OBVIOUS
  <2> HIDE DEF r, ss
  <2>2. IsUpTo(r, m)
    BY <2>1 DEF IsUpTo
  <2>3. IsSeq(r) /\ Len(r) = m
    BY <1>1, <2>2, UpToIsSeq
  <2>4. \A v : In(v, r) <=> \E j \in 1..m : v = ValueIn(o.exprs[j], st.rows[k], st.db)
    BY <2>1, <2>3 DEF In
  <2> QED BY <2>3, <2>4 DEF r
<1>4. FlattenSeq(ss) = ToDelete(st, o)
  BY DEF ToDelete, m, n
<1> HIDE DEF ss
<1>5. Pieces(ss)
  BY <1>2, <1>3 DEF Pieces
<1>6. IsSeq(FlattenSeq(ss)) /\ \A v : In(v, FlattenSeq(ss)) <=> \E k \in 1..n : In(v, ss[k])
  BY <1>2, <1>5, FlattenIs
<1> QED BY <1>3, <1>4, <1>6 DEF m, n

LEMMA InTurnIs ==
  ASSUME NEW ids, IsSeq(ids), NEW kind
  PROVE  IsSeq(InTurn(kind, ids)) /\ \A v : In(v, InTurn(kind, ids)) <=> \E id : In(id, ids) /\ v = <<kind, id>>
<1> DEFINE n == Len(ids)
           f == InTurn(kind, ids)
<1>1. n \in Nat /\ DOMAIN ids = 1..n
  BY DEF IsSeq
<1>2. f = [k \in 1..n |-> <<kind, ids[k]>>]
  BY <1>1 DEF InTurn
<1> HIDE DEF f, n
<1>3. IsUpTo(f, n)
  BY <1>2 DEF IsUpTo
<1>4. IsSeq(f) /\ Len(f) = n
  BY <1>1, <1>3, UpToIsSeq
<1>5. ASSUME NEW v  PROVE In(v, f) <=> \E id : In(id, ids) /\ v = <<kind, id>>
  BY <1>2, <1>4 DEF In, n
<1> QED BY <1>4, <1>5 DEF f

-----------------------------------------------------------------------------
(* One deletion. *)

\* A thread on an engine, with these rows.
HasRows(r, rows) == IsThread(r) /\ IsDb(r.db) /\ r.rows = rows

LEMMA KeepsRows ==
  ASSUME NEW rows, NEW r, HasRows(r, rows), NEW k, k # "rows", NEW v, NEW u, Sets(u, r, k, v)
  PROVE  HasRows(u, rows) /\ u.db = r.db /\ u[k] = v /\ \A j \in ThreadKeys \ {k} : u[j] = r[j]
<1>1. u = [j \in ThreadKeys |-> u[j]] /\ u[k] = v /\ \A j \in ThreadKeys \ {k} : u[j] = r[j]
  BY DEF HasRows, IsThread, Sets
<1>2. {"db", "rows"} \subseteq ThreadKeys \ {k}
  BY DEF ThreadKeys, Sets
<1>3. u.db = r.db /\ u.rows = r.rows
  BY <1>1, <1>2
<1> QED BY <1>1, <1>3 DEF HasRows, IsThread

LEMMA FailKeeps ==
  ASSUME NEW rows, NEW r, HasRows(r, rows), NEW v, NEW u, u = FailWith(r, v)
  PROVE  HasRows(u, rows) /\ u.db = r.db /\ u.failure = v
<1>1. Sets(u, r, "failure", v)
  BY DEF FailWith, ThreadKeys, Sets
<1> QED BY <1>1, KeepsRows

LEMMA FailStops ==
  ASSUME NEW rows, NEW r, HasRows(r, rows), NEW u, u = Fail(r)
  PROVE  HasRows(u, rows) /\ u.db = r.db /\ ~ Going(u)
<1>1. u = FailWith(r, Error) /\ Error # <<>>
  BY DEF Fail, Error
<1> QED BY <1>1, FailKeeps DEF Going

LEMMA FireKeeps ==
  ASSUME NEW rows, NEW r, HasRows(r, rows), NEW u, u = Fire(r)
  PROVE  HasRows(u, rows) /\ u.db = r.db /\ (Going(u) => Going(r))
<1>1. CASE ~ Going(r) \/ r.fuse < 0
  <2>1. u = r
    BY <1>1 DEF Fire
  <2> QED BY <2>1
<1>2. CASE ~ (~ Going(r) \/ r.fuse < 0)
  <2>1. CASE r.fuse = 0
    <3> DEFINE w == [r EXCEPT !.fuse = -1]
    <3>1. Sets(w, r, "fuse", -1)
      BY DEF Sets, ThreadKeys
    <3>2. u = Fail(w)
      BY <1>2, <2>1 DEF Fire
    <3> HIDE DEF w
    <3>3. HasRows(w, rows) /\ w.db = r.db
      BY <3>1, KeepsRows
    <3> QED BY <1>2, <3>2, <3>3, FailStops
  <2>2. CASE r.fuse # 0
    <3> DEFINE f == r.fuse - 1
    <3>1. Sets(u, r, "fuse", f)
      BY <1>2, <2>2 DEF Fire, Sets, ThreadKeys
    <3> HIDE DEF f
    <3>2. HasRows(u, rows) /\ u.db = r.db
      BY <3>1, KeepsRows
    <3> QED BY <1>2, <3>2
  <2> QED BY <2>1, <2>2
<1> QED BY <1>1, <1>2

\* What is gone of d in c.
EdgeOff(d, c, id) == id \in DOMAIN d.edges /\ c.nodes = d.nodes /\ c.edges = Without(d.edges, {id})
NodeOff(d, c, id) == /\ id \in DOMAIN d.nodes /\ c.nodes = Without(d.nodes, {id})
                     /\ c.edges = Without(d.edges, EdgesOf(id, d))

LEMMA EdgeGoneIs ==
  ASSUME NEW rows, NEW r, HasRows(r, rows), NEW id, NEW u, u = EdgeGone(r, id)
  PROVE  HasRows(u, rows) /\ ((u.db = r.db /\ ~ Going(u)) \/ EdgeOff(r.db, u.db, id))
<1>1. CASE ~ Going(r)
  BY <1>1 DEF EdgeGone
<1>2. CASE Going(r) /\ id \notin DOMAIN r.db.edges
  <2>1. u = Fail(r)
    BY <1>2 DEF EdgeGone
  <2> QED BY <2>1, FailStops
<1>3. CASE Going(r) /\ id \in DOMAIN r.db.edges
  <2> DEFINE c == DeleteEdge(r.db, id)
  <2>1. IsDb(c) /\ EdgeOff(r.db, c, id)
    BY <1>3, DeleteEdgeIs DEF HasRows, EdgeOff
  <2>2. u = [r EXCEPT !.db = c]
    BY <1>3 DEF EdgeGone
  <2> HIDE DEF c
  <2>3. IsThread(u) /\ u.db = c /\ u.rows = r.rows
    BY <2>2 DEF HasRows, IsThread, ThreadKeys
  <2> QED BY <2>1, <2>3 DEF HasRows
<1> QED BY <1>1, <1>2, <1>3

LEMMA NodeGoneIs ==
  ASSUME NEW rows, NEW r, HasRows(r, rows), NEW id, NEW u, u = NodeGone(r, id)
  PROVE  HasRows(u, rows) /\ ((u.db = r.db /\ ~ Going(u)) \/ NodeOff(r.db, u.db, id))
<1>1. CASE ~ Going(r)
  BY <1>1 DEF NodeGone
<1>2. CASE Going(r) /\ id \notin DOMAIN r.db.nodes
  <2>1. u = Fail(r)
    BY <1>2 DEF NodeGone
  <2> QED BY <2>1, FailStops
<1>3. CASE Going(r) /\ id \in DOMAIN r.db.nodes
  <2> DEFINE c == DeleteNode(r.db, id)
  <2>1. IsDb(c) /\ NodeOff(r.db, c, id)
    BY <1>3, DeleteNodeIs DEF HasRows, NodeOff
  <2>2. u = [r EXCEPT !.db = c]
    BY <1>3 DEF NodeGone
  <2> HIDE DEF c
  <2>3. IsThread(u) /\ u.db = c /\ u.rows = r.rows
    BY <2>2 DEF HasRows, IsThread, ThreadKeys
  <2> QED BY <2>1, <2>3 DEF HasRows
<1> QED BY <1>1, <1>2, <1>3

\* A deletion stops the statement, or deletes one edge, or one node; without DETACH one that has
\* no edges.
Detaching(mode) == mode = "detach delete"
DeleteAs(mode, r, kind, id) == DeleteOne(r, kind, id, mode = "detach delete")
Deleted(d, c, kind, id, mode) ==
  \/ kind = "Edge" /\ EdgeOff(d, c, id)
  \/ kind # "Edge" /\ NodeOff(d, c, id) /\ (Detaching(mode) \/ EdgesOf(id, d) = {})

LEMMA DeleteOneIs ==
  ASSUME NEW rows, NEW r, HasRows(r, rows), NEW kind, NEW id, NEW mode,
         NEW u, u = DeleteAs(mode, r, kind, id)
  PROVE  HasRows(u, rows) /\ ((u.db = r.db /\ ~ Going(u)) \/ Deleted(r.db, u.db, kind, id, mode))
<1> DEFINE b == Fire(r)
           g == IF kind = "Edge" THEN EdgeGone(b, id) ELSE NodeGone(b, id)
           w == Fire(g)
<1>1. HasRows(b, rows) /\ b.db = r.db
  BY FireKeeps
<1>2. CASE kind = "Edge"
  <2>1. u = w /\ g = EdgeGone(b, id)
    BY <1>2 DEF DeleteAs, DeleteOne, DeleteOneEdge
  <2> HIDE DEF b, g
  <2>2. HasRows(g, rows) /\ ((g.db = r.db /\ ~ Going(g)) \/ EdgeOff(r.db, g.db, id))
    BY <1>1, <2>1, EdgeGoneIs
  <2>3. HasRows(w, rows) /\ w.db = g.db /\ (Going(w) => Going(g))
    BY <2>2, FireKeeps
  <2> HIDE DEF w
  <2> QED BY <1>2, <2>1, <2>2, <2>3 DEF Deleted
<1>3. CASE kind # "Edge" /\ Blocked(r, id, mode = "detach delete")
  <2>1. u = Fail(r)
    BY <1>3 DEF DeleteAs, DeleteOne, DeleteOneNode
  <2> QED BY <2>1, FailStops
<1>4. CASE kind # "Edge" /\ ~ Blocked(r, id, mode = "detach delete")
  <2>1. u = w /\ g = NodeGone(b, id)
    BY <1>4 DEF DeleteAs, DeleteOne, DeleteOneNode
  <2>5. Detaching(mode) \/ EdgesOf(id, r.db) = {}
    BY <1>4 DEF Blocked, Detaching
  <2> HIDE DEF b, g
  <2>2. HasRows(g, rows) /\ ((g.db = r.db /\ ~ Going(g)) \/ NodeOff(r.db, g.db, id))
    BY <1>1, <2>1, NodeGoneIs
  <2>3. HasRows(w, rows) /\ w.db = g.db /\ (Going(w) => Going(g))
    BY <2>2, FireKeeps
  <2> HIDE DEF w
  <2> QED BY <1>4, <2>1, <2>2, <2>3, <2>5 DEF Deleted
<1> QED BY <1>2, <1>3, <1>4

-----------------------------------------------------------------------------
(* A list of deletions. *)

\* Each is of an edge or of a node.
Listed(list) ==
    IsSeq(list) /\ \A k \in 1..Len(list) : list[k][1] \in {"Edge", "Node"} /\ list[k] = <<list[k][1], list[k][2]>>

NodesLeft(d0, d) == DOMAIN d0.nodes \ DOMAIN d.nodes
EdgesLeft(d0, d) == DOMAIN d0.edges \ DOMAIN d.edges
\* What is left of d0 in d.
Less(d0, d) ==
    /\ DOMAIN d.nodes \subseteq DOMAIN d0.nodes /\ DOMAIN d.edges \subseteq DOMAIN d0.edges
    /\ \A e \in DOMAIN d.edges : d.edges[e] = d0.edges[e]
OnlyListed(d0, d, list, mode) ==
    /\ \A id \in NodesLeft(d0, d) : In(<<"Node", id>>, list)
    /\ \A e \in EdgesLeft(d0, d) :
         In(<<"Edge", e>>, list) \/ (Detaching(mode) /\ \E id \in NodesLeft(d0, d) : e \in EdgesOf(id, d0))
IsGone(d0, d, x) == x[2] \in IF x[1] = "Edge" THEN EdgesLeft(d0, d) ELSE NodesLeft(d0, d)
\* After m of them.
Doing(d0, list, mode, rows, m, r) ==
    /\ HasRows(r, rows) /\ Less(d0, r.db) /\ OnlyListed(d0, r.db, list, mode)
    /\ Going(r) => \A k \in 1..m : IsGone(d0, r.db, list[k])

LEMMA EdgesOfLess ==
  ASSUME NEW d0, NEW d, Less(d0, d), NEW id
  PROVE  EdgesOf(id, d) \subseteq EdgesOf(id, d0)
BY DEF Less, EdgesOf

LEMMA DeletedLess ==
  ASSUME NEW d0, NEW d, NEW c, NEW list, NEW mode, NEW kind \in {"Edge", "Node"}, NEW id,
         Less(d0, d), OnlyListed(d0, d, list, mode), Deleted(d, c, kind, id, mode), In(<<kind, id>>, list)
  PROVE  /\ Less(d0, c) /\ OnlyListed(d0, c, list, mode) /\ Less(d, c)
         /\ id \in IF kind = "Edge" THEN EdgesLeft(d0, c) ELSE NodesLeft(d0, c)
<1>1. CASE kind = "Edge"
  <2>1. EdgeOff(d, c, id)
    BY <1>1 DEF Deleted
  <2>2. DOMAIN c.edges = DOMAIN d.edges \ {id} /\ \A e \in DOMAIN c.edges : c.edges[e] = d.edges[e]
    <3> DEFINE f == d.edges
               w == c.edges
               ids == {id}
    <3>1. w = Without(f, ids)
      BY <2>1 DEF EdgeOff
    <3> HIDE DEF f, w, ids
    <3>2. DOMAIN w = DOMAIN f \ ids /\ \A e \in DOMAIN w : w[e] = f[e]
      BY <3>1 DEF Without
    <3> QED BY <3>2 DEF f, w, ids
  <2>3. c.nodes = d.nodes /\ id \in DOMAIN d0.edges
    BY <2>1 DEF EdgeOff, Less
  <2>4. Less(d0, c) /\ Less(d, c)
    BY <2>2, <2>3 DEF Less
  <2>5. NodesLeft(d0, c) = NodesLeft(d0, d) /\ EdgesLeft(d0, c) = EdgesLeft(d0, d) \cup {id}
    BY <2>2, <2>3 DEF NodesLeft, EdgesLeft
  <2>6. OnlyListed(d0, c, list, mode)
    BY <1>1, <2>5 DEF OnlyListed
  <2> QED BY <1>1, <2>4, <2>5, <2>6
<1>2. CASE kind = "Node"
  <2>1. NodeOff(d, c, id) /\ (Detaching(mode) \/ EdgesOf(id, d) = {})
    BY <1>2 DEF Deleted
  <2>a. DOMAIN c.nodes = DOMAIN d.nodes \ {id}
    BY <2>1, Removed DEF NodeOff
  <2>2. DOMAIN c.edges = DOMAIN d.edges \ EdgesOf(id, d) /\ \A e \in DOMAIN c.edges : c.edges[e] = d.edges[e]
    <3> DEFINE f == d.edges
               w == c.edges
               ids == EdgesOf(id, d)
    <3>1. w = Without(f, ids)
      BY <2>1 DEF NodeOff
    <3> HIDE DEF f, w, ids
    <3>2. DOMAIN w = DOMAIN f \ ids /\ \A e \in DOMAIN w : w[e] = f[e]
      BY <3>1 DEF Without
    <3> QED BY <3>2 DEF f, w, ids
  <2>3. id \in DOMAIN d0.nodes
    BY <2>1 DEF NodeOff, Less
  <2>4. Less(d0, c) /\ Less(d, c)
    BY <2>2, <2>a DEF Less
  <2>5. /\ NodesLeft(d0, c) = NodesLeft(d0, d) \cup {id}
        /\ EdgesLeft(d0, c) \subseteq EdgesLeft(d0, d) \cup EdgesOf(id, d)
    BY <2>2, <2>3, <2>a DEF NodesLeft, EdgesLeft
  <2>6. EdgesOf(id, d) \subseteq EdgesOf(id, d0)
    BY EdgesOfLess
  <2>7. ASSUME NEW e \in EdgesLeft(d0, c)
        PROVE  In(<<"Edge", e>>, list) \/ (Detaching(mode) /\ \E i \in NodesLeft(d0, c) : e \in EdgesOf(i, d0))
    <3>1. CASE e \in EdgesLeft(d0, d)
      BY <2>5, <3>1 DEF OnlyListed
    <3>2. CASE e \in EdgesOf(id, d)
      BY <2>1, <2>5, <2>6, <3>2
    <3> QED BY <2>5, <3>1, <3>2
  <2>8. \A i \in NodesLeft(d0, c) : In(<<"Node", i>>, list)
    BY <1>2, <2>5 DEF OnlyListed
  <2> QED BY <1>2, <2>4, <2>5, <2>7, <2>8 DEF OnlyListed
<1> QED BY <1>1, <1>2

LEMMA StaysGone ==
  ASSUME NEW d0, NEW d, NEW c, Less(d, c), NEW x, IsGone(d0, d, x)
  PROVE  IsGone(d0, c, x)
BY DEF Less, IsGone, NodesLeft, EdgesLeft

DeleteKind(kind) == kind \in {"delete", "detach delete"}

LEMMA DeleteStepIs ==
  ASSUME NEW mode, DeleteKind(mode), NEW r, NEW x
  PROVE  NextStep(mode, r, x) = IF Going(r) THEN DeleteAs(mode, r, x[1], x[2]) ELSE r
BY DEF NextStep, Step, DeleteKind, DeleteAs

LEMMA DoingStep ==
  ASSUME NEW d0, NEW list, Listed(list), NEW rows, NEW m \in Nat, m + 1 <= Len(list), NEW mode, DeleteKind(mode),
         NEW r, Doing(d0, list, mode, rows, m, r),
         NEW u, u = NextStep(mode, r, list[m + 1])
  PROVE  Doing(d0, list, mode, rows, m + 1, u)
<1>1. CASE ~ Going(r)
  <2>1. u = r
    BY <1>1, DeleteStepIs
  <2> QED BY <1>1, <2>1 DEF Doing
<1>2. CASE Going(r)
  <2> DEFINE x == list[m + 1]
             sort == x[1]
             id == x[2]
  <2>1. m + 1 \in 1..Len(list) /\ Len(list) \in Nat
    BY DEF Listed, IsSeq
  <2>2. sort \in {"Edge", "Node"} /\ x = <<sort, id>> /\ In(<<sort, id>>, list)
    BY <2>1 DEF Listed, In
  <2>3. u = DeleteAs(mode, r, sort, id)
    BY <1>2, DeleteStepIs
  <2>x. x[1] = sort /\ x[2] = id
    OBVIOUS
  <2> HIDE DEF sort, id, x
  <2>4. HasRows(r, rows) /\ Less(d0, r.db) /\ OnlyListed(d0, r.db, list, mode)
    BY DEF Doing
  <2>5. HasRows(u, rows) /\ ((u.db = r.db /\ ~ Going(u)) \/ Deleted(r.db, u.db, sort, id, mode))
    BY <2>3, <2>4, DeleteOneIs
  <2>6. CASE u.db = r.db /\ ~ Going(u)
    BY <2>4, <2>5, <2>6 DEF Doing
  <2>7. CASE Deleted(r.db, u.db, sort, id, mode)
    <3>1. /\ Less(d0, u.db) /\ OnlyListed(d0, u.db, list, mode) /\ Less(r.db, u.db)
          /\ id \in IF sort = "Edge" THEN EdgesLeft(d0, u.db) ELSE NodesLeft(d0, u.db)
      BY <2>2, <2>4, <2>7, DeletedLess
    <3>2. IsGone(d0, u.db, x)
      BY <2>x, <3>1 DEF IsGone
    <3>3. ASSUME NEW k \in 1..m  PROVE IsGone(d0, u.db, list[k])
      <4>1. IsGone(d0, r.db, list[k])
        BY <1>2 DEF Doing
      <4> QED BY <3>1, <4>1, StaysGone
    <3>4. ASSUME NEW k \in 1..(m + 1)  PROVE IsGone(d0, u.db, list[k])
      <4>1. CASE k = m + 1
        BY <3>2, <4>1 DEF x
      <4>2. CASE k # m + 1
        <5>1. k \in 1..m
          BY <4>2
        <5> QED BY <3>3, <5>1
      <4> QED BY <4>1, <4>2
    <3> QED BY <2>5, <3>1, <3>4 DEF Doing
  <2> QED BY <2>5, <2>6, <2>7
<1> QED BY <1>1, <1>2

LEMMA EachDeletes ==
  ASSUME NEW rows, NEW st, HasRows(st, rows), NEW list, Listed(list), NEW mode, DeleteKind(mode)
  PROVE  Doing(st.db, list, mode, rows, Len(list), Each(mode, st, list))
<1> DEFINE n == Count(list)
           d0 == st.db
           run == CHOOSE f : f = [k \in 0..n |-> IF k = 0 THEN st ELSE NextStep(mode, f[k - 1], list[k])]
           S == {m \in Nat : m <= n => Doing(d0, list, mode, rows, m, run[m])}
<1>1. n \in Nat /\ n = Len(list)
  BY DEF Count, Listed, IsSeq
<1>2. Each(mode, st, list) = run[n]
  BY DEF Each
<1> HIDE DEF n
<1>3. run = [k \in 0..n |-> IF k = 0 THEN st ELSE NextStep(mode, run[k - 1], list[k])]
  BY <1>1, EachRuns
<1> HIDE DEF run
<1>4. 0 \in S
  <2>1. run[0] = st
    BY <1>1, <1>3
  <2>2. Less(d0, d0) /\ OnlyListed(d0, d0, list, mode)
    BY DEF Less, OnlyListed, NodesLeft, EdgesLeft
  <2>3. \A k \in 1..0 : IsGone(d0, d0, list[k])
    OBVIOUS
  <2>4. Doing(d0, list, mode, rows, 0, st)
    BY <2>2, <2>3 DEF Doing
  <2> QED BY <2>1, <2>4
<1> HIDE DEF d0
<1>5. ASSUME NEW m \in Nat, m \in S, m + 1 <= n  PROVE Doing(d0, list, mode, rows, m + 1, run[m + 1])
  <2>1. Doing(d0, list, mode, rows, m, run[m])
    BY <1>1, <1>5
  <2> DEFINE r == run[m]
             u == run[m + 1]
  <2>2. u = NextStep(mode, r, list[m + 1])
    BY <1>1, <1>3, <1>5
  <2>3. Doing(d0, list, mode, rows, m, r)
    BY <2>1
  <2> HIDE DEF r, u
  <2>4. Doing(d0, list, mode, rows, m + 1, u)
    BY <1>1, <1>5, <2>2, <2>3, DoingStep
  <2> QED BY <2>4 DEF u
<1>6. \A m \in Nat : m \in S => m + 1 \in S
  BY <1>5
<1>7. n \in S
  <2> HIDE DEF S
  <2> QED BY <1>1, <1>4, <1>6, Induct
<1> QED BY <1>1, <1>2, <1>7 DEF d0

-----------------------------------------------------------------------------
(* DELETE. *)

LEMMA FailureIs ==
  ASSUME NEW vals, IsSeq(vals), HasFailed(vals)
  PROVE  Failure(vals) # <<>>
<1> DEFINE bad == {k \in DOMAIN vals : Failed(vals[k])}
           First(k) == k \in bad /\ \A j \in bad : k <= j
           k == CHOOSE k \in bad : \A j \in bad : k <= j
<1>1. DOMAIN vals = 1..Len(vals) /\ Len(vals) \in Nat
  BY DEF IsSeq
<1>2. bad \in SUBSET Nat /\ bad # {}
  BY <1>1 DEF HasFailed
<1>3. \E i \in bad : \A j \in bad : i <= j
  <2> HIDE DEF bad
  <2> QED BY <1>2, LeastExists
<1>4. k \in bad
  <2> HIDE DEF bad
  <2> QED BY <1>3
<1>5. Failure(vals) = vals[k]
  BY DEF Failure
<1>6. Failed(vals[k])
  BY <1>4
<1> HIDE DEF k, bad
<1>7. vals[k] # <<>>
  BY <1>6 DEF Failed, Error, Panic
<1> QED BY <1>5, <1>7

ModeOf(o) == IF o.detach THEN "detach delete" ELSE "delete"
ListOf(vals) == InTurn("Edge", IdsOf("Edge", vals)) \o InTurn("Node", IdsOf("Node", vals))

LEMMA ListIs ==
  ASSUME NEW vals, IsSeq(vals)
  PROVE  /\ Listed(ListOf(vals))
         /\ \A kind \in {"Edge", "Node"} : \A id :
              In(<<kind, id>>, ListOf(vals)) <=> \E k \in 1..Len(vals) : Type(vals[k]) = kind /\ vals[k][2] = id
<1> DEFINE edges == IdsOf("Edge", vals)
           nodes == IdsOf("Node", vals)
           e == InTurn("Edge", edges)
           n == InTurn("Node", nodes)
           list == e \o n
<1>1. /\ IsSeq(edges)
      /\ \A id : In(id, edges) <=> \E k \in 1..Len(vals) : Type(vals[k]) = "Edge" /\ vals[k][2] = id
  BY IdsOfIs
<1>2. /\ IsSeq(nodes)
      /\ \A id : In(id, nodes) <=> \E k \in 1..Len(vals) : Type(vals[k]) = "Node" /\ vals[k][2] = id
  BY IdsOfIs
<1>9. ListOf(vals) = list
  BY DEF ListOf
<1> HIDE DEF edges, nodes
<1>3. IsSeq(e) /\ \A v : In(v, e) <=> \E id : In(id, edges) /\ v = <<"Edge", id>>
  BY <1>1, InTurnIs
<1>4. IsSeq(n) /\ \A v : In(v, n) <=> \E id : In(id, nodes) /\ v = <<"Node", id>>
  BY <1>2, InTurnIs
<1> HIDE DEF e, n
<1>5. IsSeq(list) /\ \A v : In(v, list) <=> In(v, e) \/ In(v, n)
  BY <1>3, <1>4, ConcatIs
<1> HIDE DEF list
<1>6. ASSUME NEW k \in 1..Len(list)  PROVE list[k][1] \in {"Edge", "Node"} /\ list[k] = <<list[k][1], list[k][2]>>
  <2> DEFINE v == list[k]
  <2>1. In(v, list)
    BY DEF In
  <2> HIDE DEF v
  <2>2. \E kind \in {"Edge", "Node"} : \E id : v = <<kind, id>>
    BY <1>3, <1>4, <1>5, <2>1
  <2>3. v[1] \in {"Edge", "Node"} /\ v = <<v[1], v[2]>>
    BY <2>2
  <2> QED BY <2>3 DEF v
<1>7. ASSUME NEW id  PROVE In(<<"Edge", id>>, list) <=> In(id, edges)
  BY <1>3, <1>4, <1>5
<1>8. ASSUME NEW id  PROVE In(<<"Node", id>>, list) <=> In(id, nodes)
  BY <1>3, <1>4, <1>5
<1>10. Listed(list)
  BY <1>5, <1>6 DEF Listed
<1> QED BY <1>1, <1>2, <1>7, <1>8, <1>9, <1>10

\* NamedBy and GoneAsNamed, of any engine.
Names(o, rows, d, kind, id) ==
    \E j \in 1..Count(o.exprs), k \in 1..Count(rows) :
      LET v == ValueIn(o.exprs[j], rows[k], d) IN Type(v) = kind /\ v[2] = id
Gone(o, rows, d, c, stopped) ==
    /\ \A id \in NodesLeft(d, c) : Names(o, rows, d, "Node", id)
    /\ \A e \in EdgesLeft(d, c) :
         Names(o, rows, d, "Edge", e) \/ (o.detach /\ \E id \in NodesLeft(d, c) : e \in EdgesOf(id, d))
    /\ ~ stopped => /\ \A id : Names(o, rows, d, "Node", id) => id \in NodesLeft(d, c)
                    /\ \A e : Names(o, rows, d, "Edge", e) => e \in EdgesLeft(d, c)

LEMMA ListNames ==
  ASSUME NEW st, NEW o, NEW kind \in {"Edge", "Node"}, NEW id
  PROVE  In(<<kind, id>>, ListOf(ToDelete(st, o))) <=> Names(o, st.rows, st.db, kind, id)
<1> DEFINE vals == ToDelete(st, o)
<1>1. /\ IsSeq(vals)
      /\ \A v : In(v, vals) <=>
           \E j \in 1..Count(o.exprs), k \in 1..Count(st.rows) : v = ValueIn(o.exprs[j], st.rows[k], st.db)
  BY ToDeleteIs
<1> HIDE DEF vals
<1>2. In(<<kind, id>>, ListOf(vals)) <=> \E k \in 1..Len(vals) : Type(vals[k]) = kind /\ vals[k][2] = id
  BY <1>1, ListIs
<1>3. (\E k \in 1..Len(vals) : Type(vals[k]) = kind /\ vals[k][2] = id)
        <=> \E v : In(v, vals) /\ Type(v) = kind /\ v[2] = id
  BY DEF In
<1>4. (\E v : In(v, vals) /\ Type(v) = kind /\ v[2] = id) <=> Names(o, st.rows, st.db, kind, id)
  BY <1>1 DEF Names
<1> QED BY <1>2, <1>3, <1>4 DEF vals

LEMMA StoppedGone ==
  ASSUME NEW o, NEW rows, NEW d
  PROVE  Gone(o, rows, d, d, TRUE)
BY DEF Gone, NodesLeft, EdgesLeft

LEMMA DeleteAllIs ==
  ASSUME NEW st, IsThread(st), IsDb(st.db), NEW o, NEW u, u = DeleteAll(st, o)
  PROVE  HasRows(u, st.rows) /\ Gone(o, st.rows, st.db, u.db, ~ Going(u))
<1> DEFINE vals == ToDelete(st, o)
           rows == st.rows
           list == ListOf(vals)
           mode == ModeOf(o)
<1>1. HasRows(st, rows)
  BY DEF HasRows
<1>2. IsSeq(vals)
  BY ToDeleteIs
<1>3. Listed(list)
  <2> HIDE DEF vals
  <2> QED BY <1>2, ListIs
<1>4. \A kind \in {"Edge", "Node"} : \A id : In(<<kind, id>>, list) <=> Names(o, rows, st.db, kind, id)
  BY ListNames
<1>5. DeleteKind(mode) /\ (Detaching(mode) <=> o.detach)
  BY DEF DeleteKind, ModeOf, Detaching
<1>6. u = DeleteThese(st, vals, o.detach)
  BY DEF DeleteAll
<1>7. CASE u.db = st.db /\ HasRows(u, rows) /\ ~ Going(u)
  BY <1>7, StoppedGone
<1>8. CASE HasFailed(vals)
  <2> DEFINE f == Failure(vals)
  <2>1. f # <<>> /\ u = FailWith(st, f)
    BY <1>2, <1>6, <1>8, FailureIs DEF DeleteThese
  <2> HIDE DEF f, rows, vals, list, mode
  <2>2. HasRows(u, rows) /\ u.db = st.db /\ ~ Going(u)
    BY <1>1, <2>1, FailKeeps DEF Going
  <2> QED BY <1>7, <2>2
<1>9. CASE ~ HasFailed(vals) /\ \E k \in DOMAIN vals : Type(vals[k]) \notin {"Node", "Edge", "Null"}
  <2>1. u = Fail(st)
    BY <1>6, <1>9 DEF DeleteThese
  <2> HIDE DEF rows, vals, list, mode
  <2> QED BY <1>1, <1>7, <2>1, FailStops
<1>10. CASE ~ HasFailed(vals) /\ ~ \E k \in DOMAIN vals : Type(vals[k]) \notin {"Node", "Edge", "Null"}
  <2>1. u = Each(mode, st, list)
    BY <1>6, <1>10 DEF DeleteThese, ModeOf, ListOf
  <2> DEFINE d == st.db
  <2> HIDE DEF vals, list, mode
  <2>2. Doing(d, list, mode, rows, Len(list), u)
    <3> HIDE DEF rows
    <3> QED BY <1>1, <1>3, <1>5, <2>1, EachDeletes
  <2>3. \A kind \in {"Edge", "Node"} : \A id : In(<<kind, id>>, list) <=> Names(o, rows, d, kind, id)
    BY <1>4
  <2> HIDE DEF rows, d
  <2>4. HasRows(u, rows) /\ OnlyListed(d, u.db, list, mode)
    BY <2>2 DEF Doing
  <2>5. \A id \in NodesLeft(d, u.db) : Names(o, rows, d, "Node", id)
    BY <2>3, <2>4 DEF OnlyListed
  <2>6. \A e \in EdgesLeft(d, u.db) :
          Names(o, rows, d, "Edge", e) \/ (o.detach /\ \E id \in NodesLeft(d, u.db) : e \in EdgesOf(id, d))
    BY <1>5, <2>3, <2>4 DEF OnlyListed
  <2>7. ASSUME Going(u), NEW kind \in {"Edge", "Node"}, NEW id, Names(o, rows, d, kind, id)
        PROVE  id \in IF kind = "Edge" THEN EdgesLeft(d, u.db) ELSE NodesLeft(d, u.db)
    <3>1. In(<<kind, id>>, list)
      BY <2>3, <2>7
    <3>2. PICK k \in 1..Len(list) : list[k] = <<kind, id>>
      BY <3>1 DEF In
    <3>3. IsGone(d, u.db, list[k])
      BY <2>2, <2>7 DEF Doing
    <3> QED BY <3>2, <3>3 DEF IsGone
  <2>8. Going(u) => /\ \A id : Names(o, rows, d, "Node", id) => id \in NodesLeft(d, u.db)
                    /\ \A e : Names(o, rows, d, "Edge", e) => e \in EdgesLeft(d, u.db)
    BY <2>7
  <2>9. Gone(o, rows, d, u.db, ~ Going(u))
    BY <2>5, <2>6, <2>8 DEF Gone
  <2> QED BY <2>4, <2>9 DEF rows, d
<1> QED BY <1>8, <1>9, <1>10

-----------------------------------------------------------------------------
(* Plans that delete at their end. *)

\* Operators that read leave the engine alone.
LEMMA ReadsLeave ==
  ASSUME NEW st, IsThread(st), NEW o, o.op \notin Writers, NEW u, u = NextOp(st, o)
  PROVE  IsThread(u) /\ u.db = st.db
<1> DEFINE result == ReadBy(Rows(st.rows), <<o>>, st.db)
           rows == result.rows
           v == result.failure
           a == [st EXCEPT !.rows = rows]
           b == FailWith(st, v)
<1>1. u = IF Going(st) THEN ReadStep(st, o) ELSE st
  BY DEF NextOp, ExecuteOp, Writers
<1>2. ReadStep(st, o) \in {a, b}
  BY DEF ReadStep, Took
<1> HIDE DEF rows, v
<1>3. IsThread(a) /\ a.db = st.db
  BY DEF IsThread, ThreadKeys
<1>4. IsThread(b) /\ b.db = st.db
  BY DEF IsThread, ThreadKeys, FailWith
<1> HIDE DEF a, b
<1> QED BY <1>1, <1>2, <1>3, <1>4

LEMMA LastOpIs ==
  ASSUME NEW st, IsThread(st), IsDb(st.db), NEW o, o.op = "DeleteOp", NEW u, u = NextOp(st, o)
  PROVE  Gone(o, u.rows, st.db, u.db, ~ Going(u))
<1>1. CASE Going(st)
  <2>1. u = DeleteAll(st, o)
    BY <1>1 DEF NextOp, ExecuteOp
  <2>2. HasRows(u, st.rows) /\ Gone(o, st.rows, st.db, u.db, ~ Going(u))
    BY <2>1, DeleteAllIs
  <2>3. u.rows = st.rows
    BY <2>2 DEF HasRows
  <2> QED BY <2>2, <2>3
<1>2. CASE ~ Going(st)
  <2>1. u = st
    BY <1>2 DEF NextOp
  <2> QED BY <1>2, <2>1, StoppedGone
<1> QED BY <1>1, <1>2

LEMMA ExecuteOnDeletes ==
  ASSUME NEW st, IsThread(st), IsDb(st.db), NEW plan, DeletesLast(plan), NEW u, u = ExecuteOn(st, plan)
  PROVE  Gone(plan[Count(plan)], u.rows, st.db, u.db, ~ Going(u))
<1> DEFINE n == Count(plan)
           d == st.db
           run == CHOOSE f : f = [k \in 0..n |-> IF k = 0 THEN st ELSE NextOp(f[k - 1], plan[k])]
           S == {m \in Nat : m <= n - 1 => IsThread(run[m]) /\ run[m].db = d}
<1>1. n \in Nat
  BY DEF Count
<1>2. u = run[n]
  BY DEF ExecuteOn
<1>8. n > 0 /\ plan[n].op = "DeleteOp" /\ \A k \in 1..(n - 1) : plan[k].op \notin Writers
  BY DEF DeletesLast
<1> HIDE DEF n
<1>3. run = [k \in 0..n |-> IF k = 0 THEN st ELSE NextOp(run[k - 1], plan[k])]
  BY <1>1, ExecuteOnRuns
<1> HIDE DEF run
<1>4. 0 \in S
  BY <1>1, <1>3
<1> HIDE DEF d
<1>5. ASSUME NEW m \in Nat, m \in S, m + 1 <= n - 1  PROVE IsThread(run[m + 1]) /\ run[m + 1].db = d
  <2>1. IsThread(run[m]) /\ run[m].db = d
    BY <1>1, <1>5
  <2> DEFINE r == run[m]
             e == plan[m + 1]
             w == run[m + 1]
  <2>2. w = NextOp(r, e)
    BY <1>1, <1>3, <1>5
  <2>4. e.op \notin Writers
    BY <1>1, <1>5, <1>8
  <2>3. IsThread(r) /\ r.db = d
    BY <2>1
  <2> HIDE DEF r, e, w
  <2>5. IsThread(w) /\ w.db = d
    BY <2>2, <2>3, <2>4, ReadsLeave
  <2> QED BY <2>5 DEF w
<1>6. \A m \in Nat : m \in S => m + 1 \in S
  BY <1>5
<1>7. n - 1 \in S
  <2>1. n - 1 \in Nat
    BY <1>1, <1>8
  <2> HIDE DEF S
  <2> QED BY <1>4, <1>6, <2>1, Induct
<1> DEFINE r == run[n - 1]
           o == plan[n]
<1>9. IsThread(r) /\ r.db = d
  BY <1>1, <1>7
<1>10. u = NextOp(r, o)
  BY <1>1, <1>2, <1>3, <1>8
<1>11. o.op = "DeleteOp"
  BY <1>8
<1> HIDE DEF r, o
<1>12. Gone(o, u.rows, d, u.db, ~ Going(u))
  <2>1. IsDb(d)
    BY DEF d
  <2> QED BY <1>9, <1>10, <1>11, <2>1, LastOpIs
<1> QED BY <1>12 DEF o, n, d

LEMMA ExecuteDeletes ==
  ASSUME NEW d, IsDb(d), NEW n, NEW plan, DeletesLast(plan), NEW u, u = Execute(plan, d, n)
  PROVE  Gone(plan[Count(plan)], u.rows, d, u.db, ~ Going(u))
<1> DEFINE st == Thread(d, n)
<1>1. IsThread(st) /\ st.db = d
  BY DEF Thread, IsThread, ThreadKeys
<1>2. u = ExecuteOn(st, plan)
  BY DEF Execute
<1> HIDE DEF st
<1> QED BY <1>1, <1>2, ExecuteOnDeletes

\* The words of the property.
LEMMA GoneIsNamed ==
  ASSUME NEW o, NEW rows, NEW failure, Gone(o, rows, db, db', failure # <<>>)
  PROVE  GoneAsNamed(o, rows, failure)
<1>1. \A kind, id : id \in NamedBy(o, rows, kind) <=> Names(o, rows, db, kind, id)
  BY DEF NamedBy, Names
<1>2. /\ DOMAIN db.nodes \ DOMAIN db'.nodes = NodesLeft(db, db')
      /\ DOMAIN db.edges \ DOMAIN db'.edges = EdgesLeft(db, db')
  BY DEF NodesLeft, EdgesLeft
<1> DEFINE nodes == NodesLeft(db, db')
           edges == EdgesLeft(db, db')
           detached == IF o.detach THEN UNION {EdgesOf(id, db) : id \in nodes} ELSE {}
<1>3. nodes \subseteq NamedBy(o, rows, "Node")
  BY <1>1 DEF Gone
<1>4. edges \subseteq NamedBy(o, rows, "Edge") \cup detached
  BY <1>1 DEF Gone
<1>5. failure = <<>> => NamedBy(o, rows, "Node") \subseteq nodes /\ NamedBy(o, rows, "Edge") \subseteq edges
  BY <1>1 DEF Gone
<1> QED BY <1>2, <1>3, <1>4, <1>5 DEF GoneAsNamed

\* A plan that reads and deletes at its end deletes what the rows before the end name, with DETACH
\* the edges of those nodes too, and nothing else; and, where it does not fail, all of it, however
\* often the rows name it.
THEOREM DeleteIsNamed == Spec => DeletesNamed
<1> DEFINE A == DeletesLast(last'.plan) => GoneAsNamed(last'.plan[Count(last'.plan)], last'.rows, last'.failure)
<1>1. ASSUME IInv, [Next]_vars  PROVE [A]_vars
  <2>1. CASE Tick
    <3>1. last'.plan = <<>> /\ Len(<<>>) = 0
      BY <2>1 DEF Tick, Nothing
    <3>2. ~ DeletesLast(last'.plan)
      BY <3>1 DEF DeletesLast, Count
    <3> QED BY <3>2
  <2>2. ASSUME NEW text, NEW plan, Run1(text, plan), DeletesLast(plan)
        PROVE  GoneAsNamed(plan[Count(plan)], last'.rows, last'.failure) /\ last'.plan = plan
    <3> DEFINE end == Execute(plan, db, fuse)
    <3>1. IsDb(db)
      BY <1>1 DEF IInv, WellKept
    <3>2. Gone(plan[Count(plan)], end.rows, db, end.db, ~ Going(end))
      BY <2>2, <3>1, ExecuteDeletes
    <3> HIDE DEF end
    <3>3. db' = end.db /\ last'.plan = plan /\ last'.rows = end.rows /\ last'.failure = end.failure
      BY <2>2 DEF Run1, end
    <3>4. Gone(plan[Count(plan)], last'.rows, db, db', last'.failure # <<>>)
      BY <3>2, <3>3 DEF Going
    <3> QED BY <3>3, <3>4, GoneIsNamed
  <2>3. ASSUME NEW text, NEW plan, Run1(text, plan)  PROVE A
    <3>1. last'.plan = plan
      BY <2>3 DEF Run1
    <3> QED BY <2>2, <2>3, <3>1
  <2> QED BY <1>1, <2>1, <2>3 DEF Next
<1> QED BY <1>1, EngineInv, PTL DEF Spec, DeletesNamed

-----------------------------------------------------------------------------
(* MERGE, run again.  Engines that only grow: what was there stays as it   *)
(* was, and what is new has ids not given before.                          *)

Added(f, n, g) ==
    /\ DOMAIN f \subseteq DOMAIN g /\ \A id \in DOMAIN f : g[id] = f[id]
    /\ \A id \in DOMAIN g \ DOMAIN f : id >= n
Extended(d, c) ==
    /\ Added(d.nodes, d.next.node, c.nodes) /\ d.next.node <= c.next.node
    /\ Added(d.edges, d.next.edge, c.edges) /\ d.next.edge <= c.next.edge
    /\ c.versions = d.versions /\ c.subgraphs = d.subgraphs /\ c.members = d.members
    /\ c.hyperedges = d.hyperedges /\ c.clock = d.clock
Numbered(d) == IsDb(d) /\ IdsGiven(d)
EntitiesOf(d) == {<<"Node", id>> : id \in DOMAIN d.nodes} \cup {<<"Edge", e>> : e \in DOMAIN d.edges}
RowThere(row, d) == \A c \in DOMAIN row : row[c] \in EntitiesOf(d)

LEMMA NumberedIs ==
  ASSUME NEW d, Numbered(d)
  PROVE  /\ d.next.node \in Nat /\ d.next.edge \in Nat
         /\ \A id \in DOMAIN d.nodes : id \in Nat /\ id < d.next.node
         /\ \A e \in DOMAIN d.edges : e \in Nat /\ e < d.next.edge
<1>1. d.next.node \in Nat /\ d.next.edge \in Nat
  BY DEF Numbered, IsDb
<1>2. DOMAIN d.nodes \subseteq 0..(d.next.node - 1) /\ DOMAIN d.edges \subseteq 0..(d.next.edge - 1)
  BY DEF Numbered, IdsGiven
<1> QED BY <1>1, <1>2

LEMMA AddedTwice ==
  ASSUME NEW f, NEW n \in Nat, NEW g, NEW m \in Nat, NEW h, n <= m, DOMAIN g \subseteq Nat, DOMAIN h \subseteq Nat,
         Added(f, n, g), Added(g, m, h)
  PROVE  Added(f, n, h)
BY DEF Added

LEMMA ExtendedTwice ==
  ASSUME NEW d, Numbered(d), NEW b, Numbered(b), NEW c, Numbered(c), Extended(d, b), Extended(b, c)
  PROVE  Extended(d, c)
<1>1. /\ d.next.node \in Nat /\ b.next.node \in Nat /\ c.next.node \in Nat
      /\ d.next.edge \in Nat /\ b.next.edge \in Nat /\ c.next.edge \in Nat
      /\ DOMAIN b.nodes \subseteq Nat /\ DOMAIN c.nodes \subseteq Nat
      /\ DOMAIN b.edges \subseteq Nat /\ DOMAIN c.edges \subseteq Nat
  BY NumberedIs
<1>2. /\ Added(d.nodes, d.next.node, b.nodes) /\ d.next.node <= b.next.node
      /\ Added(d.edges, d.next.edge, b.edges) /\ d.next.edge <= b.next.edge
      /\ Added(b.nodes, b.next.node, c.nodes) /\ b.next.node <= c.next.node
      /\ Added(b.edges, b.next.edge, c.edges) /\ b.next.edge <= c.next.edge
  BY DEF Extended
<1>3. Added(d.nodes, d.next.node, c.nodes)
  BY <1>1, <1>2, AddedTwice
<1>4. Added(d.edges, d.next.edge, c.edges)
  BY <1>1, <1>2, AddedTwice
<1>5. d.next.node <= c.next.node /\ d.next.edge <= c.next.edge
  BY <1>1, <1>2
<1> QED BY <1>3, <1>4, <1>5 DEF Extended

LEMMA ExtendedSelf ==
  ASSUME NEW d, Numbered(d)
  PROVE  Extended(d, d)
<1>1. d.next.node <= d.next.node /\ d.next.edge <= d.next.edge
  BY NumberedIs
<1> QED BY <1>1 DEF Extended, Added

LEMMA RowStays ==
  ASSUME NEW row, NEW d, NEW c, RowThere(row, d), Extended(d, c)
  PROVE  RowThere(row, c)
<1>1. EntitiesOf(d) \subseteq EntitiesOf(c)
  BY DEF EntitiesOf, Extended, Added
<1> QED BY <1>1 DEF RowThere

LEMMA BindThere ==
  ASSUME NEW row, NEW d, RowThere(row, d), NEW opt, NEW v \in EntitiesOf(d)
  PROVE  RowThere(BindOpt(row, opt, v), d)
<1>1. CASE opt = <<>>
  BY <1>1 DEF BindOpt
<1>2. CASE opt # <<>>
  BY <1>2 DEF BindOpt, Bind, RowThere
<1> QED BY <1>1, <1>2

\* What neither operation touches.
LEMMA OthersStay ==
  ASSUME NEW d, IsDb(d), NEW x, NEW y, NEW c,
         c \in {CreateNode(d, x, y), CreateEdge(d, x), LoseEdgeId(d)}
  PROVE  c.subgraphs = d.subgraphs /\ c.members = d.members /\ c.hyperedges = d.hyperedges
<1>1. c = CreateNode(d, x, y) => c.subgraphs = d.subgraphs /\ c.members = d.members /\ c.hyperedges = d.hyperedges
  <2> DEFINE X == Bind(d.nodes, d.next.node, [labels |-> x, props |-> y])
             Y == NextUp(d, "node")
  <2>1. CreateNode(d, x, y) = [k \in DbKeys |-> Field(k, "nodes", X, "next", Y, d)]
    BY CreateNodeFields
  <2> HIDE DEF X, Y
  <2> QED BY <2>1 DEF Field, DbKeys
<1>2. c = CreateEdge(d, x) => c.subgraphs = d.subgraphs /\ c.members = d.members /\ c.hyperedges = d.hyperedges
  BY DbIs DEF CreateEdge, DbKeys
<1>3. c = LoseEdgeId(d) => c.subgraphs = d.subgraphs /\ c.members = d.members /\ c.hyperedges = d.hyperedges
  BY DbIs DEF LoseEdgeId, DbKeys
<1> QED BY <1>1, <1>2, <1>3

LEMMA AddedBind ==
  ASSUME NEW f, NEW n \in Nat, DOMAIN f \subseteq 0..(n - 1), NEW v, NEW g, g = Bind(f, n, v)
  PROVE  Added(f, n, g) /\ n \in DOMAIN g /\ g[n] = v /\ DOMAIN g \subseteq 0..n
BY DEF Added, Bind

GrownBy(d, c, field, id, v) == Numbered(c) /\ Extended(d, c) /\ id \in DOMAIN c[field] /\ c[field][id] = v

LEMMA GrowNode ==
  ASSUME NEW d, Numbered(d), NEW labels, NEW props, NEW c, c = CreateNode(d, labels, props)
  PROVE  GrownBy(d, c, "nodes", d.next.node, [labels |-> labels, props |-> props])
<1> DEFINE n == d.next.node
           v == [labels |-> labels, props |-> props]
           g == c.nodes
<1>1. /\ IsDb(c) /\ c.clock = d.clock /\ c.edges = d.edges /\ c.versions = d.versions
      /\ g = Bind(d.nodes, n, v) /\ c.next.node = n + 1 /\ c.next.edge = d.next.edge
  BY CreateNodeIs DEF Numbered
<1>2. c.subgraphs = d.subgraphs /\ c.members = d.members /\ c.hyperedges = d.hyperedges
  BY OthersStay DEF Numbered
<1>3. n \in Nat /\ d.next.edge \in Nat /\ DOMAIN d.nodes \cup DOMAIN d.versions \subseteq 0..(n - 1)
      /\ DOMAIN d.edges \subseteq 0..(d.next.edge - 1)
  BY DEF Numbered, IsDb, IdsGiven
<1> HIDE DEF n, v, g
<1>4. Added(d.nodes, n, g) /\ n \in DOMAIN g /\ g[n] = v /\ DOMAIN g \subseteq 0..n
  BY <1>1, <1>3, AddedBind
<1>5. Added(d.edges, d.next.edge, c.edges)
  BY <1>1 DEF Added
<1>6. n <= c.next.node /\ d.next.edge <= c.next.edge /\ c.next.node - 1 = n
  BY <1>1, <1>3
<1>7. Extended(d, c)
  BY <1>1, <1>2, <1>4, <1>5, <1>6 DEF Extended, n, g
<1>8. IdsGiven(c)
  <2>1. DOMAIN c.nodes \subseteq 0..(c.next.node - 1)
    BY <1>4, <1>6 DEF g
  <2>2. DOMAIN c.versions \subseteq 0..(c.next.node - 1)
    BY <1>1, <1>3, <1>6
  <2>3. DOMAIN c.edges \subseteq 0..(c.next.edge - 1)
    BY <1>1, <1>3
  <2> QED BY <2>1, <2>2, <2>3 DEF IdsGiven
<1> QED BY <1>1, <1>4, <1>7, <1>8 DEF GrownBy, Numbered, n, v, g

LEMMA GrowEdge ==
  ASSUME NEW d, Numbered(d), NEW edge, NEW c, c = CreateEdge(d, edge)
  PROVE  GrownBy(d, c, "edges", d.next.edge, edge)
<1> DEFINE n == d.next.edge
           g == c.edges
<1>1. /\ IsDb(c) /\ c.clock = d.clock /\ c.nodes = d.nodes /\ c.versions = d.versions
      /\ g = Bind(d.edges, n, edge) /\ c.next.edge = n + 1 /\ c.next.node = d.next.node
  BY CreateEdgeIs DEF Numbered
<1>2. c.subgraphs = d.subgraphs /\ c.members = d.members /\ c.hyperedges = d.hyperedges
  BY OthersStay DEF Numbered
<1>3. n \in Nat /\ d.next.node \in Nat /\ DOMAIN d.nodes \cup DOMAIN d.versions \subseteq 0..(d.next.node - 1)
      /\ DOMAIN d.edges \subseteq 0..(n - 1)
  BY DEF Numbered, IsDb, IdsGiven
<1> HIDE DEF n, g
<1>4. Added(d.edges, n, g) /\ n \in DOMAIN g /\ g[n] = edge /\ DOMAIN g \subseteq 0..n
  BY <1>1, <1>3, AddedBind
<1>5. Added(d.nodes, d.next.node, c.nodes)
  BY <1>1 DEF Added
<1>6. n <= c.next.edge /\ d.next.node <= c.next.node /\ c.next.edge - 1 = n
  BY <1>1, <1>3
<1>7. Extended(d, c)
  BY <1>1, <1>2, <1>4, <1>5, <1>6 DEF Extended, n, g
<1>8. IdsGiven(c)
  <2>1. DOMAIN c.edges \subseteq 0..(c.next.edge - 1)
    BY <1>4, <1>6 DEF g
  <2>2. DOMAIN c.nodes \cup DOMAIN c.versions \subseteq 0..(c.next.node - 1)
    BY <1>1, <1>3
  <2> QED BY <2>1, <2>2 DEF IdsGiven
<1> QED BY <1>1, <1>4, <1>7, <1>8 DEF GrownBy, Numbered, n, g

LEMMA GrowLost ==
  ASSUME NEW d, Numbered(d), NEW c, c = LoseEdgeId(d)
  PROVE  Numbered(c) /\ Extended(d, c)
<1>1. /\ IsDb(c) /\ c.clock = d.clock /\ c.nodes = d.nodes /\ c.versions = d.versions
      /\ c.edges = d.edges /\ c.next.edge = d.next.edge + 1 /\ c.next.node = d.next.node
  BY LoseEdgeIdIs DEF Numbered
<1>2. c.subgraphs = d.subgraphs /\ c.members = d.members /\ c.hyperedges = d.hyperedges
  BY OthersStay DEF Numbered
<1>3. d.next.edge \in Nat /\ d.next.node \in Nat /\ DOMAIN d.nodes \cup DOMAIN d.versions \subseteq 0..(d.next.node - 1)
      /\ DOMAIN d.edges \subseteq 0..(d.next.edge - 1)
  BY DEF Numbered, IsDb, IdsGiven
<1>4. Added(d.nodes, d.next.node, c.nodes) /\ Added(d.edges, d.next.edge, c.edges)
  BY <1>1 DEF Added
<1>5. d.next.node <= c.next.node /\ d.next.edge <= c.next.edge
  BY <1>1, <1>3
<1>6. IdsGiven(c)
  <2>1. DOMAIN c.edges \subseteq 0..(c.next.edge - 1)
    BY <1>1, <1>3
  <2>2. DOMAIN c.nodes \cup DOMAIN c.versions \subseteq 0..(c.next.node - 1)
    BY <1>1, <1>3
  <2> QED BY <2>1, <2>2 DEF IdsGiven
<1> QED BY <1>1, <1>2, <1>4, <1>5, <1>6 DEF Extended, Numbered

-----------------------------------------------------------------------------
(* What is found first is found again. *)

LEMMA LowestIs ==
  ASSUME NEW S \in SUBSET Nat, NEW x \in S, \A y \in S : x <= y
  PROVE  Lowest(S) = <<x>>
<1> DEFINE m == Min(S)
<1>1. m \in S /\ \A y \in S : m <= y
  BY DEF Min
<1>2. m = x
  <2> HIDE DEF m
  <2>1. m <= x /\ x <= m /\ m \in Nat /\ x \in Nat
    BY <1>1
  <2> QED BY <2>1
<1> QED BY <1>2 DEF Lowest

LEMMA LowestStays ==
  ASSUME NEW S \in SUBSET Nat, NEW T \in SUBSET Nat, S \subseteq T, NEW n \in Nat,
         \A x \in S : x < n, \A y \in T \ S : y >= n, Lowest(S) # <<>>
  PROVE  Lowest(T) = Lowest(S) /\ \E x \in S : Lowest(S) = <<x>>
<1>1. S # {}
  BY DEF Lowest
<1>2. PICK x \in S : \A y \in S : x <= y
  BY <1>1, LeastExists
<1>3. \A y \in T : x <= y
  BY <1>2
<1>4. Lowest(S) = <<x>>
  BY <1>2, LowestIs
<1>5. Lowest(T) = <<x>>
  BY <1>3, LowestIs
<1> QED BY <1>4, <1>5

LEMMA LowestNone ==
  ASSUME NEW S, Lowest(S) = <<>>
  PROVE  S = {}
<1>1. \A x : <<x>> # <<>>
  OBVIOUS
<1> QED BY <1>1 DEF Lowest

\* The entities of f of a kind, where f has grown to g.
LEMMA FoundStays ==
  ASSUME NEW f, NEW g, NEW n \in Nat, Added(f, n, g), DOMAIN f \subseteq 0..(n - 1), DOMAIN g \subseteq Nat,
         NEW S, NEW T, S \subseteq DOMAIN f, T \subseteq DOMAIN g, \A id \in DOMAIN f : id \in T <=> id \in S
  PROVE  /\ Lowest(S) # <<>> => Lowest(T) = Lowest(S) /\ \E x \in S : Lowest(S) = <<x>>
         /\ Lowest(S) = <<>> => (n \in T => Lowest(T) = <<n>>)
<1>1. S \in SUBSET Nat /\ T \in SUBSET Nat /\ S \subseteq T /\ \A x \in S : x < n
  BY DEF Added
<1>2. \A y \in T \ S : y >= n
  BY DEF Added
<1>3. ASSUME Lowest(S) # <<>>  PROVE Lowest(T) = Lowest(S) /\ \E x \in S : Lowest(S) = <<x>>
  BY <1>1, <1>2, <1>3, LowestStays
<1>4. ASSUME Lowest(S) = <<>>, n \in T  PROVE Lowest(T) = <<n>>
  <2>1. S = {}
    BY <1>4, LowestNone
  <2>2. \A y \in T : n <= y
    BY <1>1, <1>2, <2>1
  <2> QED BY <1>1, <1>4, <2>2, LowestIs
<1> QED BY <1>3, <1>4

Alike(d, labels, props) ==
    {id \in DOMAIN d.nodes : ToSet(labels) \subseteq ToSet(d.nodes[id].labels) /\ PropsIn(props, d.nodes[id].props)}
EdgesJoining(d, from, to, type) ==
    {e \in DOMAIN d.edges : d.edges[e].from = from /\ d.edges[e].to = to /\ d.edges[e].type = type}

LEMMA FindNodeAgain ==
  ASSUME NEW d, Numbered(d), NEW c, Numbered(c), Extended(d, c), NEW labels, NEW props
  PROVE  /\ FindNode(d, labels, props) # <<>> =>
              /\ FindNode(c, labels, props) = FindNode(d, labels, props)
              /\ \E id \in DOMAIN d.nodes : FindNode(d, labels, props) = <<id>>
         /\ FindNode(d, labels, props) = <<>> /\ d.next.node \in Alike(c, labels, props) =>
              FindNode(c, labels, props) = <<d.next.node>>
<1> DEFINE f == d.nodes
           g == c.nodes
           n == d.next.node
           S == Alike(d, labels, props)
           T == Alike(c, labels, props)
<1>1. Added(f, n, g) /\ n \in Nat /\ DOMAIN f \subseteq 0..(n - 1) /\ DOMAIN g \subseteq Nat
  BY NumberedIs DEF Extended, Numbered, IdsGiven
<1>2. S \subseteq DOMAIN f /\ T \subseteq DOMAIN g
  BY DEF Alike
<1>3. \A id \in DOMAIN f : id \in T <=> id \in S
  BY <1>1 DEF Alike, Added
<1>4. FindNode(d, labels, props) = Lowest(S) /\ FindNode(c, labels, props) = Lowest(T)
  BY DEF FindNode, Alike
<1> HIDE DEF f, g, n, S, T
<1>5. /\ Lowest(S) # <<>> => Lowest(T) = Lowest(S) /\ \E x \in S : Lowest(S) = <<x>>
      /\ Lowest(S) = <<>> => (n \in T => Lowest(T) = <<n>>)
  BY <1>1, <1>2, <1>3, FoundStays
<1>6. Lowest(S) # <<>> => \E x \in DOMAIN f : Lowest(S) = <<x>>
  BY <1>2, <1>5
<1> QED BY <1>4, <1>5, <1>6 DEF f, n, T

LEMMA FindEdgeAgain ==
  ASSUME NEW d, Numbered(d), NEW c, Numbered(c), Extended(d, c), NEW from, NEW to, NEW type
  PROVE  /\ FindEdge(d, from, to, type) # <<>> =>
              /\ FindEdge(c, from, to, type) = FindEdge(d, from, to, type)
              /\ \E e \in DOMAIN d.edges : FindEdge(d, from, to, type) = <<e>>
         /\ FindEdge(d, from, to, type) = <<>> /\ d.next.edge \in EdgesJoining(c, from, to, type) =>
              FindEdge(c, from, to, type) = <<d.next.edge>>
<1> DEFINE f == d.edges
           g == c.edges
           n == d.next.edge
           S == EdgesJoining(d, from, to, type)
           T == EdgesJoining(c, from, to, type)
<1>1. Added(f, n, g) /\ n \in Nat /\ DOMAIN f \subseteq 0..(n - 1) /\ DOMAIN g \subseteq Nat
  BY NumberedIs DEF Extended, Numbered, IdsGiven
<1>2. S \subseteq DOMAIN f /\ T \subseteq DOMAIN g
  BY DEF EdgesJoining
<1>3. \A id \in DOMAIN f : id \in T <=> id \in S
  BY <1>1 DEF EdgesJoining, Added
<1>4. FindEdge(d, from, to, type) = Lowest(S) /\ FindEdge(c, from, to, type) = Lowest(T)
  BY DEF FindEdge, EdgesJoining
<1> HIDE DEF f, g, n, S, T
<1>5. /\ Lowest(S) # <<>> => Lowest(T) = Lowest(S) /\ \E x \in S : Lowest(S) = <<x>>
      /\ Lowest(S) = <<>> => (n \in T => Lowest(T) = <<n>>)
  BY <1>1, <1>2, <1>3, FoundStays
<1>6. Lowest(S) # <<>> => \E x \in DOMAIN f : Lowest(S) = <<x>>
  BY <1>2, <1>5
<1> QED BY <1>4, <1>5, <1>6 DEF f, n, T

-----------------------------------------------------------------------------
(* Two threads: the second goes over the engine the first has left, and    *)
(* finds where the first has found or made.                                *)

Ok(s) == IsThread(s) /\ Numbered(s.db) /\ RowThere(s.row, s.db)
\* From s the first comes to t.
Leads(s, t) ==
    /\ IsThread(t) /\ Numbered(t.db) /\ Extended(s.db, t.db)
    /\ Going(t) => Going(s) /\ RowThere(t.row, t.db)
\* r is where the second is, on the engine F, when the first is at s.
Twin(s, r, F) == IsThread(r) /\ Going(r) /\ r.db = F /\ r.row = s.row /\ r.last = s.last /\ r.rows = s.rows
Again(s, t, r, u, F) == Leads(s, t) /\ (Going(t) /\ Extended(t.db, F) /\ Twin(s, r, F) => Twin(t, u, F))

LEMMA LeadsTwice ==
  ASSUME NEW s, Ok(s), NEW t, Leads(s, t), NEW v, Leads(t, v)
  PROVE  Leads(s, v)
<1>1. Extended(s.db, v.db)
  BY ExtendedTwice DEF Ok, Leads
<1> QED BY <1>1 DEF Leads

LEMMA AgainTwice ==
  ASSUME NEW F, Numbered(F), NEW s, Ok(s), NEW t, NEW r, NEW u, Again(s, t, r, u, F), NEW v, NEW w,
         Going(t) => Again(t, v, u, w, F), ~ Going(t) => v = t
  PROVE  Again(s, v, r, w, F)
<1>1. CASE ~ Going(t)
  BY <1>1 DEF Again
<1>2. CASE Going(t)
  <2>1. Leads(s, v)
    BY <1>2, LeadsTwice DEF Again
  <2>2. Extended(v.db, F) => Extended(t.db, F)
    BY <1>2, ExtendedTwice DEF Again, Leads
  <2> QED BY <1>2, <2>1, <2>2 DEF Again, Leads
<1> QED BY <1>1, <1>2

LEMMA LeadsOk ==
  ASSUME NEW s, NEW t, Leads(s, t), Going(t)
  PROVE  Ok(t)
BY DEF Leads, Ok

Puts(u, s, k, v) == k \in ThreadKeys /\ u = [s EXCEPT ![k] = v]

LEMMA PutIs ==
  ASSUME NEW s, IsThread(s), NEW k, NEW v, NEW u, Puts(u, s, k, v)
  PROVE  IsThread(u) /\ u[k] = v /\ \A j \in ThreadKeys \ {k} : u[j] = s[j]
<1>1. u = [j \in ThreadKeys |-> u[j]] /\ u[k] = v /\ \A j \in ThreadKeys \ {k} : u[j] = s[j]
  BY DEF IsThread, Puts
<1> QED BY <1>1 DEF IsThread

\* A failure, and nothing else.
LEMMA FailWithIs ==
  ASSUME NEW s, IsThread(s), NEW v, NEW u, u = FailWith(s, v)
  PROVE  /\ IsThread(u) /\ u.failure = v
         /\ u.db = s.db /\ u.row = s.row /\ u.last = s.last /\ u.rows = s.rows /\ u.own = s.own
<1>1. Puts(u, s, "failure", v)
  BY DEF FailWith, Puts, ThreadKeys
<1>2. IsThread(u) /\ u["failure"] = v /\ \A j \in ThreadKeys \ {"failure"} : u[j] = s[j]
  BY <1>1, PutIs
<1> QED BY <1>2 DEF ThreadKeys

LEMMA FailLeads ==
  ASSUME NEW s, Ok(s), NEW t, t = Fail(s)
  PROVE  Leads(s, t) /\ ~ Going(t)
<1>1. t = FailWith(s, Error) /\ Error # <<>>
  BY DEF Fail, Error
<1>2. IsThread(t) /\ t.failure = Error /\ t.db = s.db
  BY <1>1, FailWithIs DEF Ok
<1> QED BY <1>1, <1>2, ExtendedSelf DEF Leads, Ok, Going

LEMMA FailAgain ==
  ASSUME NEW s, Ok(s), NEW t, t = Fail(s), NEW r, NEW u, NEW F
  PROVE  Again(s, t, r, u, F)
BY FailLeads DEF Again

LEMMA BindRowIs ==
  ASSUME NEW s, IsThread(s), NEW opt, NEW v, NEW u, u = BindRow(s, opt, v)
  PROVE  /\ IsThread(u) /\ u.row = BindOpt(s.row, opt, v)
         /\ u.db = s.db /\ u.failure = s.failure /\ u.last = s.last /\ u.rows = s.rows
<1> DEFINE row == BindOpt(s.row, opt, v)
<1>1. Puts(u, s, "row", row)
  BY DEF BindRow, Puts, ThreadKeys
<1> HIDE DEF row
<1>2. IsThread(u) /\ u["row"] = row /\ \A j \in ThreadKeys \ {"row"} : u[j] = s[j]
  BY <1>1, PutIs
<1> QED BY <1>2 DEF ThreadKeys, row

LEMMA LastIs ==
  ASSUME NEW s, IsThread(s), NEW id, NEW u, u = [s EXCEPT !.last = id]
  PROVE  /\ IsThread(u) /\ u.last = id
         /\ u.db = s.db /\ u.failure = s.failure /\ u.row = s.row /\ u.rows = s.rows
<1>1. Puts(u, s, "last", id)
  BY DEF Puts, ThreadKeys
<1>2. IsThread(u) /\ u["last"] = id /\ \A j \in ThreadKeys \ {"last"} : u[j] = s[j]
  BY <1>1, PutIs
<1> QED BY <1>2 DEF ThreadKeys

-----------------------------------------------------------------------------
(* Properties. *)

\* A value is the same on an engine that has more, in a row of what was there before.
SameOn(e) ==
    \A row, d, c : Numbered(d) /\ Numbered(c) /\ Extended(d, c) /\ RowThere(row, d) =>
      ValueIn(e, row, d) = ValueIn(e, row, c)
LooksUp(opt) == \A k \in DOMAIN Entries(opt) : SameOn(Entries(opt)[k].value)

OwnOf(opt, vals) ==
    [key \in {Entries(opt)[k].key : k \in DOMAIN vals} |-> vals[Min({k \in DOMAIN vals : Entries(opt)[k].key = key})]]

LEMMA WithOwnIs ==
  ASSUME NEW s, IsThread(s), NEW opt, NEW vals, NEW u, u = WithOwn(s, opt, vals)
  PROVE  /\ IsThread(u) /\ u.db = s.db /\ u.row = s.row /\ u.last = s.last /\ u.rows = s.rows
         /\ u.own = IF HasFailed(vals) THEN EmptyRow ELSE OwnOf(opt, vals)
         /\ u.failure = IF HasFailed(vals) THEN Failure(vals) ELSE s.failure
<1> DEFINE own == IF HasFailed(vals) THEN EmptyRow ELSE OwnOf(opt, vals)
           w == [s EXCEPT !.own = own]
           f == Failure(vals)
<1>1. u = IF HasFailed(vals) THEN FailWith(w, f) ELSE w
  BY DEF WithOwn, OwnOf
<1>2. Puts(w, s, "own", own)
  BY DEF Puts, ThreadKeys
<1> HIDE DEF own, w, f
<1>3. IsThread(w) /\ w["own"] = own /\ \A j \in ThreadKeys \ {"own"} : w[j] = s[j]
  BY <1>2, PutIs
<1>4. w.own = own /\ w.db = s.db /\ w.row = s.row /\ w.last = s.last /\ w.rows = s.rows /\ w.failure = s.failure
  BY <1>3 DEF ThreadKeys
<1>5. CASE HasFailed(vals)
  <2>1. /\ IsThread(u) /\ u.failure = f
        /\ u.db = w.db /\ u.row = w.row /\ u.last = w.last /\ u.rows = w.rows /\ u.own = w.own
    BY <1>1, <1>3, <1>5, FailWithIs
  <2> QED BY <1>4, <1>5, <2>1 DEF own, f
<1>6. CASE ~ HasFailed(vals)
  BY <1>1, <1>3, <1>4, <1>6 DEF own
<1> QED BY <1>5, <1>6

LEMMA ResolvedAgain ==
  ASSUME NEW s, Ok(s), NEW opt, LooksUp(opt), NEW r, r.row = s.row,
         Numbered(r.db), Extended(s.db, r.db)
  PROVE  Resolved(r, opt) = Resolved(s, opt)
<1>1. ASSUME NEW k \in DOMAIN Entries(opt)
      PROVE  Stored(Entries(opt)[k].value, s.row, r.db) = Stored(Entries(opt)[k].value, s.row, s.db)
  <2> DEFINE e == Entries(opt)[k].value
  <2>1. SameOn(e)
    BY DEF LooksUp
  <2> HIDE DEF e
  <2>2. ValueIn(e, s.row, r.db) = ValueIn(e, s.row, s.db)
    BY <2>1 DEF SameOn, Ok
  <2>3. Stored(e, s.row, r.db) = Stored(e, s.row, s.db)
    BY <2>2 DEF Stored
  <2> QED BY <2>3 DEF e
<1> QED BY <1>1 DEF Resolved

LEMMA ResolveKeeps ==
  ASSUME NEW s, Ok(s), Going(s), NEW opt, NEW t, t = Resolve(s, opt)
  PROVE  /\ Leads(s, t) /\ t.db = s.db /\ t.row = s.row /\ t.last = s.last /\ t.rows = s.rows
<1>1. IsThread(t) /\ t.db = s.db /\ t.row = s.row /\ t.last = s.last /\ t.rows = s.rows
  BY WithOwnIs DEF Resolve, Ok
<1> QED BY <1>1, ExtendedSelf DEF Leads, Ok

LEMMA ResolveAgain ==
  ASSUME NEW F, Numbered(F), NEW s, Ok(s), Going(s), NEW opt, LooksUp(opt), NEW r, Twin(s, r, F), Extended(s.db, F),
         NEW t, t = Resolve(s, opt), Going(t), NEW u, u = Resolve(r, opt)
  PROVE  Twin(t, u, F) /\ u.own = t.own
<1> DEFINE vals == Resolved(s, opt)
<1>1. vals = Resolved(r, opt)
  BY ResolvedAgain DEF Twin
<1>2. t = WithOwn(s, opt, vals) /\ u = WithOwn(r, opt, vals)
  BY <1>1 DEF Resolve
<1> HIDE DEF vals
<1>3. /\ IsThread(t) /\ t.db = s.db /\ t.row = s.row /\ t.last = s.last /\ t.rows = s.rows
      /\ t.own = IF HasFailed(vals) THEN EmptyRow ELSE OwnOf(opt, vals)
      /\ t.failure = IF HasFailed(vals) THEN Failure(vals) ELSE s.failure
  BY <1>2, WithOwnIs DEF Ok
<1>4. /\ IsThread(u) /\ u.db = r.db /\ u.row = r.row /\ u.last = r.last /\ u.rows = r.rows
      /\ u.own = IF HasFailed(vals) THEN EmptyRow ELSE OwnOf(opt, vals)
      /\ u.failure = IF HasFailed(vals) THEN Failure(vals) ELSE r.failure
  BY <1>2, WithOwnIs DEF Twin
<1> QED BY <1>3, <1>4 DEF Twin, Going

-----------------------------------------------------------------------------
(* Nodes and edges. *)

\* FindOrMake of a node looked for.
FoundFor(a, n) == IF Going(a) THEN FindNode(a.db, n.labels, a.own) ELSE <<>>
Met(a, n) == FindOrMake(a, n, FoundFor(a, n))

\* The node of this id is the one, in the row and as the last.
NodeIs(t, a, n, id) ==
    /\ IsThread(t) /\ t.row = BindOpt(a.row, n.variable, <<"Node", id>>) /\ t.last = id
    /\ t.rows = a.rows /\ t.failure = a.failure

LEMMA MetFound ==
  ASSUME NEW a, IsThread(a), Going(a), NEW n, NEW id, FoundFor(a, n) = <<id>>, NEW t, t = Met(a, n)
  PROVE  NodeIs(t, a, n, id) /\ t.db = a.db
<1> DEFINE b == [a EXCEPT !.last = id]
           v == <<"Node", id>>
<1>1. t = BindRow(b, n.variable, v)
  <2>1. <<id>> # <<>> /\ <<id>>[1] = id
    OBVIOUS
  <2> QED BY <2>1 DEF Met, FindOrMake
<1>2. IsThread(b) /\ b.last = id /\ b.db = a.db /\ b.failure = a.failure /\ b.row = a.row /\ b.rows = a.rows
  BY LastIs
<1> HIDE DEF b, v
<1>3. /\ IsThread(t) /\ t.row = BindOpt(b.row, n.variable, v)
      /\ t.db = b.db /\ t.failure = b.failure /\ t.last = b.last /\ t.rows = b.rows
  BY <1>1, <1>2, BindRowIs
<1> QED BY <1>2, <1>3 DEF NodeIs, v

LEMMA NewNodeIs ==
  ASSUME NEW a, IsThread(a), Going(a), NEW n, NEW t, t = NewNode(a, n)
  PROVE  /\ NodeIs(t, a, n, a.db.next.node)
         /\ t.db = CreateNode(a.db, n.labels, Over(a.own, Created(a)))
<1> DEFINE id == a.db.next.node
           v == <<"Node", id>>
           c == CreateNode(a.db, n.labels, Over(a.own, Created(a)))
           b == [a EXCEPT !.db = CreateNode(@, n.labels, Over(a.own, Created(a))), !.created = TRUE, !.last = id]
<1>1. t = BindRow(b, n.variable, v)
  BY DEF NewNode
<1>2. IsThread(b) /\ b.last = id /\ b.db = c /\ b.failure = a.failure /\ b.row = a.row /\ b.rows = a.rows
  BY DEF IsThread, ThreadKeys
<1> HIDE DEF b, v, c, id
<1>3. /\ IsThread(t) /\ t.row = BindOpt(b.row, n.variable, v)
      /\ t.db = b.db /\ t.failure = b.failure /\ t.last = b.last /\ t.rows = b.rows
  BY <1>1, <1>2, BindRowIs
<1> QED BY <1>2, <1>3 DEF NodeIs, v, c, id

LEMMA NodeLeads ==
  ASSUME NEW a, Ok(a), Going(a), NEW t, NEW n, NEW id, NodeIs(t, a, n, id),
         Numbered(t.db), Extended(a.db, t.db), id \in DOMAIN t.db.nodes
  PROVE  Leads(a, t)
<1>1. RowThere(a.row, t.db)
  BY RowStays DEF Ok
<1> DEFINE v == <<"Node", id>>
<1>2. v \in EntitiesOf(t.db)
  BY DEF EntitiesOf
<1> HIDE DEF v
<1>3. RowThere(BindOpt(a.row, n.variable, v), t.db)
  BY <1>1, <1>2, BindThere
<1> QED BY <1>3 DEF Leads, NodeIs, v

LEMMA NodeTwins ==
  ASSUME NEW F, NEW a, NEW b, Twin(a, b, F), NEW n, NEW id, NEW t, NodeIs(t, a, n, id),
         NEW u, NodeIs(u, b, n, id), u.db = F
  PROVE  Twin(t, u, F)
BY DEF Twin, NodeIs, Going

MetCase(a, n, t) ==
    \/ \E id \in DOMAIN a.db.nodes : FoundFor(a, n) = <<id>>
    \/ FoundFor(a, n) = <<>> /\ SetsSystem(n.properties) /\ t = Fail(a)
    \/ FoundFor(a, n) = <<>> /\ t = NewNode(a, n)

LEMMA MetCases ==
  ASSUME NEW a, Ok(a), Going(a), NEW n, NEW t, t = Met(a, n)
  PROVE  MetCase(a, n, t)
<1>1. CASE FoundFor(a, n) = <<>>
  BY <1>1 DEF MetCase, Met, FindOrMake
<1>2. CASE FoundFor(a, n) # <<>>
  <2> DEFINE d == a.db
             labels == n.labels
             own == a.own
  <2>1. FindNode(d, labels, own) = FoundFor(a, n)
    BY DEF FoundFor
  <2>2. Numbered(d) /\ Extended(d, d)
    BY ExtendedSelf DEF Ok
  <2> HIDE DEF d, labels, own
  <2>3. \E id \in DOMAIN d.nodes : FindNode(d, labels, own) = <<id>>
    BY <1>2, <2>1, <2>2, FindNodeAgain
  <2> QED BY <2>1, <2>3 DEF MetCase, d
<1> QED BY <1>1, <1>2

\* A node made is found with the properties it was made with.
LEMMA MadeAlike ==
  ASSUME NEW d, NEW c, NEW F, NEW id, NEW labels, NEW own, NEW stamps,
         GrownBy(d, c, "nodes", id, [labels |-> labels, props |-> Over(own, stamps)]), Extended(c, F)
  PROVE  id \in Alike(F, labels, own)
<1> DEFINE r == [labels |-> labels, props |-> Over(own, stamps)]
<1>1. id \in DOMAIN F.nodes /\ F.nodes[id] = r
  BY DEF GrownBy, Extended, Added
<1>2. r.labels = labels /\ r.props = Over(own, stamps)
  OBVIOUS
<1>3. PropsIn(own, r.props)
  <2> DEFINE all == Over(own, stamps)
  <2>1. \A key \in DOMAIN own : key \in DOMAIN all /\ all[key] = own[key]
    BY DEF Over
  <2> HIDE DEF all
  <2>2. PropsIn(own, all)
    BY <2>1 DEF PropsIn
  <2> QED BY <1>2, <2>2 DEF all
<1> HIDE DEF r
<1> QED BY <1>1, <1>2, <1>3 DEF Alike

LEMMA MetAgain ==
  ASSUME NEW F, Numbered(F), NEW a, Ok(a), Going(a), NEW n, NEW t, t = Met(a, n), NEW b, NEW u, u = Met(b, n)
  PROVE  /\ Leads(a, t)
         /\ Going(t) /\ Extended(t.db, F) /\ Twin(a, b, F) /\ b.own = a.own => Twin(t, u, F)
<1> DEFINE labels == n.labels
           own == a.own
           d == a.db
<1>1. MetCase(a, n, t)
  BY MetCases
<1>2. IsThread(a) /\ Numbered(d) /\ FoundFor(a, n) = FindNode(d, labels, own)
  BY DEF Ok, FoundFor
<1>3. ASSUME Twin(a, b, F), b.own = a.own
      PROVE  FoundFor(b, n) = FindNode(F, labels, own) /\ IsThread(b) /\ Going(b) /\ b.db = F
  BY <1>3 DEF FoundFor, Twin
<1> HIDE DEF labels, own, d
<1>4. CASE \E id \in DOMAIN a.db.nodes : FoundFor(a, n) = <<id>>
  <2>1. PICK id \in DOMAIN a.db.nodes : FoundFor(a, n) = <<id>>
    BY <1>4
  <2>2. NodeIs(t, a, n, id) /\ t.db = a.db
    BY <1>2, <2>1, MetFound
  <2>3. Leads(a, t)
    BY <2>1, <2>2, NodeLeads, ExtendedSelf DEF Ok
  <2>4. ASSUME Extended(t.db, F), Twin(a, b, F), b.own = a.own  PROVE Twin(t, u, F)
    <3>1. <<id>> # <<>>
      OBVIOUS
    <3>2. Extended(d, F)
      BY <2>2, <2>4 DEF d
    <3>3. FindNode(F, labels, own) = FindNode(d, labels, own)
      <4>1. FindNode(d, labels, own) # <<>> /\ Numbered(d)
        BY <1>2, <2>1, <3>1
      <4> QED BY <3>2, <4>1, FindNodeAgain
    <3>4. FoundFor(b, n) = <<id>>
      BY <1>2, <1>3, <2>1, <2>4, <3>3
    <3>5. NodeIs(u, b, n, id) /\ u.db = b.db
      BY <1>3, <2>4, <3>4, MetFound
    <3> QED BY <1>3, <2>2, <2>4, <3>5, NodeTwins
  <2> QED BY <2>3, <2>4
<1>5. CASE SetsSystem(n.properties) /\ t = Fail(a)
  BY <1>5, FailLeads
<1>6. CASE FoundFor(a, n) = <<>> /\ t = NewNode(a, n)
  <2> DEFINE id == a.db.next.node
             stamps == Created(a)
             props == Over(own, stamps)
             c == t.db
  <2>1. NodeIs(t, a, n, id) /\ c = CreateNode(d, labels, props)
    BY <1>2, <1>6, NewNodeIs DEF labels, own, d
  <2>i. id = d.next.node
    BY DEF d
  <2> HIDE DEF id, stamps, c
  <2>2. GrownBy(d, c, "nodes", id, [labels |-> labels, props |-> props])
    BY <1>2, <2>1, <2>i, GrowNode
  <2>3. Leads(a, t)
    BY <2>1, <2>2, NodeLeads DEF GrownBy, c, d
  <2>4. ASSUME Extended(t.db, F), Twin(a, b, F), b.own = a.own  PROVE Twin(t, u, F)
    <3>1. Extended(c, F) /\ Numbered(c) /\ Extended(d, c)
      BY <2>2, <2>4 DEF c, GrownBy
    <3>2. Extended(d, F)
      BY <1>2, <3>1, ExtendedTwice
    <3>3. id \in Alike(F, labels, own)
      BY <2>2, <3>1, MadeAlike
    <3>4. FindNode(F, labels, own) = <<id>>
      <4>1. FindNode(d, labels, own) = <<>> /\ Numbered(d)
        BY <1>2, <1>6
      <4>2. d.next.node \in Alike(F, labels, own)
        BY <2>i, <3>3
      <4>3. FindNode(F, labels, own) = <<d.next.node>>
        BY <3>2, <4>1, <4>2, FindNodeAgain
      <4> QED BY <2>i, <4>3
    <3>5. FoundFor(b, n) = <<id>>
      BY <1>3, <2>4, <3>4
    <3>6. NodeIs(u, b, n, id) /\ u.db = b.db
      BY <1>3, <2>4, <3>5, MetFound
    <3> QED BY <1>3, <2>1, <2>4, <3>6, NodeTwins
  <2> QED BY <2>3, <2>4
<1> QED BY <1>1, <1>4, <1>5, <1>6 DEF MetCase

MergedNode(s, n) == Met(Resolve(s, n.properties), n)

LEMMA MergedNodeIs ==
  ASSUME NEW s, NEW n
  PROVE  /\ Labelled(n) => MergeNode(s, n, n.labels # <<>>) = MergedNode(s, n)
         /\ Labelled(n) \/ Entries(n.properties) # <<>> =>
              MergeNode(s, n, n.labels # <<>> \/ Entries(n.properties) # <<>>) = MergedNode(s, n)
BY DEF Labelled, MergeNode, Merged, Found, ResolveToFind, MergedNode, Met, FoundFor

LEMMA MergedNodeAgain ==
  ASSUME NEW F, Numbered(F), NEW s, Ok(s), Going(s), NEW n, LooksUp(n.properties), NEW r
  PROVE  Again(s, MergedNode(s, n), r, MergedNode(r, n), F)
<1> DEFINE opt == n.properties
           a == Resolve(s, opt)
           b == Resolve(r, opt)
           t == Met(a, n)
           u == Met(b, n)
<1> HIDE DEF opt
<1>1. Leads(s, a) /\ a.db = s.db
  BY ResolveKeeps
<1>2. ASSUME Going(a), Extended(a.db, F), Twin(s, r, F)  PROVE Twin(a, b, F) /\ b.own = a.own
  <2>1. LooksUp(opt)
    BY DEF opt
  <2> QED BY <1>1, <1>2, <2>1, ResolveAgain
<1> HIDE DEF a, b
<1>3. CASE Going(a)
  <2>1. Ok(a)
    BY <1>1, <1>3, LeadsOk
  <2>2. /\ Leads(a, t)
        /\ Going(t) /\ Extended(t.db, F) /\ Twin(a, b, F) /\ b.own = a.own => Twin(t, u, F)
    BY <1>3, <2>1, MetAgain
  <2> HIDE DEF t, u
  <2>3. Leads(s, t)
    BY <1>1, <2>2, LeadsTwice
  <2>4. Extended(t.db, F) => Extended(a.db, F)
    BY <2>1, <2>2, ExtendedTwice DEF Ok, Leads
  <2>5. Again(s, t, r, u, F)
    BY <1>2, <1>3, <2>2, <2>3, <2>4 DEF Again
  <2> QED BY <2>5 DEF t, u, a, b, opt, MergedNode
<1>4. CASE ~ Going(a)
  <2>1. t = a
    BY <1>4 DEF Met, FindOrMake
  <2> HIDE DEF t, u
  <2>2. Again(s, t, r, u, F)
    BY <1>1, <1>4, <2>1 DEF Again
  <2> QED BY <2>2 DEF t, u, a, b, opt, MergedNode
<1> QED BY <1>3, <1>4

LEMMA MeetAgain ==
  ASSUME NEW F, Numbered(F), NEW s, Ok(s), Going(s), NEW n, NEW r
  PROVE  Again(s, Meet(s, n), r, Meet(r, n), F)
<1> DEFINE v == At(s.row, n.variable)
           id == v[2]
           t == Meet(s, n)
           u == Meet(r, n)
<1>1. CASE Type(v) = "Node"
  <2>1. t = [s EXCEPT !.last = id]
    BY <1>1 DEF Meet
  <2>2. Twin(s, r, F) => u = [r EXCEPT !.last = id]
    BY <1>1 DEF Meet, Twin
  <2> HIDE DEF v, id, t, u
  <2>3. /\ IsThread(t) /\ t.last = id
        /\ t.db = s.db /\ t.failure = s.failure /\ t.row = s.row /\ t.rows = s.rows
    BY <2>1, LastIs DEF Ok
  <2>4. Leads(s, t)
    BY <2>3, ExtendedSelf DEF Leads, Ok
  <2>5. ASSUME Twin(s, r, F)  PROVE Twin(t, u, F)
    <3>1. /\ IsThread(u) /\ u.last = id
          /\ u.db = r.db /\ u.failure = r.failure /\ u.row = r.row /\ u.rows = r.rows
      BY <2>2, <2>5, LastIs DEF Twin
    <3> QED BY <2>3, <2>5, <3>1 DEF Twin, Going
  <2>6. Again(s, t, r, u, F)
    BY <2>4, <2>5 DEF Again
  <2> QED BY <2>6 DEF t, u
<1>2. CASE Type(v) # "Node"
  <2>1. t = Fail(s)
    BY <1>2 DEF Meet
  <2> HIDE DEF t, u
  <2>2. Again(s, t, r, u, F)
    BY <2>1, FailAgain
  <2> QED BY <2>2 DEF t, u
<1> QED BY <1>1, <1>2

\* A relationship has been found or made.
EdgeIs(t, a, p, e) ==
    /\ IsThread(t) /\ t.row = BindOpt(a.row, p.variable, <<"Edge", e>>) /\ t.last = a.last
    /\ t.rows = a.rows /\ t.failure = a.failure

EdgeOf(a, p, ends, stamps) ==
    [type |-> p.types[1], from |-> ends[1], to |-> ends[2], props |-> Over(a.own, stamps)]

LEMMA BoundEdge ==
  ASSUME NEW a, IsThread(a), NEW p, NEW e, NEW t, t = BindRow(a, p.variable, <<"Edge", e>>)
  PROVE  EdgeIs(t, a, p, e) /\ t.db = a.db
<1> DEFINE v == <<"Edge", e>>
<1>1. t = BindRow(a, p.variable, v)
  OBVIOUS
<1> HIDE DEF v
<1>2. /\ IsThread(t) /\ t.row = BindOpt(a.row, p.variable, v)
      /\ t.db = a.db /\ t.failure = a.failure /\ t.last = a.last /\ t.rows = a.rows
  BY <1>1, BindRowIs
<1> QED BY <1>2 DEF EdgeIs, v

NewEdgeCase(a, p, ends, stamps, t) ==
    \/ /\ EdgeIs(t, a, p, a.db.next.edge)
       /\ t.db = CreateEdge(a.db, EdgeOf(a, p, ends, stamps))
    \/ \E b : IsThread(b) /\ b.db = LoseEdgeId(a.db) /\ t = Fail(b)

LEMMA NewEdgeIs ==
  ASSUME NEW a, IsThread(a), Going(a), NEW p, NEW ends, NEW stamps, NEW t, t = NewEdge(a, p, ends, stamps)
  PROVE  NewEdgeCase(a, p, ends, stamps, t)
<1> DEFINE edge == EdgeOf(a, p, ends, stamps)
           b == [a EXCEPT !.db = CreateEdge(@, edge), !.created = TRUE]
           l == [a EXCEPT !.db = LoseEdgeId(@)]
           id == a.db.next.edge
<1>1. CASE {ends[1], ends[2]} \subseteq DOMAIN a.db.nodes
  <2>1. t = BindRow(b, p.variable, <<"Edge", id>>)
    BY <1>1 DEF NewEdge, EdgeOf
  <2>2. IsThread(b) /\ b.db = CreateEdge(a.db, edge) /\ b.last = a.last /\ b.failure = a.failure
        /\ b.row = a.row /\ b.rows = a.rows
    BY DEF IsThread, ThreadKeys
  <2>t. IsThread(b)
    BY <2>2
  <2> HIDE DEF b, edge, id, l
  <2>3. EdgeIs(t, b, p, id) /\ t.db = b.db
    BY ONLY <2>1, <2>t, BoundEdge
  <2>4. EdgeIs(t, a, p, id) /\ t.db = CreateEdge(a.db, edge)
    BY <2>2, <2>3 DEF EdgeIs
  <2> QED BY <2>4 DEF NewEdgeCase, edge, id
<1>2. CASE ~ {ends[1], ends[2]} \subseteq DOMAIN a.db.nodes
  <2>1. t = Fail(l)
    BY <1>2 DEF NewEdge
  <2>2. IsThread(l) /\ l.db = LoseEdgeId(a.db)
    BY DEF IsThread, ThreadKeys
  <2> QED BY <2>1, <2>2 DEF NewEdgeCase
<1> QED BY <1>1, <1>2

LEMMA EdgeLeads ==
  ASSUME NEW a, Ok(a), Going(a), NEW t, NEW p, NEW e, EdgeIs(t, a, p, e),
         Numbered(t.db), Extended(a.db, t.db), e \in DOMAIN t.db.edges
  PROVE  Leads(a, t)
<1>1. RowThere(a.row, t.db)
  BY RowStays DEF Ok
<1> DEFINE v == <<"Edge", e>>
<1>2. v \in EntitiesOf(t.db)
  BY DEF EntitiesOf
<1> HIDE DEF v
<1>3. RowThere(BindOpt(a.row, p.variable, v), t.db)
  BY <1>1, <1>2, BindThere
<1> QED BY <1>3 DEF Leads, EdgeIs, v

LEMMA EdgeTwins ==
  ASSUME NEW F, NEW a, NEW b, Twin(a, b, F), NEW p, NEW e, NEW t, EdgeIs(t, a, p, e),
         NEW u, EdgeIs(u, b, p, e), u.db = F
  PROVE  Twin(t, u, F)
BY DEF Twin, EdgeIs, Going

LEMMA MadeBetween ==
  ASSUME NEW d, NEW c, NEW F, NEW e, NEW edge, GrownBy(d, c, "edges", e, edge), Extended(c, F)
  PROVE  e \in EdgesJoining(F, edge.from, edge.to, edge.type)
<1>1. e \in DOMAIN F.edges /\ F.edges[e] = edge
  BY DEF GrownBy, Extended, Added
<1> QED BY <1>1 DEF EdgesJoining

\* What it is resolved to is of no account to a relationship that is there.
LEMMA OwnLeads ==
  ASSUME NEW s, Ok(s), Going(s), NEW opt, NEW a, a = ResolveOwn(s, opt)
  PROVE  Leads(s, a) /\ (Going(a) => a.db = s.db /\ a.row = s.row /\ a.last = s.last /\ a.rows = s.rows)
<1>1. CASE SetsSystem(opt)
  <2>1. a = Fail(s)
    BY <1>1 DEF ResolveOwn
  <2> QED BY <2>1, FailLeads
<1>2. CASE ~ SetsSystem(opt)
  <2>1. a = Resolve(s, opt)
    BY <1>2 DEF ResolveOwn
  <2> QED BY <2>1, ResolveKeeps
<1> QED BY <1>1, <1>2

LEMMA MergeEdgeFound ==
  ASSUME NEW s, IsThread(s), NEW p, NEW ends, NEW e,
         FindEdge(s.db, ends[1], ends[2], p.types[1]) = <<e>>, NEW t, t = MergeEdge(s, p, ends)
  PROVE  EdgeIs(t, s, p, e) /\ t.db = s.db
<1>1. <<e>> # <<>> /\ <<e>>[1] = e
  OBVIOUS
<1>2. t = BindRow(s, p.variable, <<"Edge", e>>)
  BY <1>1 DEF MergeEdge
<1> QED BY <1>2, BoundEdge

LEMMA MergeEdgeAgain ==
  ASSUME NEW F, Numbered(F), NEW s, Ok(s), Going(s), NEW p, NEW ends, NEW r,
         NEW t, t = MergeEdge(s, p, ends), NEW u, u = MergeEdge(r, p, ends)
  PROVE  Again(s, t, r, u, F)
<1> DEFINE from == ends[1]
           to == ends[2]
           type == p.types[1]
           d == s.db
           e0 == d.next.edge
<1>1. IsThread(s) /\ Numbered(d)
  BY DEF Ok
<1>2. ASSUME NEW e, Twin(s, r, F), FindEdge(F, from, to, type) = <<e>>
      PROVE  EdgeIs(u, r, p, e) /\ u.db = F
  <2>1. IsThread(r) /\ r.db = F
    BY <1>2 DEF Twin
  <2>2. FindEdge(r.db, ends[1], ends[2], p.types[1]) = <<e>>
    BY <1>2, <2>1
  <2> QED BY <2>1, <2>2, MergeEdgeFound
<1>3. CASE FindEdge(d, from, to, type) # <<>>
  <2>1. PICK e \in DOMAIN d.edges : FindEdge(d, from, to, type) = <<e>>
    <3> HIDE DEF d, from, to, type
    <3>1. Extended(d, d)
      BY <1>1, ExtendedSelf
    <3> QED BY <1>1, <1>3, <3>1, FindEdgeAgain
  <2>2. EdgeIs(t, s, p, e) /\ t.db = d
    BY <1>1, <2>1, MergeEdgeFound
  <2>3. Leads(s, t)
    <3>1. Numbered(t.db) /\ Extended(s.db, t.db) /\ e \in DOMAIN t.db.edges
      BY <1>1, <2>2, ExtendedSelf
    <3> QED BY <2>2, <3>1, EdgeLeads
  <2>4. ASSUME Extended(t.db, F), Twin(s, r, F)  PROVE Twin(t, u, F)
    <3>1. FindEdge(F, from, to, type) = <<e>>
      <4>1. Extended(d, F)
        BY <2>2, <2>4
      <4> HIDE DEF d, from, to, type
      <4>2. FindEdge(F, from, to, type) = FindEdge(d, from, to, type)
        BY <1>1, <1>3, <4>1, FindEdgeAgain
      <4> QED BY <2>1, <4>2
    <3>2. EdgeIs(u, r, p, e) /\ u.db = F
      BY <1>2, <2>4, <3>1
    <3> QED BY <2>2, <2>4, <3>2, EdgeTwins
  <2> QED BY <2>3, <2>4 DEF Again
<1>4. CASE FindEdge(d, from, to, type) = <<>>
  <2> DEFINE a == ResolveOwn(s, p.properties)
             stamps == Created(s)
             edge == EdgeOf(a, p, ends, stamps)
             c == t.db
  <2>1. t = NewEdge(a, p, ends, stamps)
    BY <1>4 DEF MergeEdge
  <2>2. Leads(s, a) /\ (Going(a) => a.db = s.db /\ a.row = s.row /\ a.last = s.last /\ a.rows = s.rows)
    BY OwnLeads
  <2>e. edge.from = from /\ edge.to = to /\ edge.type = type
    BY DEF EdgeOf
  <2> HIDE DEF a, stamps, edge
  <2>3. CASE ~ Going(a)
    <3>1. t = a
      BY <2>1, <2>3 DEF NewEdge
    <3> QED BY <2>2, <2>3, <3>1 DEF Again
  <2>4. CASE Going(a)
    <3>1. Ok(a) /\ IsThread(a)
      BY <2>2, <2>4, LeadsOk DEF Ok
    <3>2. NewEdgeCase(a, p, ends, stamps, t)
      BY <2>1, <2>4, <3>1, NewEdgeIs
    <3>3. CASE \E b : IsThread(b) /\ b.db = LoseEdgeId(a.db) /\ t = Fail(b)
      <4>1. PICK b : IsThread(b) /\ b.db = LoseEdgeId(d) /\ t = Fail(b)
        BY <2>2, <2>4, <3>3
      <4>2. Error # <<>>
        BY DEF Error
      <4>3. IsThread(t) /\ ~ Going(t) /\ t.db = b.db
        BY <4>1, <4>2, FailWithIs DEF Fail, Going
      <4>4. Numbered(c) /\ Extended(d, c)
        <5> HIDE DEF d, c
        <5>1. c = LoseEdgeId(d)
          BY <4>1, <4>3 DEF c
        <5> QED BY <1>1, <5>1, GrowLost
      <4> QED BY <4>3, <4>4 DEF Again, Leads
    <3>4. CASE EdgeIs(t, a, p, a.db.next.edge) /\ t.db = CreateEdge(a.db, EdgeOf(a, p, ends, stamps))
      <4>1. EdgeIs(t, s, p, e0) /\ c = CreateEdge(d, edge)
        BY <2>2, <2>4, <3>4 DEF EdgeIs, Going, edge, Leads
      <4>2. GrownBy(d, c, "edges", e0, edge)
        <5> HIDE DEF d, c
        <5> QED BY <1>1, <4>1, GrowEdge
      <4>3. Leads(s, t)
        <5>1. Numbered(t.db) /\ Extended(s.db, t.db) /\ e0 \in DOMAIN t.db.edges
          BY <4>2 DEF GrownBy
        <5> HIDE DEF e0
        <5> QED BY <4>1, <5>1, EdgeLeads
      <4>4. ASSUME Extended(c, F), Twin(s, r, F)  PROVE Twin(t, u, F)
        <5>1. e0 \in EdgesJoining(F, from, to, type)
          <6> HIDE DEF d, c, e0
          <6>1. e0 \in EdgesJoining(F, edge.from, edge.to, edge.type)
            BY <4>2, <4>4, MadeBetween
          <6> QED BY <2>e, <6>1
        <5>2. FindEdge(F, from, to, type) = <<e0>>
          <6>1. Numbered(c) /\ Extended(d, c)
            BY <4>2 DEF GrownBy
          <6> HIDE DEF d, c, from, to, type
          <6>2. Extended(d, F)
            BY <1>1, <4>4, <6>1, ExtendedTwice
          <6>3. d.next.edge \in EdgesJoining(F, from, to, type)
            BY <5>1
          <6>4. FindEdge(F, from, to, type) = <<d.next.edge>>
            BY <1>1, <1>4, <6>2, <6>3, FindEdgeAgain
          <6> QED BY <6>4
        <5>3. EdgeIs(u, r, p, e0) /\ u.db = F
          BY <1>2, <4>4, <5>2
        <5> HIDE DEF e0
        <5> QED BY <4>1, <4>4, <5>3, EdgeTwins
      <4> QED BY <4>3, <4>4 DEF Again
    <3> QED BY <3>2, <3>3, <3>4 DEF NewEdgeCase
  <2> QED BY <2>3, <2>4
<1> QED BY <1>3, <1>4

LEMMA JoinAgain ==
  ASSUME NEW F, Numbered(F), NEW s, Ok(s), NEW chain, NEW k, NEW r,
         NEW t, t = JoinMerging(s, chain, k), NEW u, u = JoinMerging(r, chain, k)
  PROVE  (Going(s) => Again(s, t, r, u, F)) /\ (~ Going(s) => t = s)
<1>1. CASE ~ Going(s)
  BY <1>1 DEF JoinMerging
<1>2. CASE Going(s) /\ ~ Joins(s, chain, k)
  <2>1. t = Fail(s)
    BY <1>2 DEF JoinMerging
  <2> QED BY <1>2, <2>1, FailAgain
<1>3. CASE Going(s) /\ Joins(s, chain, k)
  <2> DEFINE p == chain.steps[k].rel
             ends == EndsOf(s, chain, k)
             w == MergeEdge(r, p, ends)
  <2>1. t = MergeEdge(s, p, ends)
    BY <1>3 DEF JoinMerging
  <2>2. Twin(s, r, F) => u = w
    <3>1. ASSUME Twin(s, r, F)  PROVE u = w
      <4>1. Going(r) /\ r.row = s.row /\ r.last = s.last
        BY <3>1 DEF Twin
      <4>2. StartOf(r, chain, k) = StartOf(s, chain, k)
        BY <4>1 DEF StartOf
      <4>3. Joins(r, chain, k) /\ EndsOf(r, chain, k) = EndsOf(s, chain, k)
        BY <1>3, <4>1, <4>2 DEF Joins, EndsOf
      <4> QED BY <4>1, <4>3 DEF JoinMerging
    <3> QED BY <3>1
  <2> HIDE DEF p, ends, w
  <2>3. Again(s, t, r, w, F)
    BY <1>3, <2>1, MergeEdgeAgain DEF w
  <2> QED BY <1>3, <2>2, <2>3 DEF Again
<1> QED BY <1>1, <1>2, <1>3

-----------------------------------------------------------------------------
(* Steps, chains, patterns, rows.                                          *)

Recurs(n) == Labelled(n) /\ LooksUp(n.properties)
FirstRecurs(n) == (Labelled(n) \/ Entries(n.properties) # <<>>) /\ LooksUp(n.properties)
ChainRecurs(chain) == FirstRecurs(chain.first) /\ \A k \in 1..Count(chain.steps) : Recurs(chain.steps[k].node)

LEMMA MergeStepAgain ==
  ASSUME NEW F, Numbered(F), NEW s, Ok(s), Going(s), NEW chain, NEW k, Recurs(chain.steps[k].node), NEW r,
         NEW v, v = MergeStep(s, chain, k), NEW w, w = MergeStep(r, chain, k)
  PROVE  Again(s, v, r, w, F)
<1> DEFINE n == chain.steps[k].node
           t == IF IsBound(s, n.variable) THEN Meet(s, n) ELSE MergedNode(s, n)
           u == IF IsBound(r, n.variable) THEN Meet(r, n) ELSE MergedNode(r, n)
<1>1. v = JoinMerging(t, chain, k) /\ w = JoinMerging(u, chain, k)
  BY MergedNodeIs DEF MergeStep, Recurs
<1>2. Labelled(n) /\ LooksUp(n.properties)
  BY DEF Recurs
<1>3. Again(s, t, r, u, F)
  <2> DEFINE bound == IsBound(s, n.variable)
             u1 == IF bound THEN Meet(r, n) ELSE MergedNode(r, n)
  <2>1. Twin(s, r, F) => u = u1
    BY DEF Twin, IsBound
  <2>2. CASE bound
    <3> HIDE DEF n
    <3>1. Again(s, t, r, Meet(r, n), F)
      BY <2>2, MeetAgain
    <3> QED BY <2>1, <2>2, <3>1 DEF Again
  <2>3. CASE ~ bound
    <3> HIDE DEF n
    <3>1. Again(s, t, r, MergedNode(r, n), F)
      BY <1>2, <2>3, MergedNodeAgain
    <3> QED BY <2>1, <2>3, <3>1 DEF Again
  <2> QED BY <2>2, <2>3
<1> HIDE DEF n, t, u
<1>4. Going(t) => Again(t, v, u, w, F)
  <2>1. ASSUME Going(t)  PROVE Again(t, v, u, w, F)
    <3>1. Ok(t)
      BY <1>3, <2>1, LeadsOk DEF Again
    <3> QED BY <1>1, <2>1, <3>1, JoinAgain
  <2> QED BY <2>1
<1>5. ~ Going(t) => v = t
  BY <1>1 DEF JoinMerging
<1> QED BY <1>3, <1>4, <1>5, AgainTwice

LEMMA AgainSelf ==
  ASSUME NEW s, Ok(s), NEW r, NEW F
  PROVE  Again(s, s, r, r, F)
BY ExtendedSelf DEF Again, Leads, Ok

LEMMA NextMergeAgain ==
  ASSUME NEW F, Numbered(F), NEW s, Ok(s), Going(s), NEW x, Recurs(x[1].steps[x[2]].node), NEW r,
         NEW t, t = NextStep("merge", s, x), NEW u, u = NextStep("merge", r, x)
  PROVE  Again(s, t, r, u, F)
<1> DEFINE chain == x[1]
           k == x[2]
           w == MergeStep(r, chain, k)
<1>1. t = MergeStep(s, chain, k)
  BY DEF NextStep, Step
<1>2. Twin(s, r, F) => u = w
  BY DEF NextStep, Step, Twin
<1> HIDE DEF chain, k, w
<1>3. Recurs(chain.steps[k].node)
  BY DEF chain, k
<1>4. Again(s, t, r, w, F)
  BY <1>1, <1>3, MergeStepAgain DEF w
<1> QED BY <1>2, <1>4 DEF Again

\* The states of a loop.
Looped(f, kind, s, seq, n) == f = [k \in 0..n |-> IF k = 0 THEN s ELSE NextStep(kind, f[k - 1], seq[k])]

LEMMA EachIs ==
  ASSUME NEW s, NEW kind, NEW seq
  PROVE  \E f : Looped(f, kind, s, seq, Count(seq)) /\ Each(kind, s, seq) = f[Count(seq)]
<1> DEFINE n == Count(seq)
           run == CHOOSE f : f = [k \in 0..n |-> IF k = 0 THEN s ELSE NextStep(kind, f[k - 1], seq[k])]
<1>1. n \in Nat
  BY DEF Count
<1>2. Each(kind, s, seq) = run[n]
  BY DEF Each
<1> HIDE DEF n
<1>3. run = [k \in 0..n |-> IF k = 0 THEN s ELSE NextStep(kind, run[k - 1], seq[k])]
  BY <1>1, EachRuns
<1> HIDE DEF run
<1>4. Looped(run, kind, s, seq, n)
  BY <1>3 DEF Looped
<1> QED BY <1>2, <1>4 DEF n

LEMMA EachMergeAgain ==
  ASSUME NEW F, Numbered(F), NEW s, Ok(s), NEW kind, kind = "merge", NEW seq,
         \A k \in 1..Count(seq) : Recurs(seq[k][1].steps[seq[k][2]].node), NEW r,
         NEW v, v = Each(kind, s, seq), NEW w, w = Each(kind, r, seq)
  PROVE  Again(s, v, r, w, F)
<1> DEFINE n == Count(seq)
<1>1. n \in Nat
  BY DEF Count
<1>a. PICK f : Looped(f, kind, s, seq, n) /\ v = f[n]
  BY EachIs
<1>b. PICK g : Looped(g, kind, r, seq, n) /\ w = g[n]
  BY EachIs
<1> DEFINE S == {m \in Nat : m <= n => Again(s, f[m], r, g[m], F)}
<1>2. v = f[n] /\ w = g[n]
  BY <1>a, <1>b
<1>3. /\ f = [k \in 0..n |-> IF k = 0 THEN s ELSE NextStep(kind, f[k - 1], seq[k])]
      /\ g = [k \in 0..n |-> IF k = 0 THEN r ELSE NextStep(kind, g[k - 1], seq[k])]
  BY <1>a, <1>b DEF Looped
<1> HIDE DEF n
<1>4. 0 \in S
  <2>1. f[0] = s /\ g[0] = r
    BY <1>1, <1>3
  <2> QED BY <2>1, AgainSelf
<1>5. ASSUME NEW m \in Nat, m \in S, m + 1 <= n  PROVE Again(s, f[m + 1], r, g[m + 1], F)
  <2>1. Again(s, f[m], r, g[m], F)
    BY <1>1, <1>5
  <2> DEFINE t == f[m]
             u == g[m]
             tt == f[m + 1]
             uu == g[m + 1]
             x == seq[m + 1]
  <2>2. tt = NextStep(kind, t, x) /\ uu = NextStep(kind, u, x)
    BY <1>1, <1>3, <1>5
  <2>3. Recurs(x[1].steps[x[2]].node)
    BY <1>1, <1>5 DEF n
  <2>4. Again(s, t, r, u, F)
    BY <2>1
  <2> HIDE DEF t, u, tt, uu, x
  <2>5. Going(t) => Again(t, tt, u, uu, F)
    <3>1. ASSUME Going(t)  PROVE Again(t, tt, u, uu, F)
      <4>1. Ok(t)
        BY <2>4, <3>1, LeadsOk DEF Again
      <4> QED BY <2>2, <2>3, <3>1, <4>1, NextMergeAgain
    <3> QED BY <3>1
  <2>6. ~ Going(t) => tt = t
    BY <2>2 DEF NextStep
  <2>7. Again(s, tt, r, uu, F)
    BY <2>4, <2>5, <2>6, AgainTwice
  <2> QED BY <2>7 DEF tt, uu
<1>6. \A m \in Nat : m \in S => m + 1 \in S
  BY <1>5
<1>7. n \in S
  <2> HIDE DEF S
  <2> QED BY <1>1, <1>4, <1>6, Induct
<1> QED BY <1>1, <1>2, <1>7

LEMMA StepsOfRecur ==
  ASSUME NEW chain, ChainRecurs(chain)
  PROVE  LET seq == StepsOf(chain)
         IN  \A k \in 1..Count(seq) : Recurs(seq[k][1].steps[seq[k][2]].node)
<1> DEFINE n == Count(chain.steps)
           seq == StepsOf(chain)
<1>1. n \in Nat
  BY DEF Count
<1>2. IsUpTo([k \in 1..n |-> <<chain, k>>], n)
  BY DEF IsUpTo
<1>3. Len(seq) = n
  <2> DEFINE q == [k \in 1..n |-> <<chain, k>>]
  <2>1. seq = q
    BY DEF StepsOf
  <2> HIDE DEF q, n
  <2>2. Len(q) = n
    BY <1>1, UpToIsSeq DEF q, IsUpTo
  <2> QED BY <2>1, <2>2
<1>4. Count(seq) = n
  BY <1>1, <1>3 DEF Count
<1>5. ASSUME NEW k \in 1..n  PROVE seq[k][1] = chain /\ seq[k][2] = k
  BY DEF StepsOf
<1> QED BY <1>4, <1>5 DEF ChainRecurs

LEMMA EachStopped ==
  ASSUME NEW s, ~ Going(s), NEW kind, NEW seq, NEW v, v = Each(kind, s, seq)
  PROVE  v = s
<1> DEFINE n == Count(seq)
<1>1. n \in Nat
  BY DEF Count
<1>2. PICK f : Looped(f, kind, s, seq, n) /\ v = f[n]
  BY EachIs
<1> DEFINE S == {m \in Nat : m <= n => f[m] = s}
<1> HIDE DEF n
<1>3. f = [k \in 0..n |-> IF k = 0 THEN s ELSE NextStep(kind, f[k - 1], seq[k])]
  BY <1>2 DEF Looped
<1>4. 0 \in S
  BY <1>1, <1>3
<1>5. ASSUME NEW m \in Nat, m \in S, m + 1 <= n  PROVE f[m + 1] = s
  <2>1. f[m] = s
    BY <1>1, <1>5
  <2> DEFINE t == f[m]
             u == f[m + 1]
             x == seq[m + 1]
  <2>2. u = NextStep(kind, t, x)
    BY <1>1, <1>3, <1>5
  <2>3. t = s
    BY <2>1
  <2> HIDE DEF t, u, x
  <2>4. u = s
    BY <2>2, <2>3 DEF NextStep
  <2> QED BY <2>4 DEF u
<1>6. \A m \in Nat : m \in S => m + 1 \in S
  BY <1>5
<1>7. n \in S
  <2> HIDE DEF S
  <2> QED BY <1>1, <1>4, <1>6, Induct
<1> QED BY <1>1, <1>2, <1>7

LEMMA MergeChainAgain ==
  ASSUME NEW F, Numbered(F), NEW s, Ok(s), Going(s), NEW chain, ChainRecurs(chain), NEW r,
         NEW v, v = MergeChain(s, chain), NEW w, w = MergeChain(r, chain)
  PROVE  Again(s, v, r, w, F)
<1> DEFINE n == chain.first
           seq == StepsOf(chain)
           t == IF IsBound(s, n.variable) THEN s ELSE MergedNode(s, n)
           u == IF IsBound(r, n.variable) THEN r ELSE MergedNode(r, n)
           kind == "merge"
<1>1. v = Each(kind, t, seq) /\ w = Each(kind, u, seq)
  BY MergedNodeIs DEF MergeChain, ChainRecurs, FirstRecurs
<1>2. LooksUp(n.properties)
  BY DEF FirstRecurs, ChainRecurs
<1>3. Again(s, t, r, u, F)
  <2> DEFINE bound == IsBound(s, n.variable)
             u1 == IF bound THEN r ELSE MergedNode(r, n)
  <2>1. Twin(s, r, F) => u = u1
    BY DEF Twin, IsBound
  <2>2. CASE bound
    <3> HIDE DEF n
    <3>1. Again(s, t, r, r, F)
      BY <2>2, AgainSelf
    <3> QED BY <2>1, <2>2, <3>1 DEF Again
  <2>3. CASE ~ bound
    <3> HIDE DEF n
    <3>1. Again(s, t, r, MergedNode(r, n), F)
      BY <1>2, <2>3, MergedNodeAgain
    <3> QED BY <2>1, <2>3, <3>1 DEF Again
  <2> QED BY <2>2, <2>3
<1>4. \A k \in 1..Count(seq) : Recurs(seq[k][1].steps[seq[k][2]].node)
  BY StepsOfRecur
<1>5. kind = "merge"
  OBVIOUS
<1> HIDE DEF n, t, u, seq, kind
<1>6. Going(t) => Again(t, v, u, w, F)
  <2>1. ASSUME Going(t)  PROVE Again(t, v, u, w, F)
    <3>1. Ok(t)
      BY <1>3, <2>1, LeadsOk DEF Again
    <3> QED BY <1>1, <1>4, <1>5, <3>1, EachMergeAgain
  <2> QED BY <2>1
<1>7. ~ Going(t) => v = t
  BY <1>1, EachStopped
<1> QED BY <1>3, <1>6, <1>7, AgainTwice

\* Where it sets nothing.
LEMMA ThenNothing ==
  ASSUME NEW s
  PROVE  Then(s, <<>>) = s
<1> DEFINE on == <<>>
           kind == IF s.created THEN "on create" ELSE "on match"
           ss == [k \in DOMAIN on |-> IF on[k].op = kind THEN on[k].items ELSE <<>>]
           seq == ItemsOf(on, kind)
           set == "set merged"
<1>1. DOMAIN on = 1..0
  OBVIOUS
<1>2. Len(ss) = 0
  <2>1. IsUpTo(ss, 0)
    <3> HIDE DEF on
    <3>1. ss = [k \in 1..0 |-> ss[k]]
      BY <1>1
    <3> QED BY <3>1 DEF IsUpTo
  <2> HIDE DEF ss
  <2> QED BY <2>1, UpToIsSeq
<1>3. seq = ss
  <2>1. seq = FlattenSeq(ss)
    BY DEF ItemsOf
  <2> HIDE DEF seq, ss
  <2> QED BY <1>2, <2>1 DEF FlattenSeq
<1>4. Count(seq) = 0
  <2> HIDE DEF seq, ss
  <2> QED BY <1>2, <1>3 DEF Count
<1>5. Then(s, <<>>) = Each(set, s, seq)
  BY DEF Then
<1> HIDE DEF seq, set
<1>6. PICK f : Looped(f, set, s, seq, Count(seq)) /\ Each(set, s, seq) = f[Count(seq)]
  BY EachIs
<1>7. f[0] = s
  BY <1>4, <1>6 DEF Looped
<1> QED BY <1>4, <1>5, <1>6, <1>7

LEMMA MergePatternAgain ==
  ASSUME NEW F, Numbered(F), NEW s, Ok(s), Going(s), NEW chain, ChainRecurs(chain), NEW r,
         NEW v, v = MergePattern(s, chain, <<>>), NEW w, w = MergePattern(r, chain, <<>>)
  PROVE  Again(s, v, r, w, F)
<1> DEFINE t == [s EXCEPT !.created = FALSE]
           u == [r EXCEPT !.created = FALSE]
           no == FALSE
<1>1. v = MergeChain(t, chain) /\ w = MergeChain(u, chain)
  BY ThenNothing DEF MergePattern
<1>2. Puts(t, s, "created", no) /\ Puts(u, r, "created", no)
  BY DEF Puts, ThreadKeys
<1> HIDE DEF t, u, no
<1>3. IsThread(t) /\ t.db = s.db /\ t.row = s.row /\ t.last = s.last /\ t.rows = s.rows /\ t.failure = s.failure
  <2>1. IsThread(t) /\ \A j \in ThreadKeys \ {"created"} : t[j] = s[j]
    BY <1>2, PutIs DEF Ok
  <2> QED BY <2>1 DEF ThreadKeys
<1>4. IsThread(r) =>
        IsThread(u) /\ u.db = r.db /\ u.row = r.row /\ u.last = r.last /\ u.rows = r.rows /\ u.failure = r.failure
  <2>1. IsThread(r) => IsThread(u) /\ \A j \in ThreadKeys \ {"created"} : u[j] = r[j]
    BY <1>2, PutIs
  <2> QED BY <2>1 DEF ThreadKeys
<1>5. Again(s, t, r, u, F)
  <2>1. Leads(s, t)
    BY <1>3, ExtendedSelf DEF Leads, Ok, Going
  <2>2. Twin(s, r, F) => Twin(t, u, F)
    BY <1>3, <1>4 DEF Twin, Going
  <2> QED BY <2>1, <2>2 DEF Again
<1>6. Again(t, v, u, w, F)
  <2>1. Ok(t) /\ Going(t)
    BY <1>3 DEF Ok, Going
  <2> QED BY <1>1, <2>1, MergeChainAgain
<1> QED BY <1>3, <1>5, <1>6, AgainTwice DEF Going

\* The chains of a pattern.
Matched(f, o, s, n) == f = [k \in 0..n |-> IF k = 0 THEN s ELSE NextChain(f[k - 1], o, o.pattern[k])]

LEMMA EachChainIs ==
  ASSUME NEW s, NEW o
  PROVE  \E f : Matched(f, o, s, Count(o.pattern)) /\ EachChain(s, o) = f[Count(o.pattern)]
<1> DEFINE seq == o.pattern
           n == Count(seq)
           run == CHOOSE f : f = [k \in 0..n |-> IF k = 0 THEN s ELSE NextChain(f[k - 1], o, seq[k])]
<1>1. n \in Nat
  BY DEF Count
<1>2. EachChain(s, o) = run[n]
  BY DEF EachChain
<1> HIDE DEF n, seq
<1>3. run = [k \in 0..n |-> IF k = 0 THEN s ELSE NextChain(run[k - 1], o, seq[k])]
  BY <1>1, EachChainRuns
<1> HIDE DEF run
<1>4. Matched(run, o, s, n)
  BY <1>3 DEF Matched, seq
<1> QED BY <1>2, <1>4 DEF n, seq

MergesAgain(o) ==
    /\ o.op = "MergeOp" /\ o.on = <<>>
    /\ \A k \in 1..Count(o.pattern) : ChainRecurs(o.pattern[k])

LEMMA NextChainAgain ==
  ASSUME NEW F, Numbered(F), NEW s, Ok(s), Going(s), NEW o, MergesAgain(o), NEW chain, ChainRecurs(chain), NEW r,
         NEW t, t = NextChain(s, o, chain), NEW u, u = NextChain(r, o, chain)
  PROVE  Again(s, t, r, u, F)
<1> DEFINE w == MergePattern(r, chain, <<>>)
<1>1. t = MergePattern(s, chain, <<>>)
  BY DEF NextChain, MergesAgain
<1>2. Twin(s, r, F) => u = w
  BY DEF NextChain, MergesAgain, Twin
<1> HIDE DEF w
<1>3. Again(s, t, r, w, F)
  BY <1>1, MergePatternAgain DEF w
<1> QED BY <1>2, <1>3 DEF Again

LEMMA EachChainAgain ==
  ASSUME NEW F, Numbered(F), NEW s, Ok(s), NEW o, MergesAgain(o), NEW r,
         NEW v, v = EachChain(s, o), NEW w, w = EachChain(r, o)
  PROVE  Again(s, v, r, w, F)
<1> DEFINE n == Count(o.pattern)
<1>1. n \in Nat
  BY DEF Count
<1>a. PICK f : Matched(f, o, s, n) /\ v = f[n]
  BY EachChainIs
<1>b. PICK g : Matched(g, o, r, n) /\ w = g[n]
  BY EachChainIs
<1> DEFINE S == {m \in Nat : m <= n => Again(s, f[m], r, g[m], F)}
<1>2. v = f[n] /\ w = g[n]
  BY <1>a, <1>b
<1>3. /\ f = [k \in 0..n |-> IF k = 0 THEN s ELSE NextChain(f[k - 1], o, o.pattern[k])]
      /\ g = [k \in 0..n |-> IF k = 0 THEN r ELSE NextChain(g[k - 1], o, o.pattern[k])]
  BY <1>a, <1>b DEF Matched
<1>c. \A k \in 1..n : ChainRecurs(o.pattern[k])
  BY DEF MergesAgain
<1> HIDE DEF n
<1>4. 0 \in S
  <2>1. f[0] = s /\ g[0] = r
    BY <1>1, <1>3
  <2> QED BY <2>1, AgainSelf
<1>5. ASSUME NEW m \in Nat, m \in S, m + 1 <= n  PROVE Again(s, f[m + 1], r, g[m + 1], F)
  <2>1. Again(s, f[m], r, g[m], F)
    BY <1>1, <1>5
  <2> DEFINE t == f[m]
             u == g[m]
             tt == f[m + 1]
             uu == g[m + 1]
             x == o.pattern[m + 1]
  <2>2. tt = NextChain(t, o, x) /\ uu = NextChain(u, o, x)
    BY <1>1, <1>3, <1>5
  <2>3. ChainRecurs(x)
    BY <1>1, <1>5, <1>c
  <2>4. Again(s, t, r, u, F)
    BY <2>1
  <2> HIDE DEF t, u, tt, uu, x
  <2>5. Going(t) => Again(t, tt, u, uu, F)
    <3>1. ASSUME Going(t)  PROVE Again(t, tt, u, uu, F)
      <4>1. Ok(t)
        BY <2>4, <3>1, LeadsOk DEF Again
      <4> QED BY <2>2, <2>3, <3>1, <4>1, NextChainAgain
    <3> QED BY <3>1
  <2>6. ~ Going(t) => tt = t
    BY <2>2 DEF NextChain
  <2>7. Again(s, tt, r, uu, F)
    BY <2>4, <2>5, <2>6, AgainTwice
  <2> QED BY <2>7 DEF tt, uu
<1>6. \A m \in Nat : m \in S => m + 1 \in S
  BY <1>5
<1>7. n \in S
  <2> HIDE DEF S
  <2> QED BY <1>1, <1>4, <1>6, Induct
<1> QED BY <1>1, <1>2, <1>7

LEMMA EachRowOnce ==
  ASSUME NEW s, NEW o, NEW rows, Count(rows) = 1
  PROVE  EachRow(s, o, rows) = NextRow(s, o, rows[1])
<1> DEFINE n == 1
           run == CHOOSE f : f = [k \in 0..n |-> IF k = 0 THEN s ELSE NextRow(f[k - 1], o, rows[k])]
<1>1. EachRow(s, o, rows) = run[n]
  BY DEF EachRow
<1>2. n \in Nat /\ n = 1
  OBVIOUS
<1> HIDE DEF n
<1>3. run = [k \in 0..n |-> IF k = 0 THEN s ELSE NextRow(run[k - 1], o, rows[k])]
  BY <1>2, EachRowRuns
<1> HIDE DEF run
<1>4. run[0] = s
  BY <1>2, <1>3
<1>5. run[1] = NextRow(run[0], o, rows[1])
  BY <1>2, <1>3
<1> QED BY <1>1, <1>2, <1>4, <1>5

LEMMA ExecuteOnOnce ==
  ASSUME NEW s, NEW plan, Count(plan) = 1
  PROVE  ExecuteOn(s, plan) = NextOp(s, plan[1])
<1> DEFINE n == 1
           run == CHOOSE f : f = [k \in 0..n |-> IF k = 0 THEN s ELSE NextOp(f[k - 1], plan[k])]
<1>1. ExecuteOn(s, plan) = run[n]
  BY DEF ExecuteOn
<1>2. n \in Nat /\ n = 1
  OBVIOUS
<1> HIDE DEF n
<1>3. run = [k \in 0..n |-> IF k = 0 THEN s ELSE NextOp(run[k - 1], plan[k])]
  BY <1>2, ExecuteOnRuns
<1> HIDE DEF run
<1>4. run[0] = s
  BY <1>2, <1>3
<1>5. run[1] = NextOp(run[0], plan[1])
  BY <1>2, <1>3
<1> QED BY <1>1, <1>2, <1>4, <1>5

\* What a plan that is one MERGE starts its pattern with.
Starts(z, d) == IsThread(z) /\ Going(z) /\ z.db = d /\ z.row = EmptyRow /\ z.last = 0 /\ z.rows = <<>>

LEMMA MergeRuns ==
  ASSUME NEW plan, Count(plan) = 1, plan[1].op = "MergeOp", NEW d, NEW n, NEW u, u = Execute(plan, d, n)
  PROVE  \E z : Starts(z, d) /\ u = RowDone(EachChain(z, plan[1]))
<1> DEFINE o == plan[1]
           s == Thread(d, n)
           rows == <<EmptyRow>>
           none == <<>>
           w == [s EXCEPT !.rows = none]
           z == [w EXCEPT !.row = EmptyRow]
<1>1. /\ IsThread(s) /\ Going(s) /\ s.db = d /\ s.row = EmptyRow /\ s.last = 0 /\ s.rows = rows
  BY DEF Thread, IsThread, ThreadKeys, Going
<1>2. Count(rows) = 1 /\ rows[1] = EmptyRow
  BY DEF Count
<1>3. u = NextOp(s, o)
  BY ExecuteOnOnce DEF Execute
<1>4. u = EachRow(w, o, rows)
  <2>1. o.op = "MergeOp"
    OBVIOUS
  <2> HIDE DEF o, s
  <2> QED BY <1>1, <1>3, <2>1 DEF NextOp, ExecuteOp, PerRow
<1>5. Puts(w, s, "rows", none) /\ Puts(z, w, "row", EmptyRow)
  BY DEF Puts, ThreadKeys
<1>6. u = NextRow(w, o, EmptyRow)
  <2> HIDE DEF w, o, rows
  <2> QED BY <1>2, <1>4, EachRowOnce
<1>7. u = IF Going(w) THEN RowDone(ForRow(z, o)) ELSE w
  BY <1>6 DEF NextRow
<1>8. ForRow(z, o) = EachChain(z, o)
  <2> HIDE DEF z
  <2> QED BY DEF ForRow
<1> HIDE DEF o, s, rows, w, z, none
<1>9. /\ IsThread(w) /\ w.rows = none /\ w.db = s.db /\ w.row = s.row /\ w.last = s.last /\ w.failure = s.failure
  <2>1. IsThread(w) /\ w["rows"] = none /\ \A j \in ThreadKeys \ {"rows"} : w[j] = s[j]
    BY <1>1, <1>5, PutIs
  <2> QED BY <2>1 DEF ThreadKeys
<1>10. /\ IsThread(z) /\ z.row = EmptyRow /\ z.db = w.db /\ z.rows = w.rows /\ z.last = w.last /\ z.failure = w.failure
  <2>1. IsThread(z) /\ z["row"] = EmptyRow /\ \A j \in ThreadKeys \ {"row"} : z[j] = w[j]
    BY <1>5, <1>9, PutIs
  <2> QED BY <2>1 DEF ThreadKeys
<1>11. Going(w)
  BY <1>1, <1>9 DEF Going
<1>12. Starts(z, d)
  BY <1>1, <1>9, <1>10 DEF Starts, Going, none
<1>13. u = RowDone(EachChain(z, o))
  BY <1>7, <1>8, <1>11
<1> QED BY <1>12, <1>13 DEF o

LEMMA RowDoneIs ==
  ASSUME NEW s, IsThread(s), NEW u, u = RowDone(s)
  PROVE  u.db = s.db /\ u.failure = s.failure /\ u.rows = Append(s.rows, s.row)
<1> DEFINE rows == Append(s.rows, s.row)
<1>1. Puts(u, s, "rows", rows)
  BY DEF RowDone, Puts, ThreadKeys
<1> HIDE DEF rows
<1>2. IsThread(u) /\ u["rows"] = rows /\ \A j \in ThreadKeys \ {"rows"} : u[j] = s[j]
  BY <1>1, PutIs
<1> QED BY <1>2 DEF ThreadKeys, rows

LEMMA ExecuteAgain ==
  ASSUME NEW d, Numbered(d), NEW plan, Count(plan) = 1, MergesAgain(plan[1]), NEW n, NEW m,
         NEW u, u = Execute(plan, d, n), Going(u), NEW F, F = u.db, NEW v, v = Execute(plan, F, m)
  PROVE  v.db = F /\ v.rows = u.rows /\ Going(v)
<1> DEFINE o == plan[1]
<1>1. plan[1].op = "MergeOp"
  BY DEF MergesAgain
<1>2. PICK s : Starts(s, d) /\ u = RowDone(EachChain(s, o))
  BY <1>1, MergeRuns
<1>3. PICK r : Starts(r, F) /\ v = RowDone(EachChain(r, o))
  BY <1>1, MergeRuns
<1> DEFINE a == EachChain(s, o)
           b == EachChain(r, o)
<1>4. Ok(s)
  <2>1. RowThere(EmptyRow, d)
    BY DEF RowThere, EmptyRow
  <2> QED BY <1>2, <2>1 DEF Ok, Starts
<1>o. MergesAgain(o)
  OBVIOUS
<1> HIDE DEF o
<1>5. ASSUME NEW G, Numbered(G)  PROVE Again(s, a, r, b, G)
  BY <1>4, <1>5, <1>o, EachChainAgain
<1>6. Leads(s, a)
  BY <1>4, <1>5 DEF Again, Ok
<1> HIDE DEF a, b
<1>7. u = RowDone(a) /\ v = RowDone(b)
  BY <1>2, <1>3 DEF a, b
<1>8. IsThread(a) /\ Numbered(a.db)
  BY <1>6 DEF Leads
<1>9. u.db = a.db /\ u.failure = a.failure /\ u.rows = Append(a.rows, a.row)
  BY <1>7, <1>8, RowDoneIs
<1>10. Going(a) /\ F = a.db /\ Numbered(F) /\ Extended(a.db, F)
  BY <1>8, <1>9, ExtendedSelf DEF Going
<1>11. Twin(s, r, F)
  BY <1>2, <1>3 DEF Starts, Twin
<1>12. Twin(a, b, F)
  BY <1>5, <1>10, <1>11 DEF Again
<1>13. v.db = b.db /\ v.failure = b.failure /\ v.rows = Append(b.rows, b.row)
  BY <1>7, <1>12, RowDoneIs DEF Twin
<1> QED BY <1>9, <1>12, <1>13 DEF Twin, Going

\* The properties of the nodes of a MERGE are the same on an engine that has more.
FindsByLookUp(plan) ==
    \A k \in 1..Count(plan[1].pattern) :
      LET chain == plan[1].pattern[k]
      IN  /\ LooksUp(chain.first.properties)
          /\ \A j \in 1..Count(chain.steps) : LooksUp(chain.steps[j].node.properties)

LEMMA RepeatableIs ==
  ASSUME NEW plan, Repeatable(plan), FindsByLookUp(plan)
  PROVE  Count(plan) = 1 /\ MergesAgain(plan[1])
<1> DEFINE o == plan[1]
<1>1. ASSUME NEW k \in 1..Count(o.pattern)  PROVE ChainRecurs(o.pattern[k])
  <2> DEFINE chain == o.pattern[k]
  <2>1. /\ Labelled(chain.first) \/ Entries(chain.first.properties) # <<>>
        /\ \A j \in 1..Count(chain.steps) : Labelled(chain.steps[j].node)
    BY DEF Repeatable
  <2>2. LooksUp(chain.first.properties) /\ \A j \in 1..Count(chain.steps) : LooksUp(chain.steps[j].node.properties)
    BY DEF FindsByLookUp
  <2> HIDE DEF chain
  <2>3. ChainRecurs(chain)
    BY <2>1, <2>2 DEF ChainRecurs, FirstRecurs, Recurs
  <2> QED BY <2>3 DEF chain
<1> QED BY <1>1 DEF Repeatable, MergesAgain

\* MERGE of nodes that are looked for and their relationships is idempotent: a statement that is one
\* such MERGE and has not failed, run again on the engine it left, writes nothing, does not fail and makes the
\* same rows, whatever of its pattern it found and whatever it made, over however many chains and
\* steps.  What its nodes are to have must be worth the same on an engine that has more: literals,
\* parameters, properties of what the pattern has bound.
THEOREM MergeTwice ==
  ASSUME \A text \in Texts : Repeatable(PlanOf(text)) => FindsByLookUp(PlanOf(text))
  PROVE  Spec => []MergeIdempotent
<1>1. Init => MergeIdempotent
  <2>1. Len(<<>>) = 0
    OBVIOUS
  <2> QED BY <2>1 DEF Init, Nothing, MergeIdempotent, Repeatable, Count
<1>2. ASSUME IInv, MergeIdempotent, [Next]_vars  PROVE MergeIdempotent'
  <2>1. CASE Tick
    <3>1. last'.plan = <<>> /\ Len(<<>>) = 0
      BY <2>1 DEF Tick, Nothing
    <3>2. ~ Repeatable(last'.plan)
      BY <3>1 DEF Repeatable, Count
    <3> QED BY <3>2 DEF MergeIdempotent
  <2>2. ASSUME NEW text \in Texts, Run1(text, PlanOf(text)), Repeatable(last'.plan), last'.failure = <<>>
        PROVE  Finds(Execute(last.plan, db, -1))'
    <3> DEFINE plan == PlanOf(text)
               end == Execute(plan, db, fuse)
               again == Execute(plan, db', -1)
    <3>1. last'.plan = plan /\ last'.rows = end.rows /\ last'.failure = end.failure /\ db' = end.db
      BY <2>2 DEF Run1
    <3>2. Numbered(db)
      BY <1>2 DEF IInv, WellKept, Numbered
    <3>3. Repeatable(plan) /\ FindsByLookUp(plan)
      BY <2>2, <3>1
    <3>4. Count(plan) = 1 /\ MergesAgain(plan[1])
      BY <3>3, RepeatableIs
    <3>5. Going(end)
      BY <2>2, <3>1 DEF Going
    <3> HIDE DEF plan
    <3>6. again.db = db' /\ again.rows = end.rows /\ Going(again)
      BY <3>1, <3>2, <3>4, <3>5, ExecuteAgain
    <3> QED BY <3>1, <3>6 DEF Finds
  <2>3. CASE UNCHANGED vars
    BY <1>2, <2>3 DEF vars, MergeIdempotent, Finds
  <2> QED BY <1>2, <2>1, <2>2, <2>3 DEF Next, MergeIdempotent
<1> QED BY <1>1, <1>2, EngineInv, PTL DEF Spec

-----------------------------------------------------------------------------
(* Dates. *)

IsLeap(y) == y % 4 = 0 /\ (y % 100 # 0 \/ y % 400 = 0)
DaysIn(y, m) == IF m = 2 THEN (IF IsLeap(y) THEN 29 ELSE 28)
                ELSE IF m \in {4, 6, 9, 11} THEN 30 ELSE 31
NextDate(y, m, d) == IF d < DaysIn(y, m) THEN <<y, m, d + 1>>
                     ELSE IF m < 12 THEN <<y, m + 1, 1>>
                     ELSE <<y + 1, 1, 1>>

\* The year y is the k-th of era e; what it starts with, and how many days it has from March on.
YearOf(y, e, k) == y \in Int /\ e \in Int /\ k \in 0..399 /\ y = e * 400 + k
DaysBefore(e, k) == e * 146097 + k * 365 + (k \div 4) - (k \div 100)
LeapOf(k) == (k % 4) = 0 /\ ((k % 100) # 0 \/ k = 0)
Length(y) == IF IsLeap(y + 1) THEN 366 ELSE 365

LEMMA EveryYear == \A y \in Int : YearOf(y, y \div 400, y % 400)
  BY DEF YearOf

LEMMA StartInEra ==
  ASSUME NEW y, NEW e, NEW k, YearOf(y, e, k)
  PROVE  YearStart(y) = DaysBefore(e, k) /\ DaysBefore(e, k) \in Int
<1>1. Era(y) = e
  BY DEF Era, YearOf
<1>. QED BY <1>1 DEF YearOf, YearStart, DaysBefore

LEMMA LeapInEra ==
  ASSUME NEW y, NEW e, NEW k, YearOf(y, e, k)
  PROVE  IsLeap(y) <=> LeapOf(k)
<1>1. (y % 4) = (k % 4)  BY DEF YearOf
<1>2. (y % 100) = (k % 100)  BY DEF YearOf
<1>3. (y % 400) = k  BY DEF YearOf
<1>. QED BY <1>1, <1>2, <1>3 DEF IsLeap, LeapOf

LEMMA NextYear ==
  ASSUME NEW y, NEW e, NEW k, YearOf(y, e, k)
  PROVE  IF k = 399 THEN YearOf(y + 1, e + 1, 0) ELSE YearOf(y + 1, e, k + 1)
  BY DEF YearOf

LEMMA NextStartOf ==
  ASSUME NEW e \in Int, NEW k \in 0..398
  PROVE  DaysBefore(e, k + 1) = DaysBefore(e, k) + (IF LeapOf(k + 1) THEN 366 ELSE 365)
<1>1. ((k + 1) \div 4) = (k \div 4) + (IF ((k + 1) % 4) = 0 THEN 1 ELSE 0)
  OBVIOUS
<1>2. ((k + 1) \div 100) = (k \div 100) + (IF ((k + 1) % 100) = 0 THEN 1 ELSE 0)
  OBVIOUS
<1>3. ((k + 1) % 100) = 0 => ((k + 1) % 4) = 0
  OBVIOUS
<1>. QED BY <1>1, <1>2, <1>3 DEF DaysBefore, LeapOf

\* From the first of March to the next one.
LEMMA NextStart ==
  ASSUME NEW y \in Int
  PROVE  YearStart(y) \in Int /\ YearStart(y + 1) = YearStart(y) + Length(y)
<1>1. PICK e, k : YearOf(y, e, k)
  BY EveryYear
<1>2. YearStart(y) = DaysBefore(e, k) /\ DaysBefore(e, k) \in Int
  BY <1>1, StartInEra
<1>3. CASE k = 399
  <2>1. YearOf(y + 1, e + 1, 0)
    BY <1>1, <1>3, NextYear
  <2>2. YearStart(y + 1) = DaysBefore(e + 1, 0) /\ IsLeap(y + 1)
    BY <2>1, 0 % 4 = 0, StartInEra, LeapInEra DEF LeapOf
  <2>3. DaysBefore(e + 1, 0) = DaysBefore(e, 399) + 366
    BY <1>1 DEF DaysBefore, YearOf
  <2>. QED BY <1>2, <1>3, <2>2, <2>3 DEF Length
<1>4. CASE k # 399
  <2>1. YearOf(y + 1, e, k + 1) /\ e \in Int /\ k \in 0..398
    BY <1>1, <1>4, NextYear DEF YearOf
  <2>2. YearStart(y + 1) = DaysBefore(e, k + 1) /\ (IsLeap(y + 1) <=> LeapOf(k + 1))
    BY <2>1, StartInEra, LeapInEra
  <2>3. DaysBefore(e, k + 1) = DaysBefore(e, k) + (IF LeapOf(k + 1) THEN 366 ELSE 365)
    <3>1. e \in Int /\ k \in 0..398
      BY <2>1
    <3>. QED BY ONLY <3>1, NextStartOf, Zenon
  <2>. QED BY <1>2, <2>2, <2>3 DEF Length
<1>. QED BY <1>2, <1>3, <1>4

\* From the first of a month to that of the next one, March being month 0.
LEMMA NextMonth ==
  ASSUME NEW m \in 0..10
  PROVE  MonthStart(m) \in Int /\ MonthStart(m + 1) = MonthStart(m) + (IF m \in {1, 3, 6, 8} THEN 30 ELSE 31)
  BY DEF MonthStart

\* days_from_civil gives the day after a date the number after that of the date, the last day of
\* a month or of February of a leap year included.
THEOREM NextDayCounts ==
  ASSUME NEW y \in Int, NEW m \in 1..12, NEW d \in 1..DaysIn(y, m)
  PROVE  LET next == NextDate(y, m, d)
         IN  DaysFromCivil(next[1], next[2], next[3]) = DaysFromCivil(y, m, d) + 1
<1>1. YearStart(y) \in Int /\ YearStart(y - 1) \in Int /\ YearStart(y) = YearStart(y - 1) + Length(y - 1)
  BY NextStart, y - 1 \in Int, (y - 1) + 1 = y
<1>2. DaysIn(y, m) \in Int
  BY DEF DaysIn
<1>3. MonthStart(10) = 306 /\ MonthStart(11) = 337 /\ MonthStart(0) = 0 /\ MonthStart(9) = 275
  BY DEF MonthStart
<1>4. CASE d < DaysIn(y, m)
  BY <1>1, <1>2, <1>4 DEF NextDate, DaysFromCivil, MonthStart
<1>5. CASE d = DaysIn(y, m) /\ m = 12
  BY <1>1, <1>3, <1>5 DEF NextDate, DaysFromCivil, DaysIn
<1>6. CASE d = DaysIn(y, m) /\ m = 2
  BY <1>1, <1>3, <1>6, (y - 1) + 1 = y DEF NextDate, DaysFromCivil, DaysIn, Length
<1>7. CASE d = DaysIn(y, m) /\ m = 1
  BY <1>1, <1>3, <1>7 DEF NextDate, DaysFromCivil, DaysIn
<1>8. CASE d = DaysIn(y, m) /\ m \in 3..11
  <2>1. m - 3 \in 0..8 /\ (m - 3) + 1 = (m + 1) - 3
    BY <1>8
  <2>2. /\ MonthStart(m - 3) \in Int
        /\ MonthStart((m + 1) - 3) = MonthStart(m - 3) + (IF m \in {4, 6, 9, 11} THEN 30 ELSE 31)
    BY <1>8, <2>1, NextMonth
  <2>. QED BY <1>1, <1>8, <2>2 DEF NextDate, DaysFromCivil, DaysIn
<1>. QED BY <1>2, <1>4, <1>5, <1>6, <1>7, <1>8

\* The count starts at the epoch.
THEOREM Epoch == DaysFromCivil(1970, 1, 1) = 0
  BY DEF DaysFromCivil, YearStart, MonthStart, Era

-------------------------------------------------------------------------------
(* civil_from_days is the inverse, and what is printed is what was read. *)

\* What is left of a year of the era that is k years in, from its first of March on.
DaysOfYear(k) == IF LeapOf((k + 1) % 400) THEN 366 ELSE 365

\* Centuries, Olympiads and years of the k-th year.
LEMMA Olympiads ==
  ASSUME NEW k \in 0..399
  PROVE  \E c \in 0..3, q \in 0..24, r \in 0..3 :
           /\ k = 100 * c + 4 * q + r /\ (k \div 4) = 25 * c + q /\ (k \div 100) = c
           /\ LeapOf((k + 1) % 400) => r = 3 /\ (q = 24 => c = 3)
           /\ (r = 3 /\ (q = 24 => c = 3)) => LeapOf((k + 1) % 400)
<1>. DEFINE c == k \div 100
            q == (k % 100) \div 4
            r == k % 4
<1>1. c \in 0..3 /\ q \in 0..24 /\ r \in 0..3 /\ k = 100 * c + 4 * q + r
  OBVIOUS
<1>2. (k \div 4) = 25 * c + q /\ (k \div 100) = c
  OBVIOUS
<1>3. LeapOf((k + 1) % 400) <=> (r = 3 /\ (q = 24 => c = 3))
  BY <1>1 DEF LeapOf
<1>. QED BY <1>1, <1>2, <1>3

\* doe is the day doy of the year r of an Olympiad.
DayIn(c, q, r, doy, doe) ==
    /\ c \in 0..3 /\ q \in 0..24 /\ r \in 0..3 /\ doy \in 0..365 /\ doe \in Int
    /\ doy = 365 => r = 3 /\ (q = 24 => c = 3)
    /\ doe = 36524 * c + 1461 * q + 365 * r + doy

\* It lies in that year.
LEMMA YearInEra ==
  ASSUME NEW c, NEW q, NEW r, NEW doy, NEW doe, DayIn(c, q, r, doy, doe)
  PROVE  doe >= 0 /\ doe <= 146096 /\ YearOfEra(doe) = 100 * c + 4 * q + r
<1>. c \in 0..3 /\ q \in 0..24 /\ r \in 0..3 /\ doy \in 0..365 /\ doe \in Int
  BY DEF DayIn
<1>. doy = 365 => r = 3 /\ (q = 24 => c = 3)
  BY DEF DayIn
<1>. doe = 36524 * c + 1461 * q + 365 * r + doy
  BY DEF DayIn
<1>1. doe >= 0 /\ doe <= 146096
  OBVIOUS
<1>2. (doe \div 36524) - (doe \div 146096) = c
  <2>1. CASE doe = 146096
    <3>1. c = 3
      BY <2>1
    <3>. QED BY <2>1, <3>1, 146096 \div 36524 = 4, 146096 \div 146096 = 1
  <2>2. CASE doe # 146096
    <3>1. PICK s \in Int : s = 1461 * q + 365 * r + doy
      OBVIOUS
    <3>2. s >= 0 /\ s <= 36523
      BY <2>2, <3>1
    <3>3. doe = 36524 * c + s
      BY <3>1
    <3>4. (doe \div 36524) = c
      BY <3>2, <3>3
    <3>5. (doe \div 146096) = 0
      BY <1>1, <2>2
    <3>. QED BY <3>4, <3>5
  <2>. QED BY <2>1, <2>2
<1>3. PICK x \in {0, 1} : (doe \div 1460) = 25 * c + q + x /\ doy - x >= 0 /\ doy - x <= 364
  <2>1. PICK s \in Int : s = 24 * c + q + 365 * r + doy
    OBVIOUS
  <2>2. s >= 0 /\ s < 2920 /\ doe = 1460 * (25 * c + q) + s
    BY <2>1
  <2>3. CASE s < 1460
    <3>1. (doe \div 1460) = 25 * c + q
      BY <2>2, <2>3
    <3>2. doy # 365
      BY <2>1, <2>3
    <3>. QED BY <3>1, <3>2
  <2>4. CASE s >= 1460
    <3>1. (doe \div 1460) = 25 * c + q + 1
      BY <2>2, <2>4
    <3>2. doy >= 1
      BY <2>1, <2>4
    <3>. QED BY <3>1, <3>2
  <2>. QED BY <2>2, <2>3, <2>4
<1>4. PICK n \in Int : n = doe - (doe \div 1460) + (doe \div 36524) - (doe \div 146096)
  OBVIOUS
<1>5. n = 365 * (100 * c + 4 * q + r) + (doy - x)
  BY <1>2, <1>3, <1>4
<1>6. (n \div 365) = 100 * c + 4 * q + r
  BY <1>3, <1>5
<1>7. YearOfEra(doe) = n \div 365
  BY <1>4 DEF YearOfEra
<1>. QED BY ONLY <1>1, <1>6, <1>7

\* The day doy of the year k of an era is its day doe.
IsDay(k, doy) == k \in 0..399 /\ doy \in 0..(DaysOfYear(k) - 1)
IsDayOfEra(k, doy, doe) ==
    doe \in Int /\ doe >= 0 /\ doe <= 146096 /\ doe = DaysBefore(0, k) + doy /\ YearOfEra(doe) = k

LEMMA YearFound ==
  ASSUME NEW k, NEW doy, IsDay(k, doy)
  PROVE  \E doe : IsDayOfEra(k, doy, doe)
<1>0. k \in 0..399 /\ doy \in 0..(DaysOfYear(k) - 1)
  BY DEF IsDay
<1>1. PICK c \in 0..3, q \in 0..24, r \in 0..3 :
           /\ k = 100 * c + 4 * q + r /\ (k \div 4) = 25 * c + q /\ (k \div 100) = c
           /\ LeapOf((k + 1) % 400) => r = 3 /\ (q = 24 => c = 3)
           /\ (r = 3 /\ (q = 24 => c = 3)) => LeapOf((k + 1) % 400)
  BY <1>0, Olympiads
<1>2. doy \in 0..365 /\ (doy = 365 => r = 3 /\ (q = 24 => c = 3))
  BY <1>0, <1>1 DEF DaysOfYear
<1>3. PICK doe \in Int : doe = DaysBefore(0, k) + doy /\ doe = 36524 * c + 1461 * q + 365 * r + doy
  BY <1>0, <1>1, <1>2 DEF DaysBefore
<1>4. doe >= 0 /\ doe <= 146096 /\ YearOfEra(doe) = 100 * c + 4 * q + r
  <2>1. DayIn(c, q, r, doy, doe)
    BY <1>2, <1>3 DEF DayIn
  <2>. QED BY <2>1, YearInEra
<1>5. YearOfEra(doe) = k
  BY <1>1, <1>4
<1>. QED BY <1>3, <1>4, <1>5 DEF IsDayOfEra

LEMMA MonthStarts ==
  /\ MonthStart(0) = 0 /\ MonthStart(1) = 31 /\ MonthStart(2) = 61 /\ MonthStart(3) = 92
  /\ MonthStart(4) = 122 /\ MonthStart(5) = 153 /\ MonthStart(6) = 184 /\ MonthStart(7) = 214
  /\ MonthStart(8) = 245 /\ MonthStart(9) = 275 /\ MonthStart(10) = 306 /\ MonthStart(11) = 337
  BY DEF MonthStart

LongestOf(mp) == IF mp = 11 THEN 29 ELSE IF mp \in {1, 3, 6, 8} THEN 30 ELSE 31

\* The day d of the month mp lies in the month mp.
LEMMA MonthFound ==
  ASSUME NEW mp \in 0..11, NEW d \in 1..LongestOf(mp)
  PROVE  MonthOf(MonthStart(mp) + d - 1) = mp
<1>1. d \in Int /\ d >= 1 /\ d <= 31
  BY DEF LongestOf
<1>0. (mp \in {1, 3, 6, 8} => d <= 30) /\ (mp = 11 => d <= 29)
  BY DEF LongestOf
<1>2. PICK s : s \in Int /\ s = 5 * (MonthStart(mp) + d - 1) + 2
  BY <1>1, MonthStarts
<1>3. 153 * mp <= s /\ s < 153 * mp + 153
  <2>1. CASE mp = 0
    <3>1. MonthStart(mp) = 0
      BY ONLY <2>1, MonthStarts
    <3>. QED BY ONLY <1>1, <1>2, <2>1, <3>1
  <2>2. CASE mp = 1
    <3>1. MonthStart(mp) = 31
      BY ONLY <2>2, MonthStarts
    <3>. QED BY ONLY <1>0, <1>1, <1>2, <2>2, <3>1
  <2>3. CASE mp = 2
    <3>1. MonthStart(mp) = 61
      BY ONLY <2>3, MonthStarts
    <3>. QED BY ONLY <1>1, <1>2, <2>3, <3>1
  <2>4. CASE mp = 3
    <3>1. MonthStart(mp) = 92
      BY ONLY <2>4, MonthStarts
    <3>. QED BY ONLY <1>0, <1>1, <1>2, <2>4, <3>1
  <2>5. CASE mp = 4
    <3>1. MonthStart(mp) = 122
      BY ONLY <2>5, MonthStarts
    <3>. QED BY ONLY <1>1, <1>2, <2>5, <3>1
  <2>6. CASE mp = 5
    <3>1. MonthStart(mp) = 153
      BY ONLY <2>6, MonthStarts
    <3>. QED BY ONLY <1>1, <1>2, <2>6, <3>1
  <2>7. CASE mp = 6
    <3>1. MonthStart(mp) = 184
      BY ONLY <2>7, MonthStarts
    <3>. QED BY ONLY <1>0, <1>1, <1>2, <2>7, <3>1
  <2>8. CASE mp = 7
    <3>1. MonthStart(mp) = 214
      BY ONLY <2>8, MonthStarts
    <3>. QED BY ONLY <1>1, <1>2, <2>8, <3>1
  <2>9. CASE mp = 8
    <3>1. MonthStart(mp) = 245
      BY ONLY <2>9, MonthStarts
    <3>. QED BY ONLY <1>0, <1>1, <1>2, <2>9, <3>1
  <2>10. CASE mp = 9
    <3>1. MonthStart(mp) = 275
      BY ONLY <2>10, MonthStarts
    <3>. QED BY ONLY <1>1, <1>2, <2>10, <3>1
  <2>11. CASE mp = 10
    <3>1. MonthStart(mp) = 306
      BY ONLY <2>11, MonthStarts
    <3>. QED BY ONLY <1>1, <1>2, <2>11, <3>1
  <2>12. CASE mp = 11
    <3>1. MonthStart(mp) = 337
      BY ONLY <2>12, MonthStarts
    <3>. QED BY ONLY <1>0, <1>1, <1>2, <2>12, <3>1
  <2>. QED BY <2>1, <2>2, <2>3, <2>4, <2>5, <2>6, <2>7, <2>8, <2>9, <2>10, <2>11, <2>12
<1>4. (s \div 153) = mp
  BY <1>2, <1>3
<1>. QED BY <1>2, <1>4 DEF MonthOf

\* z is the day doe of era e.
EraOf(z, e, doe) == z \in Int /\ e \in Int /\ doe \in Int /\ doe >= 0 /\ doe <= 146096 /\ z = e * 146097 + doe

LEMMA EraFound ==
  ASSUME NEW z, NEW e, NEW doe, EraOf(z, e, doe)
  PROVE  DayEra(z) = e
<1>1. z \in Int /\ e \in Int /\ doe \in Int /\ doe >= 0 /\ doe <= 146096 /\ z = e * 146097 + doe
  BY DEF EraOf
<1>2. CASE z >= 0
  BY ONLY <1>1, <1>2 DEF DayEra
<1>3. CASE z < 0
  <2>1. PICK n : n \in Int /\ n = 146096 - z
    BY <1>1
  <2>2. n = 146097 * (-e) + (146096 - doe)
    BY ONLY <1>1, <2>1
  <2>3. (n \div 146097) = -e
    BY ONLY <1>1, <2>1, <2>2
  <2>. QED BY <1>1, <1>3, <2>1, <2>3 DEF DayEra
<1>. QED BY <1>1, <1>2, <1>3

\* A date, by the year that begins in March: the k-th of era e, its month mp and its day doy.
LEMMA DayOfYear ==
  ASSUME NEW y \in Int, NEW m \in 1..12, NEW d \in 1..DaysIn(y, m),
         NEW e, NEW k, YearOf(IF m <= 2 THEN y - 1 ELSE y, e, k)
  PROVE  LET mp == IF m <= 2 THEN m + 9 ELSE m - 3
         IN  /\ mp \in 0..11 /\ d \in 1..LongestOf(mp)
             /\ MonthStart(mp) + d - 1 \in 0..(DaysOfYear(k) - 1)
<1>1. CASE m = 2
  <2>1. YearOf(y - 1, e, k)
    BY <1>1
  <2>2. (y - 1) + 1 = y /\ k \in 0..399
    BY <2>1 DEF YearOf
  <2>3. (k = 399) => (IsLeap(y) <=> LeapOf((k + 1) % 400))
    <3>. HAVE k = 399
    <3>1. YearOf(y, e + 1, 0) /\ (k + 1) % 400 = 0
      BY <2>1, <2>2, NextYear
    <3>. QED BY <3>1, LeapInEra
  <2>4. (k # 399) => (IsLeap(y) <=> LeapOf((k + 1) % 400))
    <3>. HAVE k # 399
    <3>1. YearOf((y - 1) + 1, e, k + 1)
      BY <2>1, NextYear
    <3>2. YearOf(y, e, k + 1) /\ (k + 1) % 400 = k + 1
      BY <2>2, <3>1
    <3>. QED BY <3>2, LeapInEra
  <2>5. d \in Int /\ d >= 1 /\ d <= DaysIn(y, m)
    BY <1>1 DEF DaysIn
  <2>. QED BY <1>1, <2>5, <2>3, <2>4, MonthStarts DEF DaysIn, DaysOfYear, LongestOf
<1>2. CASE m = 1
  BY <1>2, MonthStarts DEF DaysIn, DaysOfYear, LongestOf
<1>3. CASE m \in 3..12
  <2>1. m - 3 \in 0..9 /\ MonthStart(m - 3) \in Int /\ MonthStart(m - 3) >= 0 /\ MonthStart(m - 3) <= 275
    BY <1>3, MonthStarts
  <2>2. d \in 1..31 /\ (m \in {4, 6, 9, 11} => d <= 30)
    BY <1>3 DEF DaysIn
  <2>. QED BY <1>3, <2>1, <2>2 DEF DaysOfYear, LongestOf
<1>. QED BY <1>1, <1>2, <1>3

\* civil_from_days gives back every date of the calendar from its day number: what a datetime is
\* printed as is the date it was read from.
THEOREM DateComesBack ==
  ASSUME NEW y \in Int, NEW m \in 1..12, NEW d \in 1..DaysIn(y, m)
  PROVE  CivilFromDays(DaysFromCivil(y, m, d)) = <<y, m, d>>
<1>1. PICK Y : Y \in Int /\ Y = IF m <= 2 THEN y - 1 ELSE y
  OBVIOUS
<1>2. PICK e, k : YearOf(Y, e, k)
  BY <1>1, EveryYear
<1>3. e \in Int /\ k \in 0..399 /\ Y = e * 400 + k
  BY <1>2 DEF YearOf
<1>4. PICK mp : mp \in 0..11 /\ mp = IF m <= 2 THEN m + 9 ELSE m - 3
  OBVIOUS
<1>5. /\ d \in 1..LongestOf(mp)
      /\ MonthStart(mp) + d - 1 \in 0..(DaysOfYear(k) - 1)
  BY <1>1, <1>2, <1>4, DayOfYear
<1>6. PICK doy : doy \in 0..(DaysOfYear(k) - 1) /\ doy = MonthStart(mp) + d - 1
  BY <1>5
<1>7. MonthOf(doy) = mp
  BY ONLY <1>4, <1>5, <1>6, MonthFound
<1>8. PICK doe : /\ doe \in Int /\ doe = DaysBefore(0, k) + doy /\ doe >= 0 /\ doe <= 146096
                 /\ YearOfEra(doe) = k
  <2>1. IsDay(k, doy)
    BY ONLY <1>3, <1>6 DEF IsDay
  <2>2. PICK doe : IsDayOfEra(k, doy, doe)
    BY ONLY <2>1, YearFound
  <2>. QED BY ONLY <2>2 DEF IsDayOfEra
<1>9. DaysBefore(0, k) = 365 * k + (k \div 4) - (k \div 100) /\ DaysBefore(0, k) \in Int
  BY ONLY <1>3 DEF DaysBefore
<1>10. DaysBefore(e, k) = e * 146097 + DaysBefore(0, k)
  BY ONLY <1>3 DEF DaysBefore
<1>11. YearStart(Y) = DaysBefore(e, k)
  BY ONLY <1>2, StartInEra
<1>12. MonthStart(mp) \in Int /\ d \in Int /\ doy \in Int
  <2>1. DaysOfYear(k) \in Int
    BY DEF DaysOfYear
  <2>. QED BY ONLY <1>4, <1>5, <1>6, <2>1, MonthStarts DEF MonthStart
<1>13. PICK z : z \in Int /\ z = e * 146097 + doe
  BY ONLY <1>3, <1>8
<1>14. DayEra(z) = e
  <2>1. EraOf(z, e, doe)
    BY ONLY <1>3, <1>8, <1>13 DEF EraOf
  <2>. QED BY ONLY <2>1, EraFound
<1>15. DaysFromCivil(y, m, d) = z - 719468
  <2>1. DaysFromCivil(y, m, d) = YearStart(Y) + MonthStart(mp) + d - 1 - 719468
    BY ONLY <1>1, <1>4 DEF DaysFromCivil
  <2>. QED BY ONLY <1>3, <1>6, <1>8, <1>9, <1>10, <1>11, <1>12, <1>13, <2>1
<1>16. CivilFromDays(z - 719468) =
         <<IF m <= 2 THEN Y + 1 ELSE Y, m, doy - MonthStart(mp) + 1>>
  <2>1. (z - 719468) + 719468 = z /\ z - DayEra(z) * 146097 = doe
    BY ONLY <1>3, <1>8, <1>13, <1>14
  <2>2. doe - (365 * k + (k \div 4) - (k \div 100)) = doy
    BY <1>8, <1>9, <1>12
  <2>3. (IF mp < 10 THEN mp + 3 ELSE mp - 9) = m
    BY <1>4
  <2>4. k + DayEra(z) * 400 = Y
    BY <1>3, <1>14
  <2>. QED BY <1>7, <1>8, <2>1, <2>2, <2>3, <2>4 DEF CivilFromDays
<1>17. doy - MonthStart(mp) + 1 = d /\ (IF m <= 2 THEN Y + 1 ELSE Y) = y
  BY <1>1, <1>6, <1>12
<1>. QED BY <1>15, <1>16, <1>17

\* secs is the second s of the day days.
SecondOf(secs, days, s) ==
    secs \in Int /\ days \in Int /\ s \in Int /\ s >= 0 /\ s <= 86399 /\ secs = days * 86400 + s

LEMMA TimeFound ==
  ASSUME NEW secs, NEW days, NEW s, SecondOf(secs, days, s)
  PROVE  EpochSecsToDatetime(secs) =
           [date |-> CivilFromDays(days), time |-> <<s \div 3600, (s % 3600) \div 60, s % 60>>]
<1>1. secs \in Int /\ days \in Int /\ s \in Int /\ s >= 0 /\ s <= 86399 /\ secs = days * 86400 + s
  BY DEF SecondOf
<1>2. CASE secs >= 0
  <2>1. (secs \div 60) \div 60 = days * 24 + (s \div 3600)
    <3>1. (secs \div 60) = days * 1440 + (s \div 60)
      BY ONLY <1>1
    <3>2. ((s \div 60) \div 60) = (s \div 3600)
      BY ONLY <1>1
    <3>3. PICK h : h \in Int /\ h = s \div 60
      BY ONLY <1>1
    <3>4. (days * 1440 + h) \div 60 = days * 24 + (h \div 60)
      BY ONLY <1>1, <3>3
    <3>. QED BY ONLY <3>1, <3>2, <3>3, <3>4
  <2>2. ((secs \div 60) \div 60) \div 24 = days /\ ((secs \div 60) \div 60) % 24 = (s \div 3600)
    <3>1. PICK h : h \in Int /\ h = s \div 3600 /\ h >= 0 /\ h <= 23
      BY ONLY <1>1
    <3>2. (days * 24 + h) \div 24 = days /\ (days * 24 + h) % 24 = h
      BY ONLY <1>1, <3>1
    <3>. QED BY ONLY <2>1, <3>1, <3>2
  <2>3. (secs \div 60) % 60 = ((s % 3600) \div 60) /\ secs % 60 = s % 60
    BY ONLY <1>1
  <2>. QED BY ONLY <1>1, <1>2, <2>2, <2>3 DEF EpochSecsToDatetime
<1>3. CASE secs < 0
  <2>1. ((86399 - secs) \div 86400) = -days
    BY ONLY <1>1
  <2>2. secs - (-((86399 - secs) \div 86400)) * 86400 = s /\ -((86399 - secs) \div 86400) = days
    BY ONLY <1>1, <2>1
  <2>. QED BY ONLY <1>1, <1>3, <2>2 DEF EpochSecsToDatetime
<1>. QED BY <1>1, <1>2, <1>3

\* A datetime without an offset is printed as it was read: the same date, hour, minute and second.
THEOREM PrintedAsRead ==
  ASSUME NEW y \in Int, NEW m \in 1..12, NEW d \in 1..DaysIn(y, m),
         NEW s \in Int, s >= 0, s <= 86399
  PROVE  FormatMillis(Millis([year |-> y, month |-> m, day |-> d, seconds |-> s, offset |-> 0])) =
           [at |-> [date |-> <<y, m, d>>, time |-> <<s \div 3600, (s % 3600) \div 60, s % 60>>], ms |-> 0]
<1>0. DaysFromCivil(y, m, d) \in Int
  <2>1. d \in Int
    BY DEF DaysIn
  <2>2. YearStart(y) \in Int /\ y - 1 \in Int /\ YearStart(y - 1) \in Int
    BY NextStart
  <2>. QED BY <2>1, <2>2 DEF DaysFromCivil, MonthStart
<1>1. PICK days : days \in Int /\ days = DaysFromCivil(y, m, d)
  BY ONLY <1>0
<1>2. PICK secs : secs \in Int /\ secs = days * 86400 + s
  BY ONLY <1>1, s \in Int
<1>3. Millis([year |-> y, month |-> m, day |-> d, seconds |-> s, offset |-> 0]) = secs * 1000
  BY <1>1, <1>2 DEF Millis
<1>4. (IF secs * 1000 >= 0 THEN (secs * 1000) \div 1000 ELSE -((999 - secs * 1000) \div 1000)) = secs
  BY ONLY <1>2
<1>5. FormatMillis(secs * 1000) = [at |-> EpochSecsToDatetime(secs), ms |-> 0]
  BY ONLY <1>2, <1>4 DEF FormatMillis
<1>6. EpochSecsToDatetime(secs) =
        [date |-> <<y, m, d>>, time |-> <<s \div 3600, (s % 3600) \div 60, s % 60>>]
  <2>1. CivilFromDays(days) = <<y, m, d>>
    BY <1>1, DateComesBack
  <2>2. SecondOf(secs, days, s)
    BY <1>1, <1>2 DEF SecondOf
  <2>3. EpochSecsToDatetime(secs) =
          [date |-> CivilFromDays(days), time |-> <<s \div 3600, (s % 3600) \div 60, s % 60>>]
    BY ONLY <2>2, TimeFound
  <2>. QED BY ONLY <2>1, <2>3
<1>. QED BY <1>3, <1>5, <1>6
=============================================================================
