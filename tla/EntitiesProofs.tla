---------------------------- MODULE EntitiesProofs ----------------------------
(***************************************************************************)
(* Proofs about Entities for any number of nodes, subgraphs, hyperedges    *)
(* and versions, and any number of restarts.  Three facts carry them: the  *)
(* pages hold at least what memory holds, every id on the pages lies below *)
(* the counter it came from, and every id handed out is on the pages.      *)
(***************************************************************************)
EXTENDS Entities, TLAPS

VersionRecord == [node : Node, seq : Nat, state : State]
HyperedgeRecord == [id : Nat, participants : SUBSET Entity]

TypeOK ==
  /\ nodes \in [Node -> State \cup {NoNode}]
  /\ nextSeq \in [Node -> Nat]
  /\ versions \subseteq VersionRecord
  /\ subgraphs \subseteq Nat /\ forward \subseteq Nat \X Node
  /\ hyperedges \subseteq HyperedgeRecord
  /\ nextSubgraph \in Nat /\ nextHyperedge \in Nat
  /\ header \in [subgraph : Nat, hyperedge : Nat]
  /\ pages \in [subgraphs : SUBSET Nat, members : SUBSET (Nat \X Node),
                hyperedges : SUBSET HyperedgeRecord, versions : SUBSET VersionRecord]
  /\ given \in [subgraphs : SUBSET Nat, hyperedges : SUBSET Nat]

\* What is handed out is on the pages, and what is on the pages is below its counter.
CountersAhead ==
  /\ given.subgraphs \subseteq pages.subgraphs
  /\ \A g \in pages.subgraphs : g < nextSubgraph
  /\ header.subgraph <= nextSubgraph
  /\ \A h \in given.hyperedges : \E r \in pages.hyperedges : r.id = h
  /\ \A r \in pages.hyperedges : r.id < nextHyperedge
  /\ header.hyperedge <= nextHyperedge
  /\ \A v \in pages.versions : v.seq < nextSeq[v.node]
  /\ \A m \in pages.members : m[1] \in pages.subgraphs

Inv == TypeOK /\ CountersAhead /\ IndexesAgree /\ RestartFinds

\* The pairs an index holds, one by one.
LEMMA IndexedPairs ==
  ASSUME NEW hs  PROVE \A p : p \in Indexed(hs) <=> \E h \in hs : \E r \in Raws(h.participants) : p = <<h.id, r>>
BY DEF Indexed

\* An index of more hyperedges is the union of the indexes.
LEMMA IndexedUnion ==
  ASSUME NEW A, NEW B  PROVE Indexed(A \cup B) = Indexed(A) \cup Indexed(B)
BY DEF Indexed

LEMMA TurnedUnion ==
  ASSUME NEW A, NEW B  PROVE Turned(A \cup B) = Turned(A) \cup Turned(B)
BY DEF Turned

\* Taking an id out of both sides of an index leaves them each other's inverse.
LEMMA WithoutTurned ==
  ASSUME NEW S, NEW T, NEW ahead \in SUBSET (S \X T), NEW x
  PROVE  WithoutReverse(x, ahead, Turned(ahead)) = Turned(WithoutForward(x, ahead))
BY DEF WithoutReverse, WithoutForward, Turned

\* Taking an id out of the index is indexing the hyperedges without it.
LEMMA WithoutIndexed ==
  ASSUME NEW hs, NEW x
  PROVE  WithoutForward(x, Indexed(hs)) = Indexed({h \in hs : h.id # x})
<1>1. ASSUME NEW p  PROVE p \in WithoutForward(x, Indexed(hs)) <=> p \in Indexed({h \in hs : h.id # x})
  BY IndexedPairs DEF WithoutForward
<1> QED BY <1>1

LEMMA InitInv == Init => Inv
BY EntitiesAssumption DEF Init, Inv, TypeOK, CountersAhead, IndexesAgree, RestartFinds, Indexed, Turned

LEMMA IndexedType ==
  ASSUME NEW hs \in SUBSET HyperedgeRecord  PROVE Indexed(hs) \in SUBSET (Nat \X Nat)
<1>1. ASSUME NEW h \in hs, NEW r \in Raws(h.participants)  PROVE <<h.id, r>> \in Nat \X Nat
  BY DEF HyperedgeRecord, Raws, Entity
<1> QED BY <1>1, IndexedPairs

\* An update stores a version with a number above all of its node's.
LEMMA UpdateStep ==
  ASSUME Inv, NEW n \in Node, NEW s \in State, UpdateNode(n, s)
  PROVE  /\ Inv'
         /\ \A v \in versions' \ versions : v.node = n /\ v.seq = nextSeq[n]
<1> DEFINE v == Version(n, nextSeq[n], nodes[n])
<1>1. v \in VersionRecord /\ v.node = n /\ v.seq = nextSeq[n]
  BY DEF Inv, TypeOK, UpdateNode, Version, VersionRecord
<1>2. versions' = versions \cup {v} /\ pages' = [pages EXCEPT !.versions = @ \cup {v}]
  BY DEF UpdateNode
<1>3. TypeOK'
  BY <1>1, <1>2 DEF Inv, TypeOK, UpdateNode, subgraphVars, hyperedgeVars
<1>4. \A w \in versions' : w.seq < nextSeq'[w.node]
  <2>1. ASSUME NEW w \in versions  PROVE w.seq < nextSeq'[w.node]
    BY DEF Inv, TypeOK, VersionRecord, CountersAhead, RestartFinds, UpdateNode
  <2>2. v.seq < nextSeq'[v.node]
    BY <1>1 DEF Inv, TypeOK, UpdateNode
  <2> QED BY <1>2, <2>1, <2>2
<1>5. CountersAhead' /\ RestartFinds'
  BY <1>2, <1>4 DEF Inv, TypeOK, CountersAhead, RestartFinds, UpdateNode, subgraphVars, hyperedgeVars
<1>6. IndexesAgree'
  BY DEF Inv, IndexesAgree, UpdateNode, subgraphVars, hyperedgeVars
<1> QED BY <1>1, <1>2, <1>3, <1>5, <1>6 DEF Inv

LEMMA CreateSubgraphStep ==
  ASSUME Inv, CreateSubgraph  PROVE Inv'
<1>1. nextSubgraph \in Nat /\ MembersOf(nextSubgraph) = {}
  BY DEF Inv, TypeOK, MembersOf, CountersAhead, RestartFinds
<1>2. pages' = [subgraphs |-> pages.subgraphs \cup {nextSubgraph}, members |-> pages.members,
                hyperedges |-> pages.hyperedges, versions |-> pages.versions]
  BY <1>1 DEF CreateSubgraph, Saved
<1>3. TypeOK'
  BY <1>1, <1>2 DEF Inv, TypeOK, CreateSubgraph, nodeVars, hyperedgeVars
<1>4. CountersAhead' /\ RestartFinds' /\ IndexesAgree'
  BY <1>1, <1>2 DEF Inv, TypeOK, CountersAhead, RestartFinds, IndexesAgree, CreateSubgraph, nodeVars, hyperedgeVars
<1> QED BY <1>3, <1>4 DEF Inv

LEMMA AddMemberStep ==
  ASSUME Inv, NEW g \in SubgraphId, NEW n \in Node, AddMember(g, n)  PROVE Inv'
<1> DEFINE new == {g} \X (MembersOf(g) \cup {n})
<1>1. g \in Nat /\ g \in subgraphs /\ g \in pages.subgraphs
  BY EntitiesAssumption DEF Inv, TypeOK, AddMember, RestartFinds
<1>2. new \subseteq Nat \X Node /\ <<g, n>> \in new /\ \A p \in new : p[1] = g
  <2>1. MembersOf(g) \cup {n} \subseteq Node
    BY DEF MembersOf
  <2> QED BY <1>1, <2>1
<1>3. /\ pages' = [subgraphs |-> pages.subgraphs \cup {g}, members |-> pages.members \cup new,
                   hyperedges |-> pages.hyperedges, versions |-> pages.versions]
      /\ forward' = forward \cup {<<g, n>>}
      /\ reverse' = reverse \cup Turned({<<g, n>>})
  <2>1. reverse' = reverse \cup Turned({<<g, n>>})
    BY DEF AddMember, Turned
  <2> QED BY <2>1 DEF AddMember, Saved
<1> HIDE DEF new
<1>4. TypeOK'
  <2>1. forward' \subseteq Nat \X Node /\ pages.members \cup new \subseteq Nat \X Node
    BY <1>1, <1>2, <1>3 DEF Inv, TypeOK
  <2>2. pages' \in [subgraphs : SUBSET Nat, members : SUBSET (Nat \X Node),
                    hyperedges : SUBSET HyperedgeRecord, versions : SUBSET VersionRecord]
    BY <1>1, <1>3, <2>1 DEF Inv, TypeOK
  <2> QED BY <2>1, <2>2 DEF Inv, TypeOK, AddMember, nodeVars, hyperedgeVars
<1>5. CountersAhead' /\ RestartFinds'
  <2>1. /\ pages'.subgraphs = pages.subgraphs /\ pages'.members = pages.members \cup new
        /\ pages'.hyperedges = pages.hyperedges /\ pages'.versions = pages.versions
    BY <1>1, <1>3
  <2>2. \A m \in pages'.members : m[1] \in pages'.subgraphs
    BY <1>1, <1>2, <2>1 DEF Inv, CountersAhead
  <2>3. forward' \subseteq pages'.members
    BY <1>2, <1>3, <2>1 DEF Inv, RestartFinds
  <2> QED
    BY <2>1, <2>2, <2>3 DEF Inv, CountersAhead, RestartFinds, AddMember, nodeVars, hyperedgeVars
<1>6. IndexesAgree'
  <2>1. reverse' = Turned(forward')
    BY <1>3, TurnedUnion DEF Inv, IndexesAgree
  <2>2. \A p \in forward' : p[1] \in subgraphs'
    BY <1>1, <1>3 DEF Inv, IndexesAgree, AddMember
  <2> QED BY <2>1, <2>2 DEF Inv, IndexesAgree, AddMember, nodeVars, hyperedgeVars
<1> QED BY <1>4, <1>5, <1>6 DEF Inv

LEMMA RemoveMemberStep ==
  ASSUME Inv, NEW g \in SubgraphId, NEW n \in Node, RemoveMember(g, n)  PROVE Inv'
<1>1. Turned(forward \ {<<g, n>>}) = Turned(forward) \ {<<n, g>>}
  BY DEF Inv, TypeOK, Turned
<1>2. TypeOK' /\ CountersAhead' /\ RestartFinds'
  BY DEF Inv, TypeOK, CountersAhead, RestartFinds, RemoveMember, nodeVars, hyperedgeVars
<1>3. IndexesAgree'
  BY <1>1 DEF Inv, IndexesAgree, RemoveMember, nodeVars, hyperedgeVars
<1> QED BY <1>2, <1>3 DEF Inv

LEMMA DeleteSubgraphStep ==
  ASSUME Inv, NEW g \in SubgraphId, DeleteSubgraph(g)  PROVE Inv'
<1>1. forward' \subseteq forward /\ \A p \in forward' : p[1] # g
  BY DEF DeleteSubgraph, WithoutForward
<1>2. TypeOK' /\ CountersAhead' /\ RestartFinds'
  BY <1>1 DEF Inv, TypeOK, CountersAhead, RestartFinds, DeleteSubgraph, nodeVars, hyperedgeVars
<1>3. forward \in SUBSET (Nat \X Node)
  BY DEF Inv, TypeOK
<1>4. reverse' = Turned(forward')
  BY <1>3, WithoutTurned DEF Inv, IndexesAgree, DeleteSubgraph
<1>5. \A p \in forward' : p[1] \in subgraphs'
  BY <1>1 DEF Inv, IndexesAgree, DeleteSubgraph
<1>6. IndexesAgree'
  BY <1>4, <1>5 DEF Inv, IndexesAgree, DeleteSubgraph, nodeVars, hyperedgeVars
<1> QED BY <1>2, <1>6 DEF Inv

LEMMA CreateHyperedgeStep ==
  ASSUME Inv, NEW ps \in ParticipantSets, CreateHyperedge(ps)  PROVE Inv'
<1> DEFINE h == Hyperedge(nextHyperedge, ps)
<1>1. h \in HyperedgeRecord /\ h.id = nextHyperedge
  BY EntitiesAssumption DEF Inv, TypeOK, Hyperedge, HyperedgeRecord
<1>2. /\ hyperedges' = hyperedges \cup {h}
      /\ pages' = [pages EXCEPT !.hyperedges = @ \cup {h}]
      /\ partForward' = partForward \cup Indexed({h})
      /\ partReverse' = partReverse \cup Turned(Indexed({h}))
  BY DEF CreateHyperedge
<1>3. TypeOK'
  BY <1>1, <1>2 DEF Inv, TypeOK, CreateHyperedge, nodeVars, subgraphVars
<1>4. CountersAhead' /\ RestartFinds'
  <2>1. \A r \in pages'.hyperedges : r.id < nextHyperedge'
    BY <1>1, <1>2 DEF Inv, TypeOK, HyperedgeRecord, CountersAhead, CreateHyperedge
  <2>2. \A x \in given'.hyperedges : \E r \in pages'.hyperedges : r.id = x
    BY <1>1, <1>2 DEF Inv, TypeOK, CountersAhead, CreateHyperedge
  <2> QED
    BY <1>1, <1>2, <2>1, <2>2 DEF Inv, TypeOK, CountersAhead, RestartFinds, CreateHyperedge, nodeVars, subgraphVars
<1>5. IndexesAgree'
  BY <1>2, IndexedUnion, TurnedUnion DEF Inv, IndexesAgree, CreateHyperedge, nodeVars, subgraphVars
<1> QED BY <1>3, <1>4, <1>5 DEF Inv

LEMMA DeleteHyperedgeStep ==
  ASSUME Inv, NEW x \in HyperedgeId, DeleteHyperedge(x)  PROVE Inv'
<1>1. TypeOK' /\ CountersAhead' /\ RestartFinds'
  BY DEF Inv, TypeOK, CountersAhead, RestartFinds, DeleteHyperedge, nodeVars, subgraphVars
<1>2. partForward \in SUBSET (Nat \X Nat)
  BY IndexedType DEF Inv, TypeOK, IndexesAgree
<1>3. partForward' = Indexed(hyperedges') /\ partReverse' = Turned(partForward')
  BY <1>2, WithoutIndexed, WithoutTurned DEF Inv, IndexesAgree, DeleteHyperedge
<1>4. IndexesAgree'
  BY <1>3 DEF Inv, IndexesAgree, DeleteHyperedge, nodeVars, subgraphVars
<1> QED BY <1>1, <1>4 DEF Inv

LEMMA RestartStep ==
  ASSUME Inv, Restart  PROVE Inv'
<1>1. TypeOK'
  BY EntitiesAssumption DEF Inv, TypeOK, Restart
<1>2. CountersAhead'
  <2>1. ASSUME NEW v \in pages.versions  PROVE v.seq < nextSeq'[v.node]
    BY DEF Inv, TypeOK, VersionRecord, Restart, AfterLoad
  <2>2. \A g \in pages.subgraphs : g < nextSubgraph'
    BY DEF Restart, AfterLoad
  <2>3. \A r \in pages.hyperedges : r.id < nextHyperedge'
    BY DEF Restart, AfterLoad
  <2>4. header.subgraph <= nextSubgraph' /\ header.hyperedge <= nextHyperedge'
    BY EntitiesAssumption DEF Inv, TypeOK, Restart, AfterLoad
  <2> QED BY <2>1, <2>2, <2>3, <2>4 DEF Inv, CountersAhead, Restart
<1>3. IndexesAgree'
  BY DEF Inv, CountersAhead, IndexesAgree, Restart
<1>4. RestartFinds'
  BY DEF RestartFinds, Restart
<1> QED BY <1>1, <1>2, <1>3, <1>4 DEF Inv

\* Every step keeps the invariant.
LEMMA StepInv ==
  ASSUME Inv, [Next]_vars  PROVE Inv'
<1>1. ASSUME NEW n \in Node, NEW s \in State, CreateNode(n, s)  PROVE Inv'
  BY <1>1 DEF Inv, TypeOK, CountersAhead, RestartFinds, IndexesAgree, CreateNode, subgraphVars, hyperedgeVars
<1>2. ASSUME NEW n \in Node, DeleteNode(n)  PROVE Inv'
  BY <1>2 DEF Inv, TypeOK, CountersAhead, RestartFinds, IndexesAgree, DeleteNode, subgraphVars, hyperedgeVars
<1>3. CASE FlushHeader
  <2>1. header' \in [subgraph : Nat, hyperedge : Nat]
    BY <1>3 DEF Inv, TypeOK, FlushHeader
  <2>2. header'.subgraph <= nextSubgraph' /\ header'.hyperedge <= nextHyperedge'
    BY <1>3 DEF Inv, TypeOK, FlushHeader, subgraphVars, hyperedgeVars
  <2> QED
    BY <1>3, <2>1, <2>2
    DEF Inv, TypeOK, CountersAhead, RestartFinds, IndexesAgree, FlushHeader, nodeVars, subgraphVars, hyperedgeVars
<1>4. CASE UNCHANGED vars
  BY <1>4 DEF Inv, TypeOK, CountersAhead, RestartFinds, IndexesAgree, vars, nodeVars, subgraphVars, hyperedgeVars
<1> QED
  BY <1>1, <1>2, <1>3, <1>4, UpdateStep, CreateSubgraphStep, AddMemberStep, RemoveMemberStep,
     DeleteSubgraphStep, CreateHyperedgeStep, DeleteHyperedgeStep, RestartStep DEF Next

\* Memory and pages have their types, the pages hold what memory holds and the counters are
\* ahead of both, whatever the order of the calls and the restarts.
THEOREM InvCorrect == Spec => []Inv
BY InitInv, StepInv, PTL DEF Spec

\* The two directions of the membership index and of the participant index agree
\* (MembershipIndex, HyperEdgeReverseIndex).
THEOREM IndexesAgreeCorrect == Spec => []IndexesAgree
<1>1. Inv => IndexesAgree
  BY DEF Inv
<1> QED BY <1>1, InvCorrect, PTL

\* A process that ends loses no subgraph, membership, hyperedge or version (persist_subgraph,
\* persist_hyperedge, persist_version and their loaders).
THEOREM RestartFindsCorrect == Spec => []RestartFinds
<1>1. Inv => RestartFinds
  BY DEF Inv
<1> QED BY <1>1, InvCorrect, PTL

\* No id of a subgraph or of a hyperedge is given twice, deletions and restarts included.
THEOREM IdsGivenOnceCorrect == Spec => []IdsGivenOnce
<1>1. Inv => IdsGivenOnce
  BY DEF Inv, TypeOK, CountersAhead, IdsGivenOnce
<1> QED BY <1>1, InvCorrect, PTL

\* The versions of a node are only added to, each above those before it (snapshot_node,
\* insert_loaded_record).
THEOREM HistoryGrowsCorrect == Spec => HistoryGrows
<1> DEFINE A == /\ versions \subseteq versions'
                /\ \A v \in versions' \ versions, w \in versions : v.node = w.node => w.seq < v.seq
<1>1. ASSUME Inv, [Next]_vars  PROVE [A]_vars
  <2>1. ASSUME NEW n \in Node, NEW s \in State, UpdateNode(n, s)  PROVE A
    <3>1. \A w \in versions : w.seq < nextSeq[w.node]
      BY <1>1 DEF Inv, CountersAhead, RestartFinds
    <3>2. versions \subseteq versions'
      BY <2>1 DEF UpdateNode
    <3> QED BY <1>1, <2>1, <3>1, <3>2, UpdateStep
  <2>2. CASE versions' = versions
    BY <2>2
  <2>3. CASE Restart
    BY <1>1, <2>3 DEF Restart, Inv, RestartFinds
  <2> QED
    BY <1>1, <2>1, <2>2, <2>3 DEF Next, vars, nodeVars, CreateNode, DeleteNode, CreateSubgraph, AddMember, RemoveMember,
      DeleteSubgraph, CreateHyperedge, DeleteHyperedge, FlushHeader
<1> QED BY <1>1, InvCorrect, PTL DEF Spec, HistoryGrows
===============================================================================
