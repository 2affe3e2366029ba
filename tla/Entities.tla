------------------------------- MODULE Entities -------------------------------
(***************************************************************************)
(* Subgraphs with their members, hyperedges with their participants, and   *)
(* the versions of nodes: the in-memory stores of the engine, the records  *)
(* it appends to the data pages, and what open() rebuilds from them.       *)
(*                                                                         *)
(* A record that was appended is on its page: each append is one committed *)
(* frame of the write-ahead log (WalStore), on pages chained as those of   *)
(* nodes are (NodePages).  The records of one subgraph are kept as the     *)
(* union of their member lists, which is what loading makes of them.  Node *)
(* ids are NodePages' business too: here a node takes any id that is not   *)
(* in use.  Properties of subgraphs and hyperedges never change after      *)
(* creation and are left out, and so is the error an append may return,    *)
(* which the callers drop.                                                 *)
(***************************************************************************)
EXTENDS Integers, FiniteSets

CONSTANTS
  Node,               \* node ids
  State,              \* what a node's record can hold
  NoNode,             \* the id is not in use
  ParticipantSets,    \* the participants CREATE HYPEREDGE is called with
  MaxSubgraphs,       \* bound: subgraphs ever created
  MaxHyperedges,      \* bound: hyperedges ever created
  MaxVersions         \* bound: versions ever stored

SubgraphId == 1..MaxSubgraphs
HyperedgeId == 1..MaxHyperedges

\* A participant is an entity of some kind; the reverse index keeps its number only.
Entity == [kind : {"Node", "Subgraph", "HyperEdge", "TemporalRef"}, raw : Nat]

ASSUME EntitiesAssumption ==
  /\ NoNode \notin State
  /\ MaxSubgraphs \in Nat /\ MaxHyperedges \in Nat /\ MaxVersions \in Nat
  /\ ParticipantSets \subseteq SUBSET Entity

VARIABLES
  nodes,          \* node_store: the record of each node, or NoNode
  versions,       \* version_store.versions: (node, sequence number) -> the state before an update
  nextSeq,        \* version_store.next_seq
  subgraphs,      \* subgraph_store.records
  forward,        \* membership_index.forward, as pairs <<subgraph, node>>
  reverse,        \* membership_index.reverse, as pairs <<node, subgraph>>
  hyperedges,     \* hyperedge_store.records
  partForward,    \* hyperedge_reverse_index.forward, as pairs <<hyperedge, number>>
  partReverse,    \* hyperedge_reverse_index.reverse, as pairs <<number, hyperedge>>
  nextSubgraph,   \* subgraph_store.next_id, which the header in memory copies
  nextHyperedge,  \* hyperedge_store.next_id, which the header in memory copies
  header,         \* the two next ids of the header on disk
  pages,          \* the records on the data pages
  given           \* history: the ids handed out, restarts included

nodeVars == <<nodes, versions, nextSeq>>
subgraphVars == <<subgraphs, forward, reverse, nextSubgraph>>
hyperedgeVars == <<hyperedges, partForward, partReverse, nextHyperedge>>
vars == <<nodeVars, subgraphVars, hyperedgeVars, header, pages, given>>

Init ==
  /\ nodes = [n \in Node |-> NoNode] /\ versions = {} /\ nextSeq = [n \in Node |-> 1]
  /\ subgraphs = {} /\ forward = {} /\ reverse = {} /\ nextSubgraph = 1
  /\ hyperedges = {} /\ partForward = {} /\ partReverse = {} /\ nextHyperedge = 1
  /\ header = [subgraph |-> 1, hyperedge |-> 1]
  /\ pages = [subgraphs |-> {}, members |-> {}, hyperedges |-> {}, versions |-> {}]
  /\ given = [subgraphs |-> {}, hyperedges |-> {}]
-------------------------------------------------------------------------------
(* Nodes and their versions *)

CreateNode(n, s) ==
  /\ nodes[n] = NoNode
  /\ nodes' = [nodes EXCEPT ![n] = s]
  /\ UNCHANGED <<versions, nextSeq, subgraphVars, hyperedgeVars, header, pages, given>>

\* The versions of the node, its memberships and its places in hyperedges stay.
DeleteNode(n) ==
  /\ nodes[n] # NoNode
  /\ nodes' = [nodes EXCEPT ![n] = NoNode]
  /\ UNCHANGED <<versions, nextSeq, subgraphVars, hyperedgeVars, header, pages, given>>

Version(n, k, s) == [node |-> n, seq |-> k, state |-> s]

\* update_node: the state before it is snapshot and appended to the pages first.
UpdateNode(n, s) ==
  /\ nodes[n] # NoNode
  /\ Cardinality(versions) < MaxVersions
  /\ LET v == Version(n, nextSeq[n], nodes[n]) IN
       /\ versions' = versions \cup {v}
       /\ pages' = [pages EXCEPT !.versions = @ \cup {v}]
  /\ nextSeq' = [nextSeq EXCEPT ![n] = @ + 1]
  /\ nodes' = [nodes EXCEPT ![n] = s]
  /\ UNCHANGED <<subgraphVars, hyperedgeVars, header, given>>
-------------------------------------------------------------------------------
(* Subgraphs *)

\* persist_subgraph: the record, with the members that are given.
Saved(g, members) == [subgraphs |-> pages.subgraphs \cup {g}, members |-> pages.members \cup ({g} \X members),
                      hyperedges |-> pages.hyperedges, versions |-> pages.versions]
MembersOf(g) == {n \in Node : <<g, n>> \in forward}

CreateSubgraph ==
  /\ nextSubgraph \in SubgraphId
  /\ subgraphs' = subgraphs \cup {nextSubgraph}
  /\ nextSubgraph' = nextSubgraph + 1
  /\ pages' = Saved(nextSubgraph, MembersOf(nextSubgraph))
  /\ given' = [given EXCEPT !.subgraphs = @ \cup {nextSubgraph}]
  /\ UNCHANGED <<nodeVars, forward, reverse, hyperedgeVars, header>>

\* add_member: the whole record is appended again, with the members it has now.
AddMemberUnsaved(g, n) ==                                  \* a mistake: the old members
  /\ g \in subgraphs /\ nodes[n] # NoNode
  /\ forward' = forward \cup {<<g, n>>}
  /\ reverse' = reverse \cup {<<n, g>>}
  /\ pages' = Saved(g, MembersOf(g))
  /\ UNCHANGED <<nodeVars, subgraphs, nextSubgraph, hyperedgeVars, header, given>>
AddMember(g, n) ==
  /\ g \in subgraphs /\ nodes[n] # NoNode
  /\ forward' = forward \cup {<<g, n>>}
  /\ reverse' = reverse \cup {<<n, g>>}
  /\ pages' = Saved(g, MembersOf(g) \cup {n})
  /\ UNCHANGED <<nodeVars, subgraphs, nextSubgraph, hyperedgeVars, header, given>>

\* remove_member: the reverse entry goes when the forward entry was there.  Nothing is
\* appended.
RemoveMember(g, n) ==
  /\ g \in subgraphs /\ <<g, n>> \in forward
  /\ forward' = forward \ {<<g, n>>}
  /\ reverse' = reverse \ {<<n, g>>}
  /\ UNCHANGED <<nodeVars, subgraphs, nextSubgraph, hyperedgeVars, header, pages, given>>

\* remove_all of either index: the entries of x go from the forward side, and from the reverse
\* side those that the forward side named.
WithoutForward(x, ahead) == {p \in ahead : p[1] # x}
WithoutReverseKept(x, ahead, back) == back                  \* a mistake: the other side is kept
WithoutReverse(x, ahead, back) == {p \in back : ~ (p[2] = x /\ <<x, p[1]>> \in ahead)}

\* delete_subgraph: the index first, whether the subgraph exists or not.  Nothing is appended.
DeleteSubgraph(g) ==
  /\ forward' = WithoutForward(g, forward)
  /\ reverse' = WithoutReverse(g, forward, reverse)
  /\ subgraphs' = subgraphs \ {g}
  /\ UNCHANGED <<nodeVars, nextSubgraph, hyperedgeVars, header, pages, given>>
-------------------------------------------------------------------------------
(* Hyperedges *)

Hyperedge(h, ps) == [id |-> h, participants |-> ps]
Raws(ps) == {e.raw : e \in ps}

\* What the index holds of the hyperedges hs, and the other direction of an index.
Indexed(hs) == UNION {{<<h.id, r>> : r \in Raws(h.participants)} : h \in hs}
Turned(pairs) == {<<p[2], p[1]>> : p \in pairs}

\* create_hyperedge: whether the participants exist is not looked up.
CreateHyperedge(ps) ==
  /\ nextHyperedge \in HyperedgeId
  /\ LET h == Hyperedge(nextHyperedge, ps) IN
       /\ hyperedges' = hyperedges \cup {h}
       /\ pages' = [pages EXCEPT !.hyperedges = @ \cup {h}]
       /\ partForward' = partForward \cup Indexed({h})
       /\ partReverse' = partReverse \cup Turned(Indexed({h}))
  /\ nextHyperedge' = nextHyperedge + 1
  /\ given' = [given EXCEPT !.hyperedges = @ \cup {nextHyperedge}]
  /\ UNCHANGED <<nodeVars, subgraphVars, header>>

DeleteHyperedge(x) ==
  /\ partForward' = WithoutForward(x, partForward)
  /\ partReverse' = WithoutReverse(x, partForward, partReverse)
  /\ hyperedges' = {h \in hyperedges : h.id # x}
  /\ UNCHANGED <<nodeVars, subgraphVars, nextHyperedge, header, pages, given>>
-------------------------------------------------------------------------------
(* The header and the restart *)

\* Whatever flushes the header: a page allocated for any record, a checkpoint, Drop.
FlushHeader ==
  /\ header' = [subgraph |-> nextSubgraph, hyperedge |-> nextHyperedge]
  /\ UNCHANGED <<nodeVars, subgraphVars, hyperedgeVars, pages, given>>

\* insert_loaded_record, over all the records: the counter is one above the ids loaded, and
\* where it started when they are all below that.
StartsAt(k, start, ids) == k = start                       \* a mistake: the counter stays
AfterLoad(k, start, ids) ==
  /\ k >= start
  /\ \A i \in ids : i < k
  /\ k = start \/ k - 1 \in ids

\* A process that ends, by a kill or after Drop (FlushHeader), and the next open().
Restart ==
  /\ versions' = pages.versions
  /\ nextSeq' \in [Node -> 1..MaxVersions + 1]
  /\ \A n \in Node : AfterLoad(nextSeq'[n], 1, {v.seq : v \in {w \in pages.versions : w.node = n}})
  /\ subgraphs' = pages.subgraphs
  /\ forward' = pages.members
  /\ reverse' = Turned(pages.members)
  /\ nextSubgraph' \in 1..MaxSubgraphs + 1
  /\ AfterLoad(nextSubgraph', header.subgraph, pages.subgraphs)
  /\ hyperedges' = pages.hyperedges
  /\ partForward' = Indexed(pages.hyperedges)
  /\ partReverse' = Turned(Indexed(pages.hyperedges))
  /\ nextHyperedge' \in 1..MaxHyperedges + 1
  /\ AfterLoad(nextHyperedge', header.hyperedge, {h.id : h \in pages.hyperedges})
  /\ UNCHANGED <<nodes, header, pages, given>>

Next ==
  \/ \E n \in Node, s \in State : CreateNode(n, s) \/ UpdateNode(n, s)
  \/ \E n \in Node : DeleteNode(n)
  \/ CreateSubgraph
  \/ \E g \in SubgraphId, n \in Node : AddMember(g, n) \/ RemoveMember(g, n)
  \/ \E g \in SubgraphId : DeleteSubgraph(g)
  \/ \E ps \in ParticipantSets : CreateHyperedge(ps)
  \/ \E h \in HyperedgeId : DeleteHyperedge(h)
  \/ FlushHeader
  \/ Restart

Spec == Init /\ [][Next]_vars
-------------------------------------------------------------------------------
(* Properties *)

\* The two directions of each index agree, whatever order of additions, removals, deletions
\* and restarts led there: members belong to subgraphs that exist, and the participants indexed
\* are those of the hyperedges that exist (MembershipIndex, HyperEdgeReverseIndex).
IndexesAgree ==
  /\ reverse = Turned(forward)
  /\ \A p \in forward : p[1] \in subgraphs
  /\ partForward = Indexed(hyperedges)
  /\ partReverse = Turned(partForward)

\* A process that ends now loses no subgraph, no membership, no hyperedge and no version:
\* each is in a record on the pages (persist_subgraph, persist_hyperedge, persist_version).
RestartFinds ==
  /\ subgraphs \subseteq pages.subgraphs
  /\ forward \subseteq pages.members
  /\ hyperedges \subseteq pages.hyperedges
  /\ versions = pages.versions

\* The id of a subgraph or a hyperedge that was ever created, one since deleted included, is
\* not given to another one, though the header on disk lags behind (insert_loaded_record).
IdsGivenOnce ==
  /\ \A g \in given.subgraphs : g < nextSubgraph
  /\ \A h \in given.hyperedges : h < nextHyperedge

\* The history of a node is only added to, and the numbers of its versions are in the order of
\* the updates: no update and no restart overwrites or forgets a version (snapshot_node,
\* insert_loaded_record).
HistoryGrows ==
  [][ /\ versions \subseteq versions'
      /\ \A v \in versions' \ versions, w \in versions : v.node = w.node => w.seq < v.seq ]_vars
===============================================================================
