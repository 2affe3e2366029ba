------------------------------ MODULE GraphStore ------------------------------
(***************************************************************************)
(* The graph that StorageEngine (lib.rs) keeps: NodeStore and EdgeStore    *)
(* (btree/), the label namespace of the catalog, one property key, the     *)
(* node and edge property indexes (index/) with the statements that create *)
(* and drop them (executor/mod.rs), and what of it a restart finds.        *)
(*                                                                         *)
(* Labels and properties of a record are Vecs in which nothing stops an    *)
(* entry from standing twice (CREATE (n:L:L), CREATE (n:L {p: 1, p: 2})):  *)
(* how often each stands there is kept, their order is left out.           *)
(*                                                                         *)
(* Each operation commits one page at most, so a kill between two          *)
(* operations stands for one inside them.  How records live on pages is    *)
(* module NodePages: here they are kept faithfully.  The header reaches    *)
(* the disk whenever a page is allocated.  The adjacency pointers of       *)
(* records (next_edge_id, next_out_edge, next_in_edge) are left out:       *)
(* nothing reads them.                                                     *)
(*                                                                         *)
(* Bounds: MaxNode and MaxEdge ids; the names of labels and indexes; in    *)
(* Next, MaxEntries labels, and as many values, in the records of the      *)
(* first MaxRepeating ids and one in the others, and edges from the first  *)
(* MaxSource nodes.                                                        *)
(***************************************************************************)
EXTENDS Integers, Sequences, FiniteSets

CONSTANTS Name,         \* names of labels
          Value,        \* values of the indexed property of nodes; a set of them is a range
          EdgeValue,    \* values of the indexed property of edges
                        \* (of both, only such as == and the order of the index tell apart
                        \* alike: neither NaN nor the two float zeros)
          Gone,         \* no entity, or no index
          IndexName,    \* names of node indexes
          MaxNode, MaxEdge, MaxEntries, MaxRepeating, MaxSource

ASSUME BoundsAssumption == /\ MaxNode \in Nat /\ MaxEdge \in Nat
                           /\ MaxEntries \in Nat /\ MaxRepeating \in Nat /\ MaxSource \in 0..MaxNode
                           /\ IsFiniteSet(Name) /\ IsFiniteSet(Value)

Node == 1..MaxNode
Edge == 1..MaxEdge
LabelId == 1..Cardinality(Name)

\* A Vec by how often each member of S stands in it; its entries of the members in a part of S.
Counts(S) == [S -> Nat]
None(S) == [x \in S |-> 0]
Entries(counts, part) == UNION {{x} \X (1..counts[x]) : x \in part}
NodeRecord == [labels : Counts(LabelId), values : Counts(Value)]
EdgeRecord == [from : Node, to : Node, values : Counts(EdgeValue)]
LabelsOf(node) == {l \in LabelId : node.labels[l] > 0}

\* How often an id is listed under a value; the order of the Vec is left out.
Postings(V, Id) == [V -> Counts(Id)]
IndexRecord == [label : LabelId, postings : Postings(Value, Node)]

ASSUME MarksAssumption ==
    /\ Gone \notin NodeRecord /\ Gone \notin EdgeRecord
    /\ Gone \notin IndexRecord /\ Gone \notin Postings(EdgeValue, Edge) /\ Gone \notin IndexName

VARIABLES nodes, edges,         \* NodeStore, EdgeStore
          nextEdge,             \* EdgeStore.next_id (NodeStore's equals the header's)
          header,               \* PageManager.header: next_node_id, next_edge_id
          catalog,              \* label names, in the order of their ids
          nodeIndex,            \* IndexManager
          edgeIndex,            \* EdgeIndexManager: the index on the relationship type
          disk,                 \* what a restart reads: nodes, edges, header, catalog
          open,                 \* the engine exists
          created,              \* history: the names a live node was created with
          killed,               \* history: the last session was killed
          harm                  \* history: see Harms

graph == <<nodes, edges, nextEdge, header>>
indexes == <<nodeIndex, edgeIndex>>
vars == <<graph, catalog, indexes, disk, open, created, killed, harm>>

\* Ids or label ids in use that the next session hands out again; edges back from the
\* dead; two indexes on one label.
Harms == {"reused_id", "reused_label", "resurrected", "two_indexes"}

Header == [node : 1..(MaxNode + 1), edge : 1..(MaxEdge + 1)]
NoNodes == [n \in Node |-> Gone]
NoEdges == [e \in Edge |-> Gone]
NoIndexes == [i \in IndexName |-> Gone]
EmptyPostings(V, Id) == [v \in V |-> None(Id)]

NoneTwice(names) == \A k, l \in 1..Len(names) : names[k] = names[l] => k = l
TypeOK == /\ nodes \in [Node -> NodeRecord \cup {Gone}]
          /\ edges \in [Edge -> EdgeRecord \cup {Gone}]
          /\ nextEdge \in 1..(MaxEdge + 1) /\ header \in Header
          /\ catalog \in Seq(Name) /\ NoneTwice(catalog)
          /\ nodeIndex \in [IndexName -> IndexRecord \cup {Gone}]
          /\ edgeIndex \in Postings(EdgeValue, Edge) \cup {Gone}
          /\ disk \in [nodes : [Node -> NodeRecord \cup {Gone}], edges : [Edge -> EdgeRecord \cup {Gone}],
                       header : Header, catalog : Seq(Name)]
          /\ NoneTwice(disk.catalog)
          /\ created \in [Node -> SUBSET Name]
          /\ open \in BOOLEAN /\ killed \in BOOLEAN /\ harm \subseteq Harms

Init == /\ nodes = NoNodes /\ edges = NoEdges /\ nextEdge = 1 /\ header = [node |-> 1, edge |-> 1]
        /\ catalog = <<>> /\ nodeIndex = NoIndexes /\ edgeIndex = Gone
        /\ disk = [nodes |-> nodes, edges |-> edges, header |-> header, catalog |-> catalog]
        /\ open = TRUE /\ created = [n \in Node |-> {}] /\ killed = FALSE /\ harm = {}

LiveNode == {n \in Node : nodes[n] # Gone}
ScanNodesByLabel(l) == {n \in LiveNode : l \in LabelsOf(nodes[n])}
Named == {catalog[l] : l \in 1..Len(catalog)}
LiveEdge == {e \in Edge : edges[e] # Gone}

-----------------------------------------------------------------------------
(* Property indexes.                                                       *)

\* An entity's old values are taken out of the postings (retain drops every listing of the id) and
\* its new ones put in (push, one for each entry): once for each time its label stands in its record.
Relist(postings, id, old, new, times) ==
    [v \in DOMAIN postings |->
       [postings[v] EXCEPT ![id] = IF old[v] > 0 THEN new[v] ELSE @ + times * new[v]]]

\* lookup; range: how often an id occurs in the postings of all values from the least to the
\* greatest asked for.
Lookup(postings, v) == postings[v]
Listings(postings, id) == [v \in DOMAIN postings |-> postings[v][id]]
RangeOf(postings, range) == [id \in Node |-> Cardinality(Entries(Listings(postings, id), range))]

\* find_index: one of the indexes on a label, in HashMap order.
On(index, label) == {i \in IndexName : index[i] # Gone /\ index[i].label = label}
FindIndex(label) == IF On(nodeIndex, label) = {} THEN {Gone} ELSE On(nodeIndex, label)
Finders == {find \in [LabelId -> IndexName \cup {Gone}] : \A l \in LabelId : find[l] \in FindIndex(l)}

\* The index found for every label of a node forgets the `old` values and learns the `new` ones.
Reindex(find, labels, id, old, new) ==
    [i \in IndexName |->
       IF \E l \in LabelId : labels[l] > 0 /\ find[l] = i
       THEN [nodeIndex[i] EXCEPT !.postings = Relist(@, id, old, new, labels[nodeIndex[i].label])]
       ELSE nodeIndex[i]]

ReindexEdge(id, old, new) ==
    IF edgeIndex = Gone THEN Gone ELSE Relist(edgeIndex, id, old, new, 1)

\* CREATE INDEX: an empty index, then a backfill of whatever index is found; valuesOf counts the
\* values in the records of the label or type.
Backfill(postings, valuesOf) ==
    [v \in DOMAIN postings |-> [id \in DOMAIN valuesOf |-> postings[v][id] + valuesOf[id][v]]]

AddIndex(i, label) == [nodeIndex EXCEPT ![i] = [label |-> label, postings |-> EmptyPostings(Value, Node)]]
CreateIndex(i, name) ==
    LET names == IF name \in Named THEN catalog ELSE Append(catalog, name)
        l == CHOOSE k \in 1..Len(names) : names[k] = name
        added == AddIndex(i, l)
        valuesOf == [n \in Node |-> IF n \in ScanNodesByLabel(l) THEN nodes[n].values ELSE None(Value)]
    IN  /\ open /\ nodeIndex[i] = Gone
        /\ catalog' = names
        /\ \E found \in On(added, l) :
             nodeIndex' = [added EXCEPT ![found].postings = Backfill(@, valuesOf)]
        /\ harm' = harm \cup IF On(nodeIndex, l) = {} THEN {} ELSE {"two_indexes"}
        /\ UNCHANGED <<graph, edgeIndex, disk, open, created, killed>>

RemoveIndex(i) == [nodeIndex EXCEPT ![i] = Gone]
DropIndex(i) == /\ open /\ nodeIndex[i] # Gone
                /\ nodeIndex' = RemoveIndex(i)
                /\ UNCHANGED <<graph, catalog, edgeIndex, disk, open, created, killed, harm>>

\* scan_by_type: all edges are of the one type.
ScanEdgesByType == {e \in Edge : edges[e] # Gone}
CreateEdgeIndex ==
    /\ open /\ edgeIndex = Gone
    /\ edgeIndex' = Backfill(EmptyPostings(EdgeValue, Edge),
                       [e \in Edge |-> IF e \in ScanEdgesByType THEN edges[e].values ELSE None(EdgeValue)])
    /\ UNCHANGED <<graph, catalog, nodeIndex, disk, open, created, killed, harm>>

DropEdgeIndex == /\ open /\ edgeIndex # Gone
                 /\ edgeIndex' = Gone
                 /\ UNCHANGED <<graph, catalog, nodeIndex, disk, open, created, killed, harm>>

-----------------------------------------------------------------------------
(* Scans: how often every id is in the answer; where one is found, the answer is that of an index. *)

Once(ids, Id) == [id \in Id |-> IF id \in ids THEN 1 ELSE 0]
ScanNodesByProperty(i, l, v) ==
    IF i # Gone THEN Lookup(nodeIndex[i].postings, v)
    ELSE Once({n \in ScanNodesByLabel(l) : nodes[n].values[v] > 0}, Node)
ScanNodesByRange(i, l, range) ==
    IF i # Gone THEN RangeOf(nodeIndex[i].postings, range)
    ELSE Once({n \in ScanNodesByLabel(l) : \E v \in range : nodes[n].values[v] > 0}, Node)
ScanEdgesByProperty(v) ==
    IF edgeIndex # Gone THEN Lookup(edgeIndex, v)
    ELSE Once({e \in ScanEdgesByType : edges[e].values[v] > 0}, Edge)

-----------------------------------------------------------------------------
(* Nodes.                                                                  *)

\* get_or_create_label: in memory only.
GetOrCreateLabel(name) ==
    /\ open /\ name \notin Named
    /\ catalog' = Append(catalog, name)
    /\ UNCHANGED <<graph, indexes, disk, open, created, killed, harm>>

\* `names` and `values` count the labels and the property's values in the pattern.
CreateNode(names, values) ==
    LET id == header.node
        labels == [l \in LabelId |-> IF l \in 1..Len(catalog) THEN names[catalog[l]] ELSE 0]
        used == {name \in Name : names[name] > 0}
    IN  /\ open /\ id <= MaxNode /\ used \subseteq Named
        /\ nodes' = [nodes EXCEPT ![id] = [labels |-> labels, values |-> values]]
        /\ header' = [header EXCEPT !.node = id + 1]
        /\ \E find \in Finders : nodeIndex' = Reindex(find, labels, id, None(Value), values)
        /\ disk' = [disk EXCEPT !.nodes[id] = nodes'[id]]
        /\ created' = [created EXCEPT ![id] = used]
        /\ UNCHANGED <<edges, nextEdge, catalog, edgeIndex, open, killed, harm>>

\* Mutant: the index keeps the old values.
UpdateNodeKeepingOld(n, values) ==
    /\ open /\ nodes[n] # Gone
    /\ nodes' = [nodes EXCEPT ![n].values = values]
    /\ \E find \in Finders : nodeIndex' = Reindex(find, nodes[n].labels, n, None(Value), values)
    /\ disk' = [disk EXCEPT !.nodes[n] = nodes'[n]]
    /\ UNCHANGED <<edges, nextEdge, header, catalog, edgeIndex, open, created, killed, harm>>

UpdateNode(n, values) ==
    /\ open /\ nodes[n] # Gone
    /\ nodes' = [nodes EXCEPT ![n].values = values]
    /\ \E find \in Finders : nodeIndex' = Reindex(find, nodes[n].labels, n, nodes[n].values, values)
    /\ disk' = [disk EXCEPT !.nodes[n] = nodes'[n]]
    /\ UNCHANGED <<edges, nextEdge, header, catalog, edgeIndex, open, created, killed, harm>>

\* delete_edges_for_node takes the edges out of EdgeStore, and out of nothing else.
TouchesAsSource(e, n) == edges[e] # Gone /\ n = edges[e].from
Touches(e, n) == edges[e] # Gone /\ n \in {edges[e].from, edges[e].to}
DeleteNode(n) ==
    /\ open /\ nodes[n] # Gone
    /\ edges' = [e \in Edge |-> IF Touches(e, n) THEN Gone ELSE edges[e]]
    /\ nodes' = [nodes EXCEPT ![n] = Gone]
    /\ \E find \in Finders :
         nodeIndex' = Reindex(find, nodes[n].labels, n, nodes[n].values, None(Value))
    /\ disk' = [disk EXCEPT !.nodes[n] = Gone]
    /\ created' = [created EXCEPT ![n] = {}]
    /\ UNCHANGED <<nextEdge, header, catalog, edgeIndex, open, killed, harm>>

-----------------------------------------------------------------------------
(* Edges.                                                                  *)

\* The id is taken before the end points are looked up; the header learns of it after.
CreateEdge(from, to, values) ==
    LET id == nextEdge
    IN  /\ open /\ id <= MaxEdge
        /\ nextEdge' = id + 1
        /\ IF nodes[from] = Gone \/ nodes[to] = Gone
           THEN UNCHANGED <<edges, header, edgeIndex, disk>>
           ELSE /\ edges' = [edges EXCEPT ![id] = [from |-> from, to |-> to, values |-> values]]
                /\ header' = [header EXCEPT !.edge = id + 1]
                /\ edgeIndex' = ReindexEdge(id, None(EdgeValue), values)
                /\ disk' = [disk EXCEPT !.edges[id] = edges'[id]]
        /\ UNCHANGED <<nodes, catalog, nodeIndex, open, created, killed, harm>>

\* Mutants: the index keeps the old values; the page is not rewritten.
UpdateEdgeKeepingOld(e, values) ==
    /\ open /\ edges[e] # Gone
    /\ edges' = [edges EXCEPT ![e].values = values]
    /\ edgeIndex' = ReindexEdge(e, None(EdgeValue), values)
    /\ disk' = [disk EXCEPT !.edges[e] = edges'[e]]
    /\ UNCHANGED <<nodes, nextEdge, header, catalog, nodeIndex, open, created, killed, harm>>
UpdateEdgeInMemory(e, values) ==
    /\ open /\ edges[e] # Gone
    /\ edges' = [edges EXCEPT ![e].values = values]
    /\ edgeIndex' = ReindexEdge(e, edges[e].values, values)
    /\ UNCHANGED <<nodes, nextEdge, header, catalog, nodeIndex, disk, open, created, killed, harm>>

UpdateEdge(e, values) ==
    /\ open /\ edges[e] # Gone
    /\ edges' = [edges EXCEPT ![e].values = values]
    /\ edgeIndex' = ReindexEdge(e, edges[e].values, values)
    /\ disk' = [disk EXCEPT !.edges[e] = edges'[e]]
    /\ UNCHANGED <<nodes, nextEdge, header, catalog, nodeIndex, open, created, killed, harm>>

DeleteEdge(e) ==
    /\ open /\ edges[e] # Gone
    /\ edges' = [edges EXCEPT ![e] = Gone]
    /\ edgeIndex' = ReindexEdge(e, edges[e].values, None(EdgeValue))
    /\ disk' = [disk EXCEPT !.edges[e] = Gone]
    /\ UNCHANGED <<nodes, nextEdge, header, catalog, nodeIndex, open, created, killed, harm>>

-----------------------------------------------------------------------------
(* Sessions.                                                               *)

Forgotten == /\ open' = FALSE
             /\ nodes' = NoNodes /\ edges' = NoEdges /\ catalog' = <<>>
             /\ nextEdge' = 1 /\ header' = [node |-> 1, edge |-> 1]
             /\ nodeIndex' = NoIndexes /\ edgeIndex' = Gone

\* Mutants: one of the two writes of Drop is missing.
CloseKeepingHeader == /\ open
                      /\ disk' = [disk EXCEPT !.catalog = catalog]
                      /\ Forgotten
                      /\ UNCHANGED <<created, killed, harm>>
CloseKeepingCatalog == /\ open
                       /\ disk' = [disk EXCEPT !.header = header]
                       /\ Forgotten
                       /\ UNCHANGED <<created, killed, harm>>

\* Drop: save_catalog, flush_header.
Close == /\ open
         /\ disk' = [disk EXCEPT !.catalog = catalog, !.header = header]
         /\ Forgotten
         /\ UNCHANGED <<created, killed, harm>>

\* The header on disk is the one of some earlier moment.
Kill == /\ open /\ killed' = TRUE
        /\ \E n \in 1..header.node, e \in 1..header.edge :
             disk' = [disk EXCEPT !.header = [node |-> n, edge |-> e]]
        /\ Forgotten
        /\ UNCHANGED <<created, harm>>

\* What a session starts with that will hurt it: after a kill, ids and label ids in use
\* that the header or the catalog does not know of; edges that a node took along.
LabelsUsed == UNION {LabelsOf(disk.nodes[n]) : n \in {m \in Node : disk.nodes[m] # Gone}}
HarmFound == {h \in {"reused_id", "reused_label", "resurrected"} :
    CASE h = "reused_id" -> killed /\ \/ \E n \in Node : disk.nodes[n] # Gone /\ n >= disk.header.node
                                      \/ \E e \in Edge : disk.edges[e] # Gone /\ e >= disk.header.edge
      [] h = "reused_label" -> killed /\ \E l \in LabelsUsed : l > Len(disk.catalog)
      [] h = "resurrected" -> \E e \in Edge :
            disk.edges[e] # Gone /\ Gone \in {disk.nodes[disk.edges[e].from], disk.nodes[disk.edges[e].to]}}

\* open: the records, the counters of the header, the catalog; no index is rebuilt.
Open == /\ ~ open /\ open' = TRUE
        /\ nodes' = disk.nodes /\ edges' = disk.edges
        /\ header' = disk.header /\ nextEdge' = disk.header.edge
        /\ catalog' = disk.catalog
        /\ harm' = harm \cup HarmFound /\ killed' = FALSE
        /\ UNCHANGED <<indexes, disk, created>>

\* The Vecs tried in the record of an id.
Patterns(S, id) ==
    LET max == IF id <= MaxRepeating THEN MaxEntries ELSE 1
    IN  {counts \in [S -> 0..max] : Cardinality(Entries(counts, S)) <= max}
LabelPattern == [id \in 1..(MaxNode + 1) |-> Patterns(Name, id)]
ValuePattern == [id \in 1..(MaxNode + 1) |-> Patterns(Value, id)]
EdgePattern == [id \in 1..(MaxEdge + 1) |-> Patterns(EdgeValue, id)]

Next == \/ \E i \in IndexName : DropIndex(i) \/ \E name \in Name : CreateIndex(i, name)
        \/ CreateEdgeIndex \/ DropEdgeIndex
        \/ \E name \in Name : GetOrCreateLabel(name)
        \/ \E names \in LabelPattern[header.node], values \in ValuePattern[header.node] : CreateNode(names, values)
        \/ \E n \in Node : DeleteNode(n) \/ \E values \in ValuePattern[n] : UpdateNode(n, values)
        \/ \E from \in 1..MaxSource, to \in Node, values \in EdgePattern[nextEdge] : CreateEdge(from, to, values)
        \/ \E e \in Edge : DeleteEdge(e) \/ \E values \in EdgePattern[e] : UpdateEdge(e, values)
        \/ Close \/ Kill \/ Open

Spec == Init /\ [][Next]_vars

-----------------------------------------------------------------------------
(* What must hold.  Properties speak of sessions that no harm has reached. *)

\* An id is listed that has entries to be listed for, and not more often than there are such entries.
Lists(times, entries) == times <= entries /\ (entries > 0 => times > 0)

\* What an index on a label has to list a node for: a value as often as it stands in the node's
\* record, as often as the label does; and the same for a range.
Listed(label, v, n) == IF nodes[n] = Gone THEN 0 ELSE nodes[n].labels[label] * nodes[n].values[v]
ListedIn(label, range, n) ==
    IF nodes[n] = Gone THEN 0 ELSE Cardinality(Entries([v \in range |-> Listed(label, v, n)], range))

\* scan_nodes_by_property, scan_nodes_by_range: with an index or without, a scan answers the live
\* nodes that have the label and a value in the range, and no others ("same result, slower",
\* index_scan.rs; REQ-QE3-046).  A node that names no label and no key twice it answers once.  One
\* that does it may answer more often, as an index pushes the id for every entry (lib.rs:250), but
\* never more often than the label and the values stand in its record.
IndexIsScan ==
    harm = {} /\ open =>
      \A l \in 1..Len(catalog) : \A i \in FindIndex(l) :
        /\ \A v \in Value :
             LET answer == ScanNodesByProperty(i, l, v)
             IN  \A n \in Node : Lists(answer[n], Listed(l, v, n))
        /\ \A range \in (SUBSET Value) \ {{}} :
             LET answer == ScanNodesByRange(i, l, range)
             IN  \A n \in Node : Lists(answer[n], ListedIn(l, range, n))

\* scan_edges_by_property: the answer holds the live edges that have the value, each once unless
\* its record has the value more often, and no other live edge; what else it holds are edges that
\* went with a node, and their ids are never used again.
EdgeIndexIsScan ==
    harm = {} /\ open =>
      \A v \in EdgeValue, e \in Edge :
        /\ e \in LiveEdge => Lists(ScanEdgesByProperty(v)[e], edges[e].values[v])
        /\ ScanEdgesByProperty(v)[e] # 0 => e < nextEdge

\* REQ-STORE-004: no edge outlives its nodes.
EndpointsLive ==
    harm = {} => \A e \in LiveEdge : Gone \notin {nodes[edges[e].from], nodes[edges[e].to]}

\* R-PERSIST-001 to -005: a restart at any time finds the live nodes and edges as they are;
\* an edge it finds besides is one that went with a node.
RestartFinds ==
    harm = {} /\ open =>
      /\ disk.nodes = nodes
      /\ \A e \in Edge : edges[e] # disk.edges[e] =>
           edges[e] = Gone /\ Gone \in {nodes[disk.edges[e].from], nodes[disk.edges[e].to]}

\* A node keeps the labels it was created with, by name, in later sessions too: label ids
\* are not given to other names.
LabelsKeepNames ==
    harm = {} => \A n \in LiveNode : created[n] = {catalog[l] : l \in LabelsOf(nodes[n]) \cap (1..Len(catalog))}

-----------------------------------------------------------------------------
(* The inductive invariant.                                                *)

\* What a session leaves behind in memory, and the mark of a kill, which the next session takes away.
Sessions == /\ ~ open => nodes = NoNodes /\ edges = NoEdges /\ nodeIndex = NoIndexes /\ edgeIndex = Gone
            /\ open => ~ killed

\* Unless a session was killed, ids on disk are below the counters of the next session; within one,
\* the header's counter of edges is not ahead of EdgeStore's, and no edge on disk leads to a node
\* that is still to come.
Counters == IF open THEN header ELSE disk.header
IdsAhead ==
    harm = {} /\ ~ killed =>
      /\ \A n \in Node : disk.nodes[n] # Gone => n < Counters.node
      /\ \A e \in Edge : disk.edges[e] # Gone => e < Counters.edge
      /\ open => /\ header.edge <= nextEdge
                 /\ \A e \in Edge : disk.edges[e] # Gone =>
                      disk.edges[e].from < header.node /\ disk.edges[e].to < header.node

\* The names of labels: in a session every label of a node is in the catalog, which begins with the
\* catalog on disk; between sessions the catalog on disk has the right names for a node whose labels
\* it knows, and it knows them all unless the session was killed.
Knows(names, n) == LabelsOf(n) \subseteq 1..Len(names)
NamesOf(names, n) == {names[l] : l \in LabelsOf(n) \cap (1..Len(names))}
NamesKept ==
    harm = {} =>
      /\ open => /\ \A n \in LiveNode : Knows(catalog, nodes[n])
                 /\ Len(disk.catalog) <= Len(catalog)
                 /\ \A l \in 1..Len(disk.catalog) : disk.catalog[l] = catalog[l]
      /\ ~ open => \A n \in Node : disk.nodes[n] # Gone =>
                     /\ ~ killed => Knows(disk.catalog, disk.nodes[n])
                     /\ Knows(disk.catalog, disk.nodes[n]) =>
                          created[n] = NamesOf(disk.catalog, disk.nodes[n])

\* One index on a label, which lists the live nodes of the label under their values: at least once,
\* and at most as often as the label and the value stand in the record.
NodeIndexRight ==
    harm = {} =>
      /\ \A i, j \in IndexName :
           nodeIndex[i] # Gone /\ nodeIndex[j] # Gone /\ nodeIndex[i].label = nodeIndex[j].label => i = j
      /\ \A i \in IndexName : nodeIndex[i] # Gone =>
           \A v \in Value, n \in Node : Lists(nodeIndex[i].postings[v][n], Listed(nodeIndex[i].label, v, n))

\* The edge index lists live edges under their values, as often as these stand in the record, and
\* beside them no edge to come.
EdgeIndexRight ==
    harm = {} /\ edgeIndex # Gone =>
      \A v \in EdgeValue, e \in Edge :
        /\ edges[e] # Gone => edgeIndex[v][e] = edges[e].values[v]
        /\ edgeIndex[v][e] # 0 => e < nextEdge

\* All of it, with the properties above that it needs: what a restart finds, and that edges have
\* their nodes.
Inv == /\ TypeOK /\ Sessions /\ IdsAhead /\ RestartFinds /\ EndpointsLive
       /\ NamesKept /\ LabelsKeepNames /\ NodeIndexRight /\ EdgeIndexRight

=============================================================================
