--------------------------- MODULE GraphStoreProofs ---------------------------
(***************************************************************************)
(* Proofs about GraphStore for any number of nodes, edges, labels, values  *)
(* and indexes, and any number of sessions, killed or not.  One inductive  *)
(* invariant (Inv, which TLC checks too) carries them: ids on disk lie     *)
(* below the counters, the catalog on disk is a prefix of the catalog, and *)
(* an index lists what a scan would find.                                  *)
(***************************************************************************)
EXTENDS GraphStore, FiniteSetTheorems, TLAPS

-----------------------------------------------------------------------------
(* The operators.                                                          *)

\* There are as many label ids as there are names.
LEMMA LabelIds == Cardinality(Name) \in Nat /\ LabelId = 1..Cardinality(Name)
BY FS_CardinalityType, BoundsAssumption DEF LabelId

\* A catalog in which no name stands twice has no more labels than there are names.
LEMMA CatalogFits ==
  ASSUME NEW names \in Seq(Name), NoneTwice(names)
  PROVE  Len(names) \in Nat /\ 1..Len(names) \subseteq LabelId
<1>2. Len(names) \in Nat /\ names \in [1..Len(names) -> Name]
  OBVIOUS
<1>1. names \in Injection(1..Len(names), Name)
  BY <1>2 DEF NoneTwice, Injection, IsInjective
<1>3. Cardinality(1..Len(names)) <= Cardinality(Name)
  BY <1>1, FS_Injection, BoundsAssumption
<1>4. Cardinality(1..Len(names)) = Len(names)
  BY <1>2, FS_Interval
<1> QED BY <1>2, <1>3, <1>4, LabelIds

\* A new name goes to the end of the catalog; what was there keeps its place.
LEMMA AppendName ==
  ASSUME NEW names \in Seq(Name), NoneTwice(names), NEW name \in Name,
         name \notin {names[l] : l \in 1..Len(names)}
  PROVE  /\ Append(names, name) \in Seq(Name) /\ NoneTwice(Append(names, name))
         /\ Len(Append(names, name)) = Len(names) + 1
         /\ \A l \in 1..Len(names) : Append(names, name)[l] = names[l]
<1>1. /\ Append(names, name) \in Seq(Name) /\ Len(Append(names, name)) = Len(names) + 1
      /\ Append(names, name)[Len(names) + 1] = name
      /\ \A l \in 1..Len(names) : Append(names, name)[l] = names[l]
  OBVIOUS
<1>2. \A k \in 1..(Len(names) + 1) : k \in 1..Len(names) \/ k = Len(names) + 1
  OBVIOUS
<1>3. NoneTwice(Append(names, name))
  BY <1>1, <1>2 DEF NoneTwice
<1> QED BY <1>1, <1>3

\* How often a record has an entry twice over: for its label and for its value.
LEMMA Products ==
  ASSUME NEW k \in Nat, NEW m \in Nat
  PROVE  k * m \in Nat /\ (k = 0 \/ m = 0 => k * m = 0) /\ (k > 0 => m <= k * m)
OBVIOUS

\* No entry at all, and how often it stands anywhere.
LEMMA NoneCounts == \A S : None(S) \in Counts(S) /\ \A x \in S : None(S)[x] = 0
BY DEF None, Counts

\* What the postings are after an id has moved from its old values to its new ones.
LEMMA Relisted ==
  ASSUME NEW V, NEW Id, NEW p \in Postings(V, Id), NEW old \in Counts(V), NEW new \in Counts(V),
         NEW times \in Nat, NEW id \in Id
  PROVE  /\ Relist(p, id, old, new, times) \in Postings(V, Id)
         /\ \A v \in V, n \in Id :
              Relist(p, id, old, new, times)[v][n] = IF n # id THEN p[v][n]
                                                     ELSE IF old[v] > 0 THEN new[v]
                                                     ELSE p[v][n] + times * new[v]
<1> DEFINE q == Relist(p, id, old, new, times)
           at(v) == IF old[v] > 0 THEN new[v] ELSE p[v][id] + times * new[v]
<1>1. p \in [V -> [Id -> Nat]] /\ old \in [V -> Nat] /\ new \in [V -> Nat]
  BY DEF Postings, Counts
<1>2. q = [v \in V |-> [p[v] EXCEPT ![id] = at(v)]]
  BY <1>1 DEF Relist
<1>3. ASSUME NEW v \in V  PROVE at(v) \in Nat
  <2>1. times * new[v] \in Nat
    BY <1>1, Products
  <2> QED BY <1>1, <2>1
<1> HIDE DEF at
<1>4. q \in [V -> [Id -> Nat]]
  BY <1>1, <1>2, <1>3
<1>5. \A v \in V, n \in Id : q[v][n] = IF n = id THEN at(v) ELSE p[v][n]
  BY <1>1, <1>2
<1> QED BY <1>4, <1>5 DEF Postings, Counts, at

\* What a backfill adds.
LEMMA Backfilled ==
  ASSUME NEW V, NEW Id, NEW p \in Postings(V, Id), NEW f \in [Id -> Counts(V)]
  PROVE  /\ Backfill(p, f) \in Postings(V, Id)
         /\ \A v \in V, n \in Id : Backfill(p, f)[v][n] = p[v][n] + f[n][v]
BY DEF Backfill, Postings, Counts

\* The index found for a label is an index on it, where there is one.
LEMMA FoundIsOn ==
  ASSUME NEW find \in Finders, NEW l \in LabelId, NEW i \in IndexName
  PROVE  /\ find[l] = i => nodeIndex[i] # Gone /\ nodeIndex[i].label = l
         /\ nodeIndex[i] # Gone /\ nodeIndex[i].label = l =>
              \E j \in IndexName : find[l] = j /\ nodeIndex[j] # Gone /\ nodeIndex[j].label = l
BY MarksAssumption DEF Finders, FindIndex, On

\* Reindexing leaves the indexes that are there on their labels, and moves the id in those found.
LEMMA NotReindexed ==
  ASSUME nodeIndex \in [IndexName -> IndexRecord \cup {Gone}], NEW find \in Finders, NEW labels \in Counts(LabelId),
         NEW id \in Node, NEW old \in Counts(Value), NEW new \in Counts(Value), NEW i \in IndexName,
         \A l \in LabelId : labels[l] > 0 => find[l] # i
  PROVE  Reindex(find, labels, id, old, new)[i] = nodeIndex[i]
BY DEF Reindex
LEMMA ReindexedAt ==
  ASSUME nodeIndex \in [IndexName -> IndexRecord \cup {Gone}], NEW find \in Finders, NEW labels \in Counts(LabelId),
         NEW id \in Node, NEW old \in Counts(Value), NEW new \in Counts(Value), NEW i \in IndexName,
         \E l \in LabelId : labels[l] > 0 /\ find[l] = i
  PROVE  /\ nodeIndex[i] # Gone /\ labels[nodeIndex[i].label] > 0
         /\ Reindex(find, labels, id, old, new)[i] \in IndexRecord
         /\ Reindex(find, labels, id, old, new)[i].label = nodeIndex[i].label
         /\ Reindex(find, labels, id, old, new)[i].postings =
              Relist(nodeIndex[i].postings, id, old, new, labels[nodeIndex[i].label])
<1> DEFINE R == Reindex(find, labels, id, old, new)
           P == Relist(nodeIndex[i].postings, id, old, new, labels[nodeIndex[i].label])
<1>1. nodeIndex[i] # Gone /\ labels[nodeIndex[i].label] > 0
  BY FoundIsOn
<1>2. nodeIndex[i] \in IndexRecord
  BY <1>1
<1>3. R[i] = [nodeIndex[i] EXCEPT !.postings = P]
  BY DEF Reindex
<1>4. P \in Postings(Value, Node)
  <2>1. labels[nodeIndex[i].label] \in Nat /\ nodeIndex[i].postings \in Postings(Value, Node)
    BY <1>2 DEF IndexRecord, Counts
  <2> QED BY <2>1, Relisted
<1> HIDE DEF P
<1>5. R[i] \in IndexRecord /\ R[i].label = nodeIndex[i].label /\ R[i].postings = P
  BY <1>2, <1>3, <1>4 DEF IndexRecord
<1> QED BY <1>1, <1>5 DEF P
LEMMA Reindexed ==
  ASSUME nodeIndex \in [IndexName -> IndexRecord \cup {Gone}], NEW find \in Finders, NEW labels \in Counts(LabelId),
         NEW id \in Node, NEW old \in Counts(Value), NEW new \in Counts(Value)
  PROVE  Reindex(find, labels, id, old, new) \in [IndexName -> IndexRecord \cup {Gone}]
<1> DEFINE R == Reindex(find, labels, id, old, new)
<1>1. DOMAIN R = IndexName /\ R = [i \in IndexName |-> R[i]]
  BY DEF Reindex
<1>2. ASSUME NEW i \in IndexName  PROVE R[i] \in IndexRecord \cup {Gone}
  <2>1. CASE \A l \in LabelId : labels[l] > 0 => find[l] # i
    BY <2>1, NotReindexed
  <2>2. CASE \E l \in LabelId : labels[l] > 0 /\ find[l] = i
    BY <2>2, ReindexedAt
  <2> QED BY <2>1, <2>2
<1> QED BY <1>1, <1>2

\* The same for the edge index.
LEMMA EdgeReindexed ==
  ASSUME edgeIndex \in Postings(EdgeValue, Edge) \cup {Gone}, NEW id \in Edge,
         NEW old \in Counts(EdgeValue), NEW new \in Counts(EdgeValue)
  PROVE  /\ ReindexEdge(id, old, new) \in Postings(EdgeValue, Edge) \cup {Gone}
         /\ ReindexEdge(id, old, new) # Gone =>
              /\ edgeIndex # Gone /\ edgeIndex \in Postings(EdgeValue, Edge)
              /\ ReindexEdge(id, old, new) = Relist(edgeIndex, id, old, new, 1)
<1>1. CASE edgeIndex = Gone
  BY <1>1 DEF ReindexEdge
<1>2. CASE edgeIndex # Gone
  BY <1>2, Relisted, MarksAssumption DEF ReindexEdge
<1> QED BY <1>1, <1>2

\* The record of a live node.
LEMMA LiveNodeTyped == TypeOK => \A n \in Node : nodes[n] # Gone => nodes[n] \in NodeRecord
BY DEF TypeOK

\* CREATE INDEX: what the catalog, the label id and the indexes are after it.
LEMMA IndexCreated ==
  ASSUME TypeOK, NEW i \in IndexName, NEW name \in Name, CreateIndex(i, name)
  PROVE  /\ catalog' \in Seq(Name) /\ NoneTwice(catalog')
         /\ Len(catalog) <= Len(catalog') /\ \A k \in 1..Len(catalog) : catalog'[k] = catalog[k]
         /\ nodeIndex' \in [IndexName -> IndexRecord \cup {Gone}]
         /\ \E l \in 1..Len(catalog'), found \in IndexName :
              /\ nodeIndex[i] = Gone
              /\ harm' = {} => \A j \in IndexName : nodeIndex[j] # Gone => nodeIndex[j].label # l
              /\ found # i => \E j \in IndexName : nodeIndex[j] # Gone /\ nodeIndex[j].label = l
              /\ \A j \in IndexName \ {i, found} : nodeIndex'[j] = nodeIndex[j]
              /\ nodeIndex'[i] # Gone /\ nodeIndex'[i].label = l
              /\ found = i => \A v \in Value, n \in Node :
                   Lists(nodeIndex'[i].postings[v][n], Listed(l, v, n))
<1> DEFINE names == IF name \in Named THEN catalog ELSE Append(catalog, name)
           l == CHOOSE k \in 1..Len(names) : names[k] = name
           added == AddIndex(i, l)
           valuesOf == [n \in Node |-> IF n \in ScanNodesByLabel(l) THEN nodes[n].values ELSE None(Value)]
           empty == EmptyPostings(Value, Node)
<1>1. /\ names \in Seq(Name) /\ NoneTwice(names)
      /\ Len(catalog) <= Len(names) /\ \A k \in 1..Len(catalog) : names[k] = catalog[k]
      /\ \E k \in 1..Len(names) : names[k] = name
  <2>1. CASE name \in Named
    <3>1. Len(catalog) <= Len(catalog)
      BY DEF TypeOK
    <3> QED BY <2>1, <3>1 DEF TypeOK, Named
  <2>2. CASE name \notin Named
    <3>1. Len(catalog) \in Nat /\ Append(catalog, name)[Len(catalog) + 1] = name
      BY DEF TypeOK
    <3> QED BY <2>2, <3>1, AppendName DEF TypeOK, Named
  <2> QED BY <2>1, <2>2
<1>2. l \in 1..Len(names) /\ names[l] = name
  BY <1>1
<1>3. l \in LabelId
  BY <1>1, <1>2, CatalogFits
<1>4. /\ open /\ nodeIndex[i] = Gone /\ catalog' = names
      /\ harm' = harm \cup IF On(nodeIndex, l) = {} THEN {} ELSE {"two_indexes"}
      /\ \E found \in On(added, l) :
           nodeIndex' = [added EXCEPT ![found].postings = Backfill(added[found].postings, valuesOf)]
  BY DEF CreateIndex
<1> HIDE DEF l, names
<1>5. PICK found \in On(added, l) :
           nodeIndex' = [added EXCEPT ![found].postings = Backfill(added[found].postings, valuesOf)]
  BY <1>4
<1>6. empty \in Postings(Value, Node) /\ \A v \in Value, n \in Node : empty[v][n] = 0
  BY NoneCounts DEF EmptyPostings, Postings
<1> HIDE DEF empty
<1>7. /\ added \in [IndexName -> IndexRecord \cup {Gone}]
      /\ added[i] = [label |-> l, postings |-> empty] /\ added[i] \in IndexRecord
      /\ \A j \in IndexName \ {i} : added[j] = nodeIndex[j]
  BY <1>3, <1>6 DEF AddIndex, IndexRecord, TypeOK, empty
<1> HIDE DEF added
<1>8. found \in IndexName /\ added[found] # Gone /\ added[found].label = l /\ added[found] \in IndexRecord
  BY <1>7 DEF On
<1>17. valuesOf \in [Node -> Counts(Value)]
  BY NoneCounts, LiveNodeTyped DEF ScanNodesByLabel, LiveNode, NodeRecord
<1>9. /\ Backfill(added[found].postings, valuesOf) \in Postings(Value, Node)
      /\ \A v \in Value, n \in Node : Backfill(added[found].postings, valuesOf)[v][n] =
           added[found].postings[v][n] + valuesOf[n][v]
  <2>1. added[found].postings \in Postings(Value, Node)
    BY <1>8 DEF IndexRecord
  <2> HIDE DEF valuesOf
  <2> QED BY <1>17, <2>1, Backfilled
<1>10. \A v \in Value, n \in Node : valuesOf[n][v] \in Nat /\ Lists(valuesOf[n][v], Listed(l, v, n))
  <2> SUFFICES ASSUME NEW v \in Value, NEW n \in Node
               PROVE  valuesOf[n][v] \in Nat /\ Lists(valuesOf[n][v], Listed(l, v, n))
    OBVIOUS
  <2>1. CASE nodes[n] = Gone
    BY <2>1, NoneCounts DEF ScanNodesByLabel, LiveNode, Listed, Lists
  <2>2. CASE nodes[n] # Gone
    <3>1. /\ nodes[n].labels[l] \in Nat /\ nodes[n].values[v] \in Nat
          /\ n \in ScanNodesByLabel(l) <=> nodes[n].labels[l] > 0
      BY <1>3, <2>2, LiveNodeTyped DEF ScanNodesByLabel, LiveNode, LabelsOf, NodeRecord, Counts
    <3>2. Listed(l, v, n) = nodes[n].labels[l] * nodes[n].values[v]
      BY <2>2 DEF Listed
    <3>3. valuesOf[n][v] = IF nodes[n].labels[l] > 0 THEN nodes[n].values[v] ELSE 0
      BY <3>1, NoneCounts
    <3> DEFINE k == nodes[n].labels[l]
               m == nodes[n].values[v]
    <3>4. k * m \in Nat /\ (k = 0 => k * m = 0) /\ (m = 0 => k * m = 0) /\ (k > 0 => m <= k * m)
      <4>1. k \in Nat /\ m \in Nat
        BY <3>1
      <4> HIDE DEF k, m
      <4> QED BY <4>1, Products
    <3>5. valuesOf[n][v] = IF k > 0 THEN m ELSE 0
      BY <3>3
    <3>6. Listed(l, v, n) = k * m /\ k \in Nat /\ m \in Nat
      BY <3>1, <3>2
    <3> HIDE DEF k, m
    <3> QED BY <3>4, <3>5, <3>6 DEF Lists
  <2> QED BY <2>1, <2>2
<1> HIDE DEF valuesOf
<1>11. /\ nodeIndex' \in [IndexName -> IndexRecord \cup {Gone}]
       /\ nodeIndex'[found].label = l /\ nodeIndex'[found] \in IndexRecord
       /\ nodeIndex'[found].postings = Backfill(added[found].postings, valuesOf)
       /\ \A j \in IndexName \ {found} : nodeIndex'[j] = added[j]
  BY <1>5, <1>7, <1>8, <1>9 DEF IndexRecord
<1>12. nodeIndex'[i] # Gone /\ nodeIndex'[i].label = l
  BY <1>7, <1>8, <1>11, MarksAssumption
<1>13. found # i => \E j \in IndexName : nodeIndex[j] # Gone /\ nodeIndex[j].label = l
  BY <1>7, <1>8
<1>14. harm' = {} => \A j \in IndexName : nodeIndex[j] # Gone => nodeIndex[j].label # l
  BY <1>4 DEF On
<1>15. found = i => \A v \in Value, n \in Node :
                     Lists(nodeIndex'[i].postings[v][n], Listed(l, v, n))
  <2> SUFFICES ASSUME found = i, NEW v \in Value, NEW n \in Node
               PROVE  Lists(nodeIndex'[i].postings[v][n], Listed(l, v, n))
    OBVIOUS
  <2>1. added[i].postings[v][n] = 0
    BY <1>6, <1>7
  <2> QED BY <2>1, <1>9, <1>10, <1>11
<1>16. \A j \in IndexName \ {i, found} : nodeIndex'[j] = nodeIndex[j]
  BY <1>7, <1>11
<1>18. \E lab \in 1..Len(catalog'), found2 \in IndexName :
              /\ nodeIndex[i] = Gone
              /\ harm' = {} => \A j \in IndexName : nodeIndex[j] # Gone => nodeIndex[j].label # lab
              /\ found2 # i => \E j \in IndexName : nodeIndex[j] # Gone /\ nodeIndex[j].label = lab
              /\ \A j \in IndexName \ {i, found2} : nodeIndex'[j] = nodeIndex[j]
              /\ nodeIndex'[i] # Gone /\ nodeIndex'[i].label = lab
              /\ found2 = i => \A v \in Value, n \in Node :
                   Lists(nodeIndex'[i].postings[v][n], Listed(lab, v, n))
  <2> l \in 1..Len(catalog') /\ found \in IndexName
    BY <1>2, <1>4, <1>8
  <2> WITNESS l \in 1..Len(catalog'), found \in IndexName
  <2> QED BY <1>4, <1>12, <1>13, <1>14, <1>15, <1>16
<1> QED BY <1>1, <1>4, <1>11, <1>18

-----------------------------------------------------------------------------
(* Types.                                                                  *)

LEMMA InitTyped == Init => TypeOK
<1> SUFFICES ASSUME Init  PROVE TypeOK
  OBVIOUS
<1>1. <<>> \in Seq(Name) /\ NoneTwice(<<>>)
  BY DEF NoneTwice
<1>2. [node |-> 1, edge |-> 1] \in Header /\ 1 \in 1..(MaxEdge + 1)
  BY BoundsAssumption DEF Header
<1> QED BY <1>1, <1>2 DEF Init, TypeOK, NoNodes, NoEdges, NoIndexes, Harms

\* What of the types the graph, the catalog, the indexes and the disk have each.
GraphTyped == /\ nodes \in [Node -> NodeRecord \cup {Gone}]
              /\ edges \in [Edge -> EdgeRecord \cup {Gone}]
              /\ nextEdge \in 1..(MaxEdge + 1) /\ header \in Header
IndexesTyped == /\ nodeIndex \in [IndexName -> IndexRecord \cup {Gone}]
                /\ edgeIndex \in Postings(EdgeValue, Edge) \cup {Gone}
DiskTyped == /\ disk \in [nodes : [Node -> NodeRecord \cup {Gone}], edges : [Edge -> EdgeRecord \cup {Gone}],
                          header : Header, catalog : Seq(Name)]
             /\ NoneTwice(disk.catalog)
RestTyped == /\ catalog \in Seq(Name) /\ NoneTwice(catalog)
             /\ created \in [Node -> SUBSET Name]
             /\ open \in BOOLEAN /\ killed \in BOOLEAN /\ harm \subseteq Harms
LEMMA TypeParts == /\ TypeOK <=> GraphTyped /\ IndexesTyped /\ DiskTyped /\ RestTyped
                   /\ TypeOK' <=> GraphTyped' /\ IndexesTyped' /\ DiskTyped' /\ RestTyped'
BY DEF TypeOK, GraphTyped, IndexesTyped, DiskTyped, RestTyped

\* A page of the disk is written.
LEMMA DiskWritten ==
  ASSUME DiskTyped, NEW n \in Node, NEW r \in NodeRecord \cup {Gone}, NEW e \in Edge, NEW q \in EdgeRecord \cup {Gone}
  PROVE  /\ disk' = [disk EXCEPT !.nodes[n] = r] => DiskTyped'
         /\ disk' = [disk EXCEPT !.edges[e] = q] => DiskTyped'
BY DEF DiskTyped

\* The ids a counter gives out are ids, and the counter after them is in its range.
LEMMA NextNode ==
  ASSUME header \in Header, header.node <= MaxNode
  PROVE  /\ header.node \in Node
         /\ [header EXCEPT !.node = header.node + 1] \in Header
         /\ [header EXCEPT !.node = header.node + 1].node = header.node + 1
         /\ [header EXCEPT !.node = header.node + 1].edge = header.edge
BY BoundsAssumption DEF Header, Node
LEMMA NextEdge ==
  ASSUME header \in Header, nextEdge \in 1..(MaxEdge + 1), nextEdge <= MaxEdge
  PROVE  /\ nextEdge \in Edge /\ nextEdge + 1 \in 1..(MaxEdge + 1)
         /\ [header EXCEPT !.edge = nextEdge + 1] \in Header
         /\ [header EXCEPT !.edge = nextEdge + 1].edge = nextEdge + 1
         /\ [header EXCEPT !.edge = nextEdge + 1].node = header.node
BY BoundsAssumption DEF Header, Edge

\* What Next chooses from.
LEMMA Inputs ==
  ASSUME TypeOK
  PROVE  /\ LabelPattern[header.node] \subseteq Counts(Name) /\ ValuePattern[header.node] \subseteq Counts(Value)
         /\ \A n \in Node : ValuePattern[n] \subseteq Counts(Value)
         /\ EdgePattern[nextEdge] \subseteq Counts(EdgeValue) /\ 1..MaxSource \subseteq Node
         /\ \A e \in Edge : EdgePattern[e] \subseteq Counts(EdgeValue)
<1>1. \A S, id : Patterns(S, id) \subseteq Counts(S)
  BY BoundsAssumption DEF Patterns, Counts
<1>2. header.node \in 1..(MaxNode + 1) /\ Node \subseteq 1..(MaxNode + 1)
  BY BoundsAssumption DEF TypeOK, Header, Node
<1>3. nextEdge \in 1..(MaxEdge + 1) /\ Edge \subseteq 1..(MaxEdge + 1)
  BY BoundsAssumption DEF TypeOK, Edge
<1>4. 1..MaxSource \subseteq Node
  BY BoundsAssumption DEF Node
<1> QED BY <1>1, <1>2, <1>3, <1>4 DEF LabelPattern, ValuePattern, EdgePattern

LEMMA TypeStep == TypeOK /\ [Next]_vars => TypeOK'
<1> SUFFICES ASSUME TypeOK, [Next]_vars  PROVE TypeOK'
  OBVIOUS
<1> USE TypeParts
<1>1. ASSUME NEW i \in IndexName, DropIndex(i)  PROVE TypeOK'
  BY <1>1 DEF DropIndex, RemoveIndex, graph, GraphTyped, IndexesTyped, DiskTyped, RestTyped
<1>2. ASSUME NEW i \in IndexName, NEW name \in Name, CreateIndex(i, name)  PROVE TypeOK'
  <2>1. IndexesTyped'
    BY <1>2, IndexCreated DEF IndexesTyped, CreateIndex
  <2>2. RestTyped'
    BY <1>2, IndexCreated DEF RestTyped, CreateIndex, Harms
  <2> QED BY <1>2, <2>1, <2>2 DEF GraphTyped, DiskTyped, CreateIndex, graph
<1>3. CASE CreateEdgeIndex
  <2> DEFINE valuesOf == [e \in Edge |-> IF e \in ScanEdgesByType THEN edges[e].values ELSE None(EdgeValue)]
  <2>1. EmptyPostings(EdgeValue, Edge) \in Postings(EdgeValue, Edge)
    BY NoneCounts DEF EmptyPostings, Postings
  <2>2. valuesOf \in [Edge -> Counts(EdgeValue)]
    BY NoneCounts DEF ScanEdgesByType, GraphTyped, EdgeRecord
  <2>3. edgeIndex' = Backfill(EmptyPostings(EdgeValue, Edge), valuesOf)
    BY <1>3 DEF CreateEdgeIndex
  <2>4. edgeIndex' \in Postings(EdgeValue, Edge)
    <3> HIDE DEF valuesOf
    <3> QED BY <2>1, <2>2, <2>3, Backfilled
  <2> QED BY <1>3, <2>4 DEF CreateEdgeIndex, graph, GraphTyped, IndexesTyped, DiskTyped, RestTyped
<1>4. CASE DropEdgeIndex
  BY <1>4 DEF DropEdgeIndex, graph, GraphTyped, IndexesTyped, DiskTyped, RestTyped
<1>5. ASSUME NEW name \in Name, GetOrCreateLabel(name)  PROVE TypeOK'
  <2>1. RestTyped'
    BY <1>5, AppendName DEF GetOrCreateLabel, RestTyped, Named
  <2> QED BY <1>5, <2>1 DEF GetOrCreateLabel, graph, indexes, GraphTyped, IndexesTyped, DiskTyped
<1>6. ASSUME NEW names \in Counts(Name), NEW v \in Counts(Value), CreateNode(names, v)  PROVE TypeOK'
  <2> DEFINE labels == [l \in LabelId |-> IF l \in 1..Len(catalog) THEN names[catalog[l]] ELSE 0]
             r == [labels |-> labels, values |-> v]
  <2>1. header.node \in Node /\ header' \in Header
    BY <1>6, NextNode DEF CreateNode, GraphTyped
  <2>2. labels \in Counts(LabelId) /\ r \in NodeRecord
    BY DEF RestTyped, NodeRecord, Counts
  <2>3. GraphTyped'
    BY <1>6, <2>1, <2>2 DEF CreateNode, GraphTyped
  <2>4. IndexesTyped'
    <3>1. PICK find \in Finders : nodeIndex' = Reindex(find, labels, header.node, None(Value), v)
      BY <1>6 DEF CreateNode
    <3>2. edgeIndex' = edgeIndex
      BY <1>6 DEF CreateNode
    <3> QED BY <2>1, <2>2, <3>1, <3>2, NoneCounts, Reindexed DEF IndexesTyped
  <2>5. disk' = [disk EXCEPT !.nodes[header.node] = r]
    BY <1>6, <2>1 DEF CreateNode, GraphTyped
  <2>6. DiskTyped'
    BY <2>1, <2>2, <2>5 DEF DiskTyped
  <2>7. RestTyped'
    BY <1>6, <2>1 DEF CreateNode, RestTyped
  <2> QED BY <2>3, <2>4, <2>6, <2>7
<1>7. ASSUME NEW n \in Node, DeleteNode(n)  PROVE TypeOK'
  <2>1. nodes[n] \in NodeRecord
    BY <1>7 DEF DeleteNode, GraphTyped
  <2>2. GraphTyped'
    BY <1>7 DEF DeleteNode, GraphTyped
  <2>3. IndexesTyped'
    <3>1. PICK find \in Finders : nodeIndex' = Reindex(find, nodes[n].labels, n, nodes[n].values, None(Value))
      BY <1>7 DEF DeleteNode
    <3>2. edgeIndex' = edgeIndex
      BY <1>7 DEF DeleteNode
    <3>3. nodes[n].labels \in Counts(LabelId) /\ nodes[n].values \in Counts(Value)
      BY <2>1 DEF NodeRecord
    <3> QED BY <3>1, <3>2, <3>3, NoneCounts, Reindexed DEF IndexesTyped
  <2>4. DiskTyped'
    BY <1>7 DEF DeleteNode, DiskTyped
  <2>5. RestTyped'
    BY <1>7 DEF DeleteNode, RestTyped
  <2> QED BY <2>2, <2>3, <2>4, <2>5
<1>8. ASSUME NEW n \in Node, NEW v \in Counts(Value), UpdateNode(n, v)  PROVE TypeOK'
  <2>1. nodes[n] \in NodeRecord
    BY <1>8 DEF UpdateNode, GraphTyped
  <2>2. [nodes[n] EXCEPT !.values = v] \in NodeRecord
    BY <2>1 DEF NodeRecord
  <2>3. nodes' = [nodes EXCEPT ![n] = [nodes[n] EXCEPT !.values = v]]
    BY <1>8 DEF UpdateNode
  <2>4. GraphTyped'
    BY <1>8, <2>2, <2>3 DEF UpdateNode, GraphTyped
  <2>5. IndexesTyped'
    <3>1. PICK find \in Finders : nodeIndex' = Reindex(find, nodes[n].labels, n, nodes[n].values, v)
      BY <1>8 DEF UpdateNode
    <3>2. edgeIndex' = edgeIndex
      BY <1>8 DEF UpdateNode
    <3>3. nodes[n].labels \in Counts(LabelId) /\ nodes[n].values \in Counts(Value)
      BY <2>1 DEF NodeRecord
    <3> QED BY <3>1, <3>2, <3>3, Reindexed DEF IndexesTyped
  <2>6. disk' = [disk EXCEPT !.nodes[n] = [nodes[n] EXCEPT !.values = v]]
    BY <1>8, <2>3 DEF UpdateNode, GraphTyped
  <2>7. DiskTyped'
    BY <2>2, <2>6 DEF DiskTyped
  <2>8. RestTyped'
    BY <1>8 DEF UpdateNode, RestTyped
  <2> QED BY <2>4, <2>5, <2>7, <2>8
<1>9. ASSUME NEW from \in Node, NEW to \in Node, NEW v \in Counts(EdgeValue), CreateEdge(from, to, v)
      PROVE  TypeOK'
  <2> DEFINE q == [from |-> from, to |-> to, values |-> v]
  <2>1. q \in EdgeRecord
    BY DEF EdgeRecord
  <2>2. nextEdge \in Edge /\ nextEdge' \in 1..(MaxEdge + 1) /\ header' \in Header
    BY <1>9, NextEdge DEF CreateEdge, GraphTyped
  <2>3. RestTyped'
    BY <1>9 DEF CreateEdge, RestTyped
  <2>4. CASE nodes[from] = Gone \/ nodes[to] = Gone
    BY <1>9, <2>2, <2>3, <2>4 DEF CreateEdge, GraphTyped, IndexesTyped, DiskTyped
  <2>5. CASE ~ (nodes[from] = Gone \/ nodes[to] = Gone)
    <3>1. GraphTyped'
      BY <1>9, <2>1, <2>2, <2>5 DEF CreateEdge, GraphTyped
    <3>2. IndexesTyped'
      BY <1>9, <2>2, <2>5, NoneCounts, EdgeReindexed DEF CreateEdge, IndexesTyped
    <3>3. disk' = [disk EXCEPT !.edges[nextEdge] = q]
      BY <1>9, <2>2, <2>5 DEF CreateEdge, GraphTyped
    <3>4. DiskTyped'
      BY <2>1, <2>2, <3>3 DEF DiskTyped
    <3> QED BY <2>3, <3>1, <3>2, <3>4
  <2> QED BY <2>4, <2>5
<1>10. ASSUME NEW e \in Edge, DeleteEdge(e)  PROVE TypeOK'
  <2>1. edges[e] \in EdgeRecord
    BY <1>10 DEF DeleteEdge, GraphTyped
  <2>2. IndexesTyped'
    BY <1>10, <2>1, NoneCounts, EdgeReindexed DEF DeleteEdge, IndexesTyped, EdgeRecord
  <2> QED BY <1>10, <2>2 DEF DeleteEdge, GraphTyped, DiskTyped, RestTyped
<1>11. ASSUME NEW e \in Edge, NEW v \in Counts(EdgeValue), UpdateEdge(e, v)  PROVE TypeOK'
  <2>1. edges[e] \in EdgeRecord
    BY <1>11 DEF UpdateEdge, GraphTyped
  <2>2. [edges[e] EXCEPT !.values = v] \in EdgeRecord
    BY <2>1 DEF EdgeRecord
  <2>3. edges' = [edges EXCEPT ![e] = [edges[e] EXCEPT !.values = v]]
    BY <1>11 DEF UpdateEdge
  <2>4. GraphTyped'
    BY <1>11, <2>2, <2>3 DEF UpdateEdge, GraphTyped
  <2>5. IndexesTyped'
    BY <1>11, <2>1, EdgeReindexed DEF UpdateEdge, IndexesTyped, EdgeRecord
  <2>6. disk' = [disk EXCEPT !.edges[e] = [edges[e] EXCEPT !.values = v]]
    BY <1>11, <2>3 DEF UpdateEdge, GraphTyped
  <2>7. DiskTyped'
    BY <2>2, <2>6 DEF DiskTyped
  <2>8. RestTyped'
    BY <1>11 DEF UpdateEdge, RestTyped
  <2> QED BY <2>4, <2>5, <2>7, <2>8
<1>12. ASSUME Forgotten, UNCHANGED created, harm' = harm, killed' \in BOOLEAN, DiskTyped'  PROVE TypeOK'
  <2>1. <<>> \in Seq(Name) /\ NoneTwice(<<>>)
    BY DEF NoneTwice
  <2>2. [node |-> 1, edge |-> 1] \in Header /\ 1 \in 1..(MaxEdge + 1)
    BY BoundsAssumption DEF Header
  <2> QED BY <1>12, <2>1, <2>2 DEF Forgotten, GraphTyped, IndexesTyped, RestTyped, NoNodes, NoEdges, NoIndexes
<1>13. CASE Close
  <2>1. disk' = [[disk EXCEPT !.catalog = catalog] EXCEPT !.header = header]
    BY <1>13 DEF Close
  <2>2. DiskTyped'
    BY <2>1 DEF DiskTyped, GraphTyped, RestTyped
  <2> QED BY <1>12, <1>13, <2>2 DEF Close, RestTyped
<1>14. CASE Kill
  <2>1. PICK n \in 1..header.node, e \in 1..header.edge : disk' = [disk EXCEPT !.header = [node |-> n, edge |-> e]]
    BY <1>14 DEF Kill
  <2>2. [node |-> n, edge |-> e] \in Header
    BY BoundsAssumption DEF Header, GraphTyped
  <2>3. DiskTyped'
    BY <2>1, <2>2 DEF DiskTyped
  <2> QED BY <1>12, <1>14, <2>3 DEF Kill, RestTyped
<1>15. CASE Open
  <2>1. disk.header.edge \in 1..(MaxEdge + 1)
    BY DEF DiskTyped, Header
  <2>2. HarmFound \subseteq Harms
    BY DEF HarmFound, Harms
  <2> QED BY <1>15, <2>1, <2>2 DEF Open, indexes, GraphTyped, IndexesTyped, DiskTyped, RestTyped
<1>16. CASE UNCHANGED vars
  BY <1>16 DEF vars, graph, indexes, GraphTyped, IndexesTyped, DiskTyped, RestTyped
<1> QED BY <1>1, <1>2, <1>3, <1>4, <1>5, <1>6, <1>7, <1>8, <1>9, <1>10, <1>11, <1>13, <1>14, <1>15, <1>16, Inputs DEF Next

-----------------------------------------------------------------------------
(* The steps.  A harm once found stays, so that every step is to be looked *)
(* at only where none was found before it or by it.                        *)

Kept == /\ IdsAhead /\ RestartFinds /\ EndpointsLive /\ NamesKept /\ LabelsKeepNames
        /\ NodeIndexRight /\ EdgeIndexRight

LEMMA KeptIsInv == /\ Inv <=> TypeOK /\ Sessions /\ Kept
                   /\ Inv' <=> TypeOK' /\ Sessions' /\ Kept'
BY DEF Inv, Kept

LEMMA HarmStays == [Next]_vars /\ harm' = {} => harm = {}
BY DEF Next, vars, DropIndex, CreateIndex, CreateEdgeIndex, DropEdgeIndex, GetOrCreateLabel, CreateNode, DeleteNode,
       UpdateNode, CreateEdge, DeleteEdge, UpdateEdge, Close, Kill, Open

\* The catalog grows at its end: names of labels stay what they were.
LEMMA CatalogGrows ==
  ASSUME TypeOK, TypeOK', NamesKept, LabelsKeepNames, harm = {}, open,
         UNCHANGED <<nodes, disk, created, open>>,
         Len(catalog) <= Len(catalog'), \A l \in 1..Len(catalog) : catalog'[l] = catalog[l]
  PROVE  NamesKept' /\ LabelsKeepNames'
<1>1. Len(catalog) \in Nat /\ Len(catalog') \in Nat /\ Len(disk.catalog) \in Nat
  BY DEF TypeOK
<1>2. LiveNode' = LiveNode /\ nodes' = nodes /\ disk' = disk /\ created' = created /\ open'
  BY DEF LiveNode
<1>3. \A n \in LiveNode : LabelsOf(nodes[n]) \subseteq 1..Len(catalog)
  BY DEF NamesKept, Knows
<1>4. NamesKept'
  BY <1>1, <1>2, <1>3 DEF NamesKept, Knows, LabelsOf
<1>5. ASSUME NEW n \in LiveNode
      PROVE  {catalog'[l] : l \in LabelsOf(nodes[n]) \cap (1..Len(catalog'))}
           = {catalog[l] : l \in LabelsOf(nodes[n]) \cap (1..Len(catalog))}
  <2>1. LabelsOf(nodes[n]) \cap (1..Len(catalog')) = LabelsOf(nodes[n]) \cap (1..Len(catalog))
    BY <1>1, <1>3
  <2> QED BY <2>1
<1>6. LabelsKeepNames'
  BY <1>2, <1>5 DEF LabelsKeepNames
<1> QED BY <1>4, <1>6

\* One node changes, and the indexes found for its labels with it: they still list what is there.
LEMMA ReindexRight ==
  ASSUME TypeOK, NodeIndexRight, harm = {},
         NEW find \in Finders, NEW n \in Node, NEW labels \in Counts(LabelId),
         NEW old \in Counts(Value), NEW new \in Counts(Value),
         nodes[n] = Gone => old = None(Value),
         nodes[n] # Gone => nodes[n].labels = labels /\ nodes[n].values = old,
         nodes'[n] = Gone => new = None(Value),
         nodes'[n] # Gone => nodes'[n].labels = labels /\ nodes'[n].values = new,
         \A m \in Node \ {n} : nodes'[m] = nodes[m],
         nodeIndex' = Reindex(find, labels, n, old, new)
  PROVE  NodeIndexRight'
<1>1. /\ \A i, j \in IndexName :
           nodeIndex[i] # Gone /\ nodeIndex[j] # Gone /\ nodeIndex[i].label = nodeIndex[j].label => i = j
      /\ \A i \in IndexName : nodeIndex[i] # Gone =>
           \A v \in Value, m \in Node : Lists(nodeIndex[i].postings[v][m], Listed(nodeIndex[i].label, v, m))
  BY DEF NodeIndexRight
<1>2. \A i \in IndexName :
        /\ nodeIndex'[i] = Gone <=> nodeIndex[i] = Gone
        /\ (\A l \in LabelId : labels[l] > 0 => find[l] # i) => nodeIndex'[i] = nodeIndex[i]
        /\ (\E l \in LabelId : labels[l] > 0 /\ find[l] = i) =>
             /\ nodeIndex[i] # Gone /\ labels[nodeIndex[i].label] > 0
             /\ nodeIndex'[i] # Gone /\ nodeIndex'[i].label = nodeIndex[i].label
             /\ nodeIndex'[i].postings = Relist(nodeIndex[i].postings, n, old, new, labels[nodeIndex[i].label])
  <2>1. nodeIndex \in [IndexName -> IndexRecord \cup {Gone}]
    BY DEF TypeOK
  <2>2. ASSUME NEW i \in IndexName, \A l \in LabelId : labels[l] > 0 => find[l] # i
        PROVE  nodeIndex'[i] = nodeIndex[i]
    BY <2>1, <2>2, NotReindexed
  <2>3. ASSUME NEW i \in IndexName, \E l \in LabelId : labels[l] > 0 /\ find[l] = i
        PROVE  /\ nodeIndex[i] # Gone /\ labels[nodeIndex[i].label] > 0
               /\ nodeIndex'[i] # Gone /\ nodeIndex'[i].label = nodeIndex[i].label
               /\ nodeIndex'[i].postings = Relist(nodeIndex[i].postings, n, old, new, labels[nodeIndex[i].label])
    <3> DEFINE R == Reindex(find, labels, n, old, new)
    <3>1. /\ nodeIndex[i] # Gone /\ labels[nodeIndex[i].label] > 0 /\ R[i] \in IndexRecord
          /\ R[i].label = nodeIndex[i].label
          /\ R[i].postings = Relist(nodeIndex[i].postings, n, old, new, labels[nodeIndex[i].label])
      BY ONLY <2>1, <2>3, ReindexedAt, find \in Finders, n \in Node, labels \in Counts(LabelId), i \in IndexName,
              old \in Counts(Value), new \in Counts(Value)
    <3> HIDE DEF R
    <3>2. nodeIndex' = R
      BY DEF R
    <3> QED BY <3>1, <3>2, MarksAssumption
  <2> QED BY <2>2, <2>3
<1>3. \A i \in IndexName : nodeIndex'[i] # Gone => nodeIndex[i] # Gone /\ nodeIndex'[i].label = nodeIndex[i].label
  BY <1>2
<1>4. \A i, j \in IndexName :
        nodeIndex'[i] # Gone /\ nodeIndex'[j] # Gone /\ nodeIndex'[i].label = nodeIndex'[j].label => i = j
  BY <1>1, <1>3
<1>5. ASSUME NEW i \in IndexName, nodeIndex'[i] # Gone, NEW v \in Value, NEW m \in Node
      PROVE  Lists(nodeIndex'[i].postings[v][m], Listed(nodeIndex[i].label, v, m)')
  <2> DEFINE label == nodeIndex[i].label
             k == labels[label]
             before == nodeIndex[i].postings[v][m]
  <2>1. nodeIndex[i] # Gone /\ nodeIndex'[i].label = label /\ nodeIndex[i] \in IndexRecord
    BY <1>3, <1>5 DEF TypeOK
  <2>2. label \in LabelId /\ nodeIndex[i].postings \in Postings(Value, Node) /\ before \in Nat
    BY <2>1 DEF IndexRecord, Postings, Counts
  <2>3. Lists(before, Listed(label, v, m))
    BY <1>1, <2>1
  <2>4. Listed(nodeIndex[i].label, v, m)' =
          IF nodes'[m] = Gone THEN 0 ELSE nodes'[m].labels[label] * nodes'[m].values[v]
    BY <2>1 DEF Listed
  <2>5. k \in Nat /\ old[v] \in Nat /\ new[v] \in Nat /\ None(Value)[v] = 0
    BY <2>2, NoneCounts DEF Counts
  <2>6. ASSUME m = n
        PROVE  Listed(label, v, m) = k * old[v] /\ Listed(nodeIndex[i].label, v, m)' = k * new[v]
    <3>1. k * 0 = 0
      BY <2>5
    <3>2. Listed(label, v, m) = k * old[v]
      BY <2>5, <2>6, <3>1 DEF Listed
    <3> QED BY <2>4, <2>5, <2>6, <3>1, <3>2
  <2>7. ASSUME m # n  PROVE Listed(nodeIndex[i].label, v, m)' = Listed(label, v, m)
    BY <2>4, <2>7 DEF Listed
  <2>8. CASE \E l \in LabelId : labels[l] > 0 /\ find[l] = i
    <3>1. k > 0 /\ nodeIndex'[i].postings = Relist(nodeIndex[i].postings, n, old, new, k)
      BY <1>2, <2>8
    <3>2. nodeIndex'[i].postings[v][m] = IF m # n THEN before
                                         ELSE IF old[v] > 0 THEN new[v] ELSE before + k * new[v]
      <4> DEFINE p == nodeIndex[i].postings
      <4>1. \A times \in Nat :
              Relist(p, n, old, new, times)[v][m] = IF m # n THEN p[v][m]
                                                    ELSE IF old[v] > 0 THEN new[v] ELSE p[v][n] + times * new[v]
        <5>1. p \in Postings(Value, Node)
          BY <2>2
        <5> HIDE DEF p
        <5> QED BY <5>1, Relisted
      <4>2. Relist(p, n, old, new, k)[v][m] = IF m # n THEN p[v][m]
                                              ELSE IF old[v] > 0 THEN new[v] ELSE p[v][n] + k * new[v]
        <5> HIDE DEF p, k
        <5> QED BY <2>5, <4>1
      <4> QED BY <3>1, <4>2
    <3>3. CASE m # n
      BY <2>3, <2>7, <3>2, <3>3
    <3>4. CASE m = n
      <4> HIDE DEF k, before, label
      <4>1. /\ k * new[v] \in Nat /\ (new[v] = 0 => k * new[v] = 0) /\ new[v] <= k * new[v]
            /\ k * old[v] \in Nat /\ (old[v] = 0 => k * old[v] = 0)
        BY <2>5, <3>1, Products
      <4>2. CASE old[v] > 0
        BY <2>5, <2>6, <3>2, <3>4, <4>1, <4>2 DEF Lists
      <4>3. CASE old[v] = 0
        <5>1. before = 0
          BY <2>2, <2>3, <2>6, <3>4, <4>1, <4>3 DEF Lists
        <5> QED BY <2>5, <2>6, <3>2, <3>4, <4>1, <4>3, <5>1 DEF Lists
      <4> QED BY <2>5, <4>2, <4>3
    <3> QED BY <3>3, <3>4
  <2>9. CASE \A l \in LabelId : labels[l] > 0 => find[l] # i
    <3>1. nodeIndex'[i] = nodeIndex[i]
      BY <1>2, <2>9
    <3>2. k = 0
      <4> SUFFICES ASSUME k > 0 PROVE FALSE
        BY <2>5
      <4>1. PICK j \in IndexName : find[label] = j /\ nodeIndex[j] # Gone /\ nodeIndex[j].label = label
        BY <2>1, <2>2, FoundIsOn
      <4> QED BY <1>1, <2>1, <2>2, <2>9, <4>1
    <3>3. 0 * old[v] = 0 /\ 0 * new[v] = 0
      BY <2>5
    <3>4. Listed(nodeIndex[i].label, v, m)' = Listed(label, v, m)
      BY <2>6, <2>7, <3>2, <3>3
    <3> QED BY <2>3, <3>1, <3>4
  <2> QED BY <2>8, <2>9
<1> QED BY <1>3, <1>4, <1>5 DEF NodeIndexRight

\* The same of an edge and the edge index.
LEMMA ReindexEdgeRight ==
  ASSUME TypeOK, EdgeIndexRight, harm = {}, NEW id \in Edge,
         NEW old \in Counts(EdgeValue), NEW new \in Counts(EdgeValue),
         edges[id] = Gone => id >= nextEdge /\ old = None(EdgeValue),
         edges[id] # Gone => edges[id].values = old,
         edges'[id] # Gone => edges'[id].values = new /\ id < nextEdge',
         edges'[id] = Gone => new = None(EdgeValue),
         nextEdge' \in Int, nextEdge <= nextEdge',
         \A e \in Edge \ {id} : edges'[e] = edges[e],
         edgeIndex' = ReindexEdge(id, old, new)
  PROVE  EdgeIndexRight'
<1> SUFFICES ASSUME edgeIndex' # Gone, NEW v \in EdgeValue, NEW e \in Edge
             PROVE  /\ edges'[e] # Gone => edgeIndex'[v][e] = edges'[e].values[v]
                    /\ edgeIndex'[v][e] # 0 => e < nextEdge'
  BY DEF EdgeIndexRight
<1>1. edgeIndex # Gone /\ edgeIndex \in Postings(EdgeValue, Edge) /\ edgeIndex' = Relist(edgeIndex, id, old, new, 1)
  BY EdgeReindexed DEF TypeOK
<1>2. edgeIndex'[v][e] = IF e # id THEN edgeIndex[v][e]
                         ELSE IF old[v] > 0 THEN new[v] ELSE edgeIndex[v][e] + 1 * new[v]
  BY <1>1, Relisted
<1>3. /\ edges[e] # Gone => edgeIndex[v][e] = edges[e].values[v]
      /\ edgeIndex[v][e] # 0 => e < nextEdge
  BY <1>1 DEF EdgeIndexRight
<1>4. nextEdge \in Int /\ e \in Int /\ edgeIndex[v][e] \in Nat /\ old[v] \in Nat /\ new[v] \in Nat /\ None(EdgeValue)[v] = 0
  <2>1. nextEdge \in Int /\ e \in Int
    BY BoundsAssumption DEF TypeOK, Edge
  <2>2. edgeIndex[v][e] \in Nat /\ old[v] \in Nat /\ new[v] \in Nat
    BY <1>1 DEF Postings, Counts
  <2> QED BY <2>1, <2>2, NoneCounts
<1>5. CASE e # id
  BY <1>2, <1>3, <1>4, <1>5
<1>6. CASE e = id /\ edges[id] = Gone
  BY <1>2, <1>3, <1>4, <1>6
<1>7. CASE e = id /\ edges[id] # Gone
  BY <1>2, <1>3, <1>4, <1>7
<1> QED BY <1>5, <1>6, <1>7

\* Indexes and the catalog: the graph and the disk stay.
LEMMA DropIndexStep ==
  ASSUME Inv, TypeOK', harm = {}, NEW i \in IndexName, DropIndex(i)
  PROVE  Kept'
<1> USE DEF DropIndex, graph
<1>1. IdsAhead' /\ RestartFinds' /\ EndpointsLive' /\ LabelsKeepNames' /\ EdgeIndexRight'
  BY DEF Inv, IdsAhead, Counters, RestartFinds, EndpointsLive, LabelsKeepNames, EdgeIndexRight, LiveEdge, LiveNode
<1>2. NamesKept'
  BY DEF Inv, NamesKept, LiveNode, Knows, NamesOf
<1>3. NodeIndexRight'
  <2>1. nodeIndex'[i] = Gone /\ \A j \in IndexName \ {i} : nodeIndex'[j] = nodeIndex[j]
    BY DEF Inv, TypeOK, RemoveIndex
  <2>2. \A j \in IndexName : nodeIndex'[j] # Gone => nodeIndex'[j] = nodeIndex[j]
    BY <2>1
  <2> QED BY <2>2 DEF Inv, NodeIndexRight, Listed
<1> QED BY <1>1, <1>2, <1>3 DEF Kept

LEMMA CreateIndexStep ==
  ASSUME Inv, TypeOK', harm = {}, harm' = {}, NEW i \in IndexName, NEW name \in Name, CreateIndex(i, name)
  PROVE  Kept'
<1>1. open /\ UNCHANGED <<nodes, edges, nextEdge, header, edgeIndex, disk, open, created, killed>>
  BY DEF CreateIndex, graph
<1>2. IdsAhead' /\ RestartFinds' /\ EndpointsLive' /\ EdgeIndexRight'
  BY <1>1 DEF Inv, IdsAhead, Counters, RestartFinds, EndpointsLive, EdgeIndexRight, LiveEdge
<1>3. Len(catalog) <= Len(catalog') /\ \A k \in 1..Len(catalog) : catalog'[k] = catalog[k]
  BY IndexCreated DEF Inv
<1>4. NamesKept' /\ LabelsKeepNames'
  BY <1>1, <1>3, CatalogGrows DEF Inv
<1>5. PICK l \in 1..Len(catalog'), found \in IndexName :
        /\ nodeIndex[i] = Gone
        /\ harm' = {} => \A j \in IndexName : nodeIndex[j] # Gone => nodeIndex[j].label # l
        /\ found # i => \E j \in IndexName : nodeIndex[j] # Gone /\ nodeIndex[j].label = l
        /\ \A j \in IndexName \ {i, found} : nodeIndex'[j] = nodeIndex[j]
        /\ nodeIndex'[i] # Gone /\ nodeIndex'[i].label = l
        /\ found = i => \A v \in Value, n \in Node :
             Lists(nodeIndex'[i].postings[v][n], Listed(l, v, n))
  BY IndexCreated DEF Inv
<1>6. found = i
  BY <1>5
<1>7. /\ \A j \in IndexName \ {i} : nodeIndex'[j] = nodeIndex[j]
      /\ \A j \in IndexName : nodeIndex[j] # Gone => nodeIndex[j].label # l
      /\ \A v \in Value, n \in Node : Lists(nodeIndex'[i].postings[v][n], Listed(l, v, n))
  BY <1>5, <1>6
<1>8. NodeIndexRight'
  <2>1. \A j, k \in IndexName :
          nodeIndex'[j] # Gone /\ nodeIndex'[k] # Gone /\ nodeIndex'[j].label = nodeIndex'[k].label => j = k
    BY <1>5, <1>7 DEF Inv, NodeIndexRight
  <2>2. ASSUME NEW j \in IndexName, nodeIndex'[j] # Gone, NEW v \in Value, NEW n \in Node
        PROVE  Lists(nodeIndex'[j].postings[v][n], Listed(nodeIndex[j].label, v, n)')
    <3>1. CASE j = i
      <4>1. Listed(nodeIndex[j].label, v, n)' = Listed(l, v, n)
        BY <1>1, <1>5, <3>1 DEF Listed
      <4> QED BY <1>7, <3>1, <4>1
    <3>2. CASE j # i
      BY <1>1, <1>7, <2>2, <3>2 DEF Inv, NodeIndexRight, Listed
    <3> QED BY <3>1, <3>2
  <2> QED BY <2>1, <2>2 DEF NodeIndexRight
<1> QED BY <1>2, <1>4, <1>8 DEF Kept

LEMMA EdgeIndexStep ==
  ASSUME Inv, TypeOK', harm = {}, CreateEdgeIndex \/ DropEdgeIndex
  PROVE  Kept'
<1>1. open /\ UNCHANGED <<nodes, edges, nextEdge, header, catalog, nodeIndex, disk, open, created, killed>>
  BY DEF CreateEdgeIndex, DropEdgeIndex, graph
<1>2. IdsAhead' /\ RestartFinds' /\ EndpointsLive' /\ LabelsKeepNames'
  BY <1>1 DEF Inv, IdsAhead, Counters, RestartFinds, EndpointsLive, LabelsKeepNames, LiveEdge, LiveNode
<1>3. NamesKept' /\ NodeIndexRight'
  BY <1>1 DEF Inv, NamesKept, LiveNode, Knows, NamesOf, NodeIndexRight, Listed
<1>4. CASE DropEdgeIndex
  BY <1>2, <1>3, <1>4 DEF Kept, DropEdgeIndex, EdgeIndexRight
<1>5. CASE CreateEdgeIndex
  <2> DEFINE valuesOf == [e \in Edge |-> IF e \in ScanEdgesByType THEN edges[e].values ELSE None(EdgeValue)]
             empty == EmptyPostings(EdgeValue, Edge)
  <2>1. empty \in Postings(EdgeValue, Edge) /\ \A v \in EdgeValue, e \in Edge : empty[v][e] = 0
    BY NoneCounts DEF EmptyPostings, Postings
  <2>2. edgeIndex' = Backfill(empty, valuesOf)
    BY <1>5 DEF CreateEdgeIndex
  <2>3. valuesOf \in [Edge -> Counts(EdgeValue)]
    BY NoneCounts DEF ScanEdgesByType, Inv, TypeOK, EdgeRecord
  <2>4. \A v \in EdgeValue, e \in Edge : edgeIndex'[v][e] = IF edges[e] # Gone THEN edges[e].values[v] ELSE 0
    <3>1. \A v \in EdgeValue, e \in Edge : valuesOf[e][v] = IF edges[e] # Gone THEN edges[e].values[v] ELSE 0
      BY NoneCounts DEF ScanEdgesByType
    <3>2. \A v \in EdgeValue, e \in Edge : valuesOf[e][v] \in Nat
      BY <2>3 DEF Counts
    <3> HIDE DEF empty, valuesOf
    <3>3. \A v \in EdgeValue, e \in Edge : edgeIndex'[v][e] = empty[v][e] + valuesOf[e][v]
      BY ONLY <2>1, <2>2, <2>3, Backfilled
    <3> QED BY <2>1, <3>1, <3>2, <3>3
  <2>5. \A e \in Edge : edges[e] # Gone => e < nextEdge
    <3>1. ASSUME NEW e \in Edge, edges[e] # Gone  PROVE e < nextEdge
      <4>1. disk.edges[e] # Gone
        BY <1>1, <3>1 DEF Inv, RestartFinds
      <4>2. e < header.edge /\ header.edge <= nextEdge
        BY <1>1, <4>1 DEF Inv, Sessions, IdsAhead, Counters
      <4>3. e \in Int /\ header.edge \in Int /\ nextEdge \in Int
        BY BoundsAssumption DEF Inv, TypeOK, Edge, Header
      <4> QED BY <4>2, <4>3
    <3> QED BY <3>1
  <2>6. EdgeIndexRight'
    BY <1>1, <2>4, <2>5 DEF EdgeIndexRight
  <2> QED BY <1>2, <1>3, <2>6 DEF Kept
<1> QED BY <1>4, <1>5

LEMMA GetOrCreateLabelStep ==
  ASSUME Inv, TypeOK', harm = {}, NEW name \in Name, GetOrCreateLabel(name)
  PROVE  Kept'
<1>1. open /\ UNCHANGED <<nodes, edges, nextEdge, header, nodeIndex, edgeIndex, disk, open, created, killed>>
  BY DEF GetOrCreateLabel, graph, indexes
<1>2. IdsAhead' /\ RestartFinds' /\ EndpointsLive' /\ EdgeIndexRight'
  BY <1>1 DEF Inv, IdsAhead, Counters, RestartFinds, EndpointsLive, EdgeIndexRight, LiveEdge
<1>3. NodeIndexRight'
  BY <1>1 DEF Inv, NodeIndexRight, Listed
<1>4. Len(catalog) <= Len(catalog') /\ \A k \in 1..Len(catalog) : catalog'[k] = catalog[k]
  BY AppendName DEF GetOrCreateLabel, Named, Inv, TypeOK
<1>5. NamesKept' /\ LabelsKeepNames'
  BY <1>1, <1>4, CatalogGrows DEF Inv
<1> QED BY <1>2, <1>3, <1>5 DEF Kept

\* Nodes.  The id of a new node is above those of all nodes there are, and no edge leads to it.
LEMMA CreateNodeStep ==
  ASSUME Inv, TypeOK', harm = {}, NEW names \in Counts(Name), NEW v \in Counts(Value), CreateNode(names, v)
  PROVE  Kept'
<1> DEFINE id == header.node
           labels == [l \in LabelId |-> IF l \in 1..Len(catalog) THEN names[catalog[l]] ELSE 0]
           used == {name \in Name : names[name] > 0}
           r == [labels |-> labels, values |-> v]
<1>1. /\ open /\ used \subseteq Named /\ ~ killed
      /\ UNCHANGED <<edges, nextEdge, catalog, edgeIndex, open, killed, harm>>
  BY DEF CreateNode, Inv, Sessions
<1>2. id \in Node /\ header'.node = id + 1 /\ header'.edge = header.edge
  BY NextNode DEF CreateNode, Inv, TypeOK
<1>3. /\ nodes' = [nodes EXCEPT ![id] = r] /\ nodes'[id] = r
      /\ \A m \in Node \ {id} : nodes'[m] = nodes[m]
  BY <1>2 DEF CreateNode, Inv, TypeOK
<1>4. labels \in Counts(LabelId) /\ r \in NodeRecord /\ r # Gone
  <2>1. labels \in Counts(LabelId)
    BY DEF Inv, TypeOK, Counts
  <2>2. r \in NodeRecord
    BY <2>1 DEF NodeRecord
  <2> QED BY <2>1, <2>2, MarksAssumption
<1>5. disk' = [disk EXCEPT !.nodes[id] = r]
  BY <1>3 DEF CreateNode
<1>6. disk'.nodes = nodes' /\ disk'.edges = disk.edges /\ disk'.catalog = disk.catalog
  <2>1. disk.nodes = nodes
    BY <1>1 DEF Inv, RestartFinds
  <2> QED BY <1>3, <1>5, <2>1 DEF Inv, TypeOK
<1>7. /\ \A n \in Node : nodes[n] # Gone => n < id
      /\ \A e \in Edge : disk.edges[e] # Gone => e < header.edge /\ disk.edges[e].from < id /\ disk.edges[e].to < id
      /\ header.edge <= nextEdge
  BY <1>1 DEF Inv, IdsAhead, Counters, RestartFinds
<1>8. id \in Nat /\ nodes[id] = Gone
  BY <1>2, <1>7 DEF Node
<1>9. IdsAhead'
  <2>1. ASSUME NEW n \in Node, nodes'[n] # Gone  PROVE n < id + 1
    BY <1>3, <1>7, <1>8, <2>1 DEF Node
  <2>2. ASSUME NEW e \in Edge, disk.edges[e] # Gone
        PROVE  disk.edges[e].from < id + 1 /\ disk.edges[e].to < id + 1
    <3>1. disk.edges[e] \in EdgeRecord
      BY <2>2 DEF Inv, TypeOK
    <3> QED BY <1>7, <1>8, <2>2, <3>1 DEF EdgeRecord, Node
  <2> QED BY <1>1, <1>2, <1>6, <1>7, <2>1, <2>2 DEF IdsAhead, Counters
<1>10. RestartFinds'
  <2>1. ASSUME NEW e \in Edge, edges[e] # disk.edges[e]
        PROVE  edges[e] = Gone /\ Gone \in {nodes'[disk.edges[e].from], nodes'[disk.edges[e].to]}
    <3>1. edges[e] = Gone /\ Gone \in {nodes[disk.edges[e].from], nodes[disk.edges[e].to]}
      BY <1>1, <2>1 DEF Inv, RestartFinds
    <3>2. disk.edges[e] \in EdgeRecord
      BY <2>1, <3>1 DEF Inv, TypeOK
    <3>3. disk.edges[e].from \in Node \ {id} /\ disk.edges[e].to \in Node \ {id}
      BY <1>7, <1>8, <2>1, <3>1, <3>2 DEF EdgeRecord, Node
    <3> QED BY <1>3, <3>1, <3>3
  <2> QED BY <1>1, <1>6, <2>1 DEF RestartFinds
<1>11. EndpointsLive'
  <2>1. ASSUME NEW e \in Edge, edges[e] # Gone  PROVE Gone \notin {nodes'[edges[e].from], nodes'[edges[e].to]}
    <3>1. edges[e].from \in Node /\ edges[e].to \in Node
      BY <2>1 DEF Inv, TypeOK, EdgeRecord
    <3>2. Gone \notin {nodes[edges[e].from], nodes[edges[e].to]}
      BY <2>1 DEF Inv, EndpointsLive, LiveEdge
    <3> QED BY <1>3, <1>4, <3>1, <3>2
  <2> QED BY <1>1, <2>1 DEF EndpointsLive, LiveEdge
<1>12. NamesKept'
  <2>1. ASSUME NEW n \in Node, nodes'[n] # Gone  PROVE Knows(catalog, nodes'[n])
    <3>1. CASE n = id
      BY <1>3, <3>1 DEF Knows, LabelsOf
    <3>2. CASE n # id
      BY <1>1, <1>3, <2>1, <3>2 DEF Inv, NamesKept, LiveNode
    <3> QED BY <3>1, <3>2
  <2> QED BY <1>1, <1>6, <2>1 DEF Inv, NamesKept, LiveNode, Knows
<1>13. LabelsKeepNames'
  <2>1. created' = [created EXCEPT ![id] = used]
    BY DEF CreateNode
  <2>2. created'[id] = used /\ \A m \in Node \ {id} : created'[m] = created[m]
    BY <1>2, <2>1 DEF Inv, TypeOK
  <2>3. used = {catalog[l] : l \in LabelsOf(r) \cap (1..Len(catalog))}
    <3>1. catalog \in Seq(Name) /\ 1..Len(catalog) \subseteq LabelId
      BY CatalogFits DEF Inv, TypeOK
    <3>2. \A l \in 1..Len(catalog) : catalog[l] \in Name /\ (l \in LabelsOf(r) <=> catalog[l] \in used)
      BY <3>1 DEF LabelsOf
    <3>3. \A name \in used : \E l \in 1..Len(catalog) : catalog[l] = name
      BY <1>1 DEF Named
    <3> QED BY <3>2, <3>3
  <2>4. ASSUME NEW n \in Node, nodes'[n] # Gone
        PROVE  created'[n] = {catalog[l] : l \in LabelsOf(nodes'[n]) \cap (1..Len(catalog))}
    <3>1. CASE n = id
      BY <1>3, <2>2, <2>3, <3>1
    <3>2. CASE n # id
      BY <1>3, <2>2, <2>4, <3>2 DEF Inv, LabelsKeepNames, LiveNode
    <3> QED BY <3>1, <3>2
  <2> QED BY <1>1, <2>4 DEF LabelsKeepNames, LiveNode
<1>14. NodeIndexRight'
  <2>1. PICK find \in Finders : nodeIndex' = Reindex(find, labels, id, None(Value), v)
    BY DEF CreateNode
  <2>2. nodes'[id] # Gone => nodes'[id].labels = labels /\ nodes'[id].values = v
    BY <1>3
  <2> HIDE DEF labels, r, id
  <2> QED BY <1>2, <1>3, <1>4, <1>8, <2>1, <2>2, NoneCounts, ReindexRight DEF Inv
<1>15. EdgeIndexRight'
  BY <1>1 DEF Inv, EdgeIndexRight
<1> QED BY <1>9, <1>10, <1>11, <1>12, <1>13, <1>14, <1>15 DEF Kept

LEMMA UpdateNodeStep ==
  ASSUME Inv, TypeOK', harm = {}, NEW n \in Node, NEW v \in Counts(Value), UpdateNode(n, v)
  PROVE  Kept'
<1> DEFINE r == [nodes[n] EXCEPT !.values = v]
<1>1. /\ open /\ nodes[n] # Gone
      /\ UNCHANGED <<edges, nextEdge, header, catalog, edgeIndex, open, created, killed, harm>>
  BY DEF UpdateNode
<1>2. nodes[n] \in NodeRecord
  BY <1>1 DEF Inv, TypeOK
<1>3. r \in NodeRecord /\ r # Gone /\ r.labels = nodes[n].labels /\ r.values = v
  <2>1. r \in NodeRecord /\ r.labels = nodes[n].labels /\ r.values = v
    BY <1>2 DEF NodeRecord
  <2> QED BY <2>1, MarksAssumption
<1>4. nodes' = [nodes EXCEPT ![n] = r] /\ nodes'[n] = r /\ \A m \in Node \ {n} : nodes'[m] = nodes[m]
  BY DEF UpdateNode, Inv, TypeOK
<1>5. disk'.nodes = nodes' /\ disk'.edges = disk.edges /\ disk'.catalog = disk.catalog /\ disk.nodes = nodes
  <2>1. disk.nodes = nodes
    BY <1>1 DEF Inv, RestartFinds
  <2>2. disk' = [disk EXCEPT !.nodes[n] = r]
    BY <1>4 DEF UpdateNode
  <2> QED BY <1>4, <2>1, <2>2 DEF Inv, TypeOK
<1> HIDE DEF r
<1>6. \A m \in Node : nodes'[m] = Gone <=> nodes[m] = Gone
  BY <1>1, <1>3, <1>4
<1>7. IdsAhead'
  BY <1>1, <1>5, <1>6 DEF Inv, IdsAhead, Counters
<1>8. RestartFinds'
  <2>1. ASSUME NEW e \in Edge, edges[e] # disk.edges[e]
        PROVE  edges[e] = Gone /\ Gone \in {nodes'[disk.edges[e].from], nodes'[disk.edges[e].to]}
    <3>1. edges[e] = Gone /\ Gone \in {nodes[disk.edges[e].from], nodes[disk.edges[e].to]}
      BY <1>1, <2>1 DEF Inv, RestartFinds
    <3>2. disk.edges[e].from \in Node /\ disk.edges[e].to \in Node
      BY <2>1, <3>1 DEF Inv, TypeOK, EdgeRecord
    <3> QED BY <1>6, <3>1, <3>2
  <2> QED BY <1>1, <1>5, <2>1 DEF RestartFinds
<1>9. EndpointsLive'
  <2>1. ASSUME NEW e \in Edge, edges[e] # Gone  PROVE Gone \notin {nodes'[edges[e].from], nodes'[edges[e].to]}
    <3>1. edges[e].from \in Node /\ edges[e].to \in Node
      BY <2>1 DEF Inv, TypeOK, EdgeRecord
    <3>2. Gone \notin {nodes[edges[e].from], nodes[edges[e].to]}
      BY <2>1 DEF Inv, EndpointsLive, LiveEdge
    <3> QED BY <1>6, <3>1, <3>2
  <2> QED BY <1>1, <2>1 DEF EndpointsLive, LiveEdge
<1>10. \A m \in Node : nodes[m] # Gone => LabelsOf(nodes'[m]) = LabelsOf(nodes[m])
  BY <1>3, <1>4 DEF LabelsOf
<1>11. NamesKept'
  BY <1>1, <1>5, <1>6, <1>10 DEF Inv, NamesKept, LiveNode, Knows
<1>12. LabelsKeepNames'
  BY <1>1, <1>6, <1>10 DEF Inv, LabelsKeepNames, LiveNode
<1>13. NodeIndexRight'
  <2>1. PICK find \in Finders : nodeIndex' = Reindex(find, nodes[n].labels, n, nodes[n].values, v)
    BY DEF UpdateNode
  <2>2. nodes[n].labels \in Counts(LabelId) /\ nodes[n].values \in Counts(Value)
    BY <1>2 DEF NodeRecord
  <2> QED BY <1>1, <1>3, <1>4, <2>1, <2>2, ReindexRight DEF Inv
<1>14. EdgeIndexRight'
  BY <1>1 DEF Inv, EdgeIndexRight
<1> QED BY <1>7, <1>8, <1>9, <1>11, <1>12, <1>13, <1>14 DEF Kept

LEMMA DeleteNodeStep ==
  ASSUME Inv, TypeOK', harm = {}, NEW n \in Node, DeleteNode(n)
  PROVE  Kept'
<1>1. /\ open /\ nodes[n] # Gone
      /\ UNCHANGED <<nextEdge, header, catalog, edgeIndex, open, killed, harm>>
  BY DEF DeleteNode
<1>2. nodes[n] \in NodeRecord
  BY <1>1 DEF Inv, TypeOK
<1>3. nodes'[n] = Gone /\ \A m \in Node \ {n} : nodes'[m] = nodes[m]
  BY DEF DeleteNode, Inv, TypeOK
<1>4. disk'.nodes = nodes' /\ disk'.edges = disk.edges /\ disk'.catalog = disk.catalog /\ disk.nodes = nodes
  <2>1. disk.nodes = nodes
    BY <1>1 DEF Inv, RestartFinds
  <2> QED BY <2>1 DEF DeleteNode, Inv, TypeOK
<1>5. \A e \in Edge : /\ edges'[e] # Gone => edges'[e] = edges[e] /\ edges[e].from # n /\ edges[e].to # n
                      /\ edges'[e] # edges[e] => edges'[e] = Gone /\ edges[e] # Gone /\ n \in {edges[e].from, edges[e].to}
  BY DEF DeleteNode, Touches
<1>6. \A m \in Node : nodes'[m] # Gone => nodes[m] # Gone /\ nodes'[m] = nodes[m] /\ m # n
  BY <1>3
<1>7. IdsAhead'
  BY <1>1, <1>4, <1>6 DEF Inv, IdsAhead, Counters
<1>8. RestartFinds'
  <2>1. ASSUME NEW e \in Edge, edges'[e] # disk.edges[e]
        PROVE  edges'[e] = Gone /\ Gone \in {nodes'[disk.edges[e].from], nodes'[disk.edges[e].to]}
    <3>1. CASE edges[e] = disk.edges[e]
      BY <1>3, <1>5, <2>1, <3>1
    <3>2. CASE edges[e] # disk.edges[e]
      <4>1. edges[e] = Gone /\ Gone \in {nodes[disk.edges[e].from], nodes[disk.edges[e].to]}
        BY <1>1, <3>2 DEF Inv, RestartFinds
      <4>2. disk.edges[e].from \in Node /\ disk.edges[e].to \in Node
        BY <3>2, <4>1 DEF Inv, TypeOK, EdgeRecord
      <4>3. edges'[e] = Gone
        BY <1>5, <4>1
      <4> QED BY <1>6, <4>1, <4>2, <4>3
    <3> QED BY <3>1, <3>2
  <2> QED BY <1>1, <1>4, <2>1 DEF RestartFinds
<1>9. EndpointsLive'
  <2>1. ASSUME NEW e \in Edge, edges'[e] # Gone
        PROVE  Gone \notin {nodes'[edges'[e].from], nodes'[edges'[e].to]}
    <3>1. edges'[e] = edges[e] /\ edges[e].from # n /\ edges[e].to # n
      BY <1>5, <2>1
    <3>2. edges[e].from \in Node /\ edges[e].to \in Node
      BY <2>1, <3>1 DEF Inv, TypeOK, EdgeRecord
    <3>3. Gone \notin {nodes[edges[e].from], nodes[edges[e].to]}
      BY <2>1, <3>1 DEF Inv, EndpointsLive, LiveEdge
    <3> QED BY <1>3, <3>1, <3>2, <3>3
  <2> QED BY <2>1 DEF EndpointsLive, LiveEdge
<1>10. NamesKept'
  BY <1>1, <1>4, <1>6 DEF Inv, NamesKept, LiveNode, Knows
<1>11. LabelsKeepNames'
  <2>1. \A m \in Node \ {n} : created'[m] = created[m]
    BY DEF DeleteNode, Inv, TypeOK
  <2> QED BY <1>1, <1>6, <2>1 DEF Inv, LabelsKeepNames, LiveNode
<1>12. NodeIndexRight'
  <2>1. PICK find \in Finders : nodeIndex' = Reindex(find, nodes[n].labels, n, nodes[n].values, None(Value))
    BY DEF DeleteNode
  <2>2. nodes[n].labels \in Counts(LabelId) /\ nodes[n].values \in Counts(Value) /\ None(Value) \in Counts(Value)
    BY <1>2, NoneCounts DEF NodeRecord
  <2> QED BY <1>1, <1>3, <2>1, <2>2, ReindexRight DEF Inv
<1>13. EdgeIndexRight'
  BY <1>1, <1>5 DEF Inv, EdgeIndexRight
<1> QED BY <1>7, <1>8, <1>9, <1>10, <1>11, <1>12, <1>13 DEF Kept

\* Edges.  The id of a new edge is above those of all edges on disk, even when an attempt to create
\* one has failed.
LEMMA CreateEdgeStep ==
  ASSUME Inv, TypeOK', harm = {}, NEW from \in Node, NEW to \in Node, NEW v \in Counts(EdgeValue),
         CreateEdge(from, to, v)
  PROVE  Kept'
<1> DEFINE id == nextEdge
           q == [from |-> from, to |-> to, values |-> v]
<1>1. /\ open /\ ~ killed /\ nextEdge' = id + 1
      /\ UNCHANGED <<nodes, catalog, nodeIndex, open, created, killed, harm>>
  BY DEF CreateEdge, Inv, Sessions
<1>2. id \in Edge /\ id \in Nat
  BY NextEdge DEF CreateEdge, Inv, TypeOK, Edge
<1>3. /\ \A n \in Node : disk.nodes[n] # Gone => n < header.node
      /\ \A e \in Edge : disk.edges[e] # Gone =>
           e < header.edge /\ disk.edges[e].from < header.node /\ disk.edges[e].to < header.node
      /\ header.edge <= id /\ disk.nodes = nodes
  BY <1>1 DEF Inv, IdsAhead, Counters, RestartFinds
<1>4. header.edge \in Int /\ header.node \in Int /\ \A e \in Edge : e \in Int
  BY BoundsAssumption DEF Inv, TypeOK, Header, Edge
<1>5. disk.edges[id] = Gone /\ edges[id] = Gone
  <2>1. disk.edges[id] = Gone
    BY <1>2, <1>3, <1>4
  <2> QED BY <1>1, <1>2, <2>1 DEF Inv, RestartFinds
<1>6. LabelsKeepNames' /\ NodeIndexRight'
  BY <1>1 DEF Inv, LabelsKeepNames, LiveNode, NodeIndexRight, Listed
<1>7. CASE nodes[from] = Gone \/ nodes[to] = Gone
  <2>1. UNCHANGED <<edges, header, edgeIndex, disk>>
    BY <1>7 DEF CreateEdge
  <2>2. IdsAhead'
    BY <1>1, <1>2, <1>3, <1>4, <2>1 DEF Inv, IdsAhead, Counters
  <2>3. RestartFinds' /\ EndpointsLive' /\ NamesKept'
    BY <1>1, <2>1 DEF Inv, RestartFinds, EndpointsLive, LiveEdge, NamesKept, LiveNode, Knows
  <2>4. EdgeIndexRight'
    BY <1>1, <1>2, <1>4, <2>1 DEF Inv, EdgeIndexRight
  <2> QED BY <1>6, <2>2, <2>3, <2>4 DEF Kept
<1>8. CASE nodes[from] # Gone /\ nodes[to] # Gone
  <2>1. edges' = [edges EXCEPT ![id] = q] /\ header' = [header EXCEPT !.edge = id + 1] /\ edgeIndex' = ReindexEdge(id, None(EdgeValue), v)
    BY <1>8 DEF CreateEdge
  <2>2. q \in EdgeRecord /\ q # Gone
    <3>1. q \in EdgeRecord
      BY DEF EdgeRecord
    <3> QED BY <3>1, MarksAssumption
  <2>3. edges'[id] = q /\ \A e \in Edge \ {id} : edges'[e] = edges[e]
    BY <1>2, <2>1 DEF Inv, TypeOK
  <2>4. header'.edge = id + 1 /\ header'.node = header.node
    BY <2>1 DEF Inv, TypeOK, Header
  <2>5. disk' = [disk EXCEPT !.edges[id] = q]
    BY <1>8, <2>3 DEF CreateEdge
  <2>6. /\ disk'.nodes = disk.nodes /\ disk'.catalog = disk.catalog /\ disk'.edges[id] = q
        /\ \A e \in Edge \ {id} : disk'.edges[e] = disk.edges[e]
    BY <1>2, <2>5 DEF Inv, TypeOK
  <2>7. from < header.node /\ to < header.node /\ q.from = from /\ q.to = to /\ q.values = v
    BY <1>3, <1>8
  <2> HIDE DEF q
  <2>8. IdsAhead'
    <3>1. ASSUME NEW e \in Edge, disk'.edges[e] # Gone
          PROVE  e < id + 1 /\ disk'.edges[e].from < header.node /\ disk'.edges[e].to < header.node
      <4>1. CASE e = id
        BY <1>2, <2>6, <2>7, <4>1
      <4>2. CASE e # id
        BY <1>2, <1>3, <1>4, <2>6, <3>1, <4>2
      <4> QED BY <4>1, <4>2
    <3>2. id + 1 <= id + 1
      BY <1>2
    <3> QED BY <1>1, <1>3, <2>4, <2>6, <3>1, <3>2 DEF IdsAhead, Counters
  <2>9. RestartFinds'
    <3>1. ASSUME NEW e \in Edge, edges'[e] # disk'.edges[e]
          PROVE  edges'[e] = Gone /\ Gone \in {nodes[disk'.edges[e].from], nodes[disk'.edges[e].to]}
      BY <1>1, <2>3, <2>6, <3>1 DEF Inv, RestartFinds
    <3> QED BY <1>1, <1>3, <2>6, <3>1 DEF RestartFinds
  <2>10. EndpointsLive'
    <3>1. ASSUME NEW e \in Edge, edges'[e] # Gone  PROVE Gone \notin {nodes[edges'[e].from], nodes[edges'[e].to]}
      BY <1>8, <2>3, <2>7, <3>1 DEF Inv, EndpointsLive, LiveEdge
    <3> QED BY <1>1, <3>1 DEF EndpointsLive, LiveEdge
  <2>11. NamesKept'
    BY <1>1, <2>6 DEF Inv, NamesKept, LiveNode, Knows
  <2>12. EdgeIndexRight'
    <3>1. None(EdgeValue) \in Counts(EdgeValue) /\ id >= nextEdge /\ id < nextEdge' /\ nextEdge' \in Int /\ nextEdge <= nextEdge'
      BY <1>1, <1>2, NoneCounts
    <3> QED BY <1>2, <1>5, <2>1, <2>2, <2>3, <2>7, <3>1, ReindexEdgeRight DEF Inv
  <2> QED BY <1>6, <2>8, <2>9, <2>10, <2>11, <2>12 DEF Kept
<1> QED BY <1>7, <1>8

\* An edge that is there is on disk too, under an id that was given out.
LEMMA LiveEdgeOnDisk ==
  ASSUME Inv, harm = {}, open, NEW e \in Edge, edges[e] # Gone
  PROVE  disk.edges[e] = edges[e] /\ e < nextEdge
<1>1. disk.edges[e] = edges[e]
  BY DEF Inv, RestartFinds
<1>2. e < header.edge /\ header.edge <= nextEdge
  BY <1>1 DEF Inv, Sessions, IdsAhead, Counters
<1>3. e \in Int /\ header.edge \in Int /\ nextEdge \in Int
  BY BoundsAssumption DEF Inv, TypeOK, Edge, Header
<1> QED BY <1>1, <1>2, <1>3

LEMMA UpdateEdgeStep ==
  ASSUME Inv, TypeOK', harm = {}, NEW e \in Edge, NEW v \in Counts(EdgeValue), UpdateEdge(e, v)
  PROVE  Kept'
<1> DEFINE q == [edges[e] EXCEPT !.values = v]
<1>1. /\ open /\ edges[e] # Gone
      /\ UNCHANGED <<nodes, nextEdge, header, catalog, nodeIndex, open, created, killed, harm>>
  BY DEF UpdateEdge
<1>2. edges[e] \in EdgeRecord /\ disk.edges[e] = edges[e] /\ e < nextEdge
  BY <1>1, LiveEdgeOnDisk DEF Inv, TypeOK
<1>3. q # Gone /\ q.from = edges[e].from /\ q.to = edges[e].to /\ q.values = v
  <2>1. q \in EdgeRecord /\ q.from = edges[e].from /\ q.to = edges[e].to /\ q.values = v
    BY <1>2 DEF EdgeRecord
  <2> QED BY <2>1, MarksAssumption
<1>4. edges' = [edges EXCEPT ![e] = q] /\ edges'[e] = q /\ \A f \in Edge \ {e} : edges'[f] = edges[f]
  BY DEF UpdateEdge, Inv, TypeOK
<1>5. disk' = [disk EXCEPT !.edges[e] = q]
  BY <1>4 DEF UpdateEdge
<1>6. /\ disk'.nodes = disk.nodes /\ disk'.catalog = disk.catalog /\ disk'.edges[e] = q
      /\ \A f \in Edge \ {e} : disk'.edges[f] = disk.edges[f]
  BY <1>5 DEF Inv, TypeOK
<1> HIDE DEF q
<1>7. IdsAhead'
  <2>1. \A f \in Edge : disk'.edges[f] # Gone =>
          disk.edges[f] # Gone /\ disk'.edges[f].from = disk.edges[f].from /\ disk'.edges[f].to = disk.edges[f].to
    BY <1>1, <1>2, <1>3, <1>6
  <2> QED BY <1>1, <1>6, <2>1 DEF Inv, IdsAhead, Counters
<1>8. RestartFinds'
  <2>1. ASSUME NEW f \in Edge, edges'[f] # disk'.edges[f]
        PROVE  edges'[f] = Gone /\ Gone \in {nodes[disk'.edges[f].from], nodes[disk'.edges[f].to]}
    BY <1>1, <1>4, <1>6, <2>1 DEF Inv, RestartFinds
  <2>2. disk.nodes = nodes
    BY <1>1 DEF Inv, RestartFinds
  <2> QED BY <1>1, <1>6, <2>1, <2>2 DEF RestartFinds
<1>9. EndpointsLive'
  <2>1. ASSUME NEW f \in Edge, edges'[f] # Gone  PROVE Gone \notin {nodes[edges'[f].from], nodes[edges'[f].to]}
    BY <1>1, <1>3, <1>4, <2>1 DEF Inv, EndpointsLive, LiveEdge
  <2> QED BY <1>1, <2>1 DEF EndpointsLive, LiveEdge
<1>10. NamesKept' /\ LabelsKeepNames' /\ NodeIndexRight'
  BY <1>1, <1>6 DEF Inv, NamesKept, LiveNode, Knows, LabelsKeepNames, NodeIndexRight, Listed
<1>11. EdgeIndexRight'
  <2>1. edgeIndex' = ReindexEdge(e, edges[e].values, v) /\ edges[e].values \in Counts(EdgeValue)
    BY <1>2 DEF UpdateEdge, EdgeRecord
  <2>2. nextEdge' \in Int /\ nextEdge <= nextEdge' /\ e < nextEdge'
    BY <1>1, <1>2, BoundsAssumption DEF Inv, TypeOK
  <2> QED BY <1>1, <1>3, <1>4, <2>1, <2>2, ReindexEdgeRight DEF Inv
<1> QED BY <1>7, <1>8, <1>9, <1>10, <1>11 DEF Kept

LEMMA DeleteEdgeStep ==
  ASSUME Inv, TypeOK', harm = {}, NEW e \in Edge, DeleteEdge(e)
  PROVE  Kept'
<1>1. /\ open /\ edges[e] # Gone
      /\ UNCHANGED <<nodes, nextEdge, header, catalog, nodeIndex, open, created, killed, harm>>
  BY DEF DeleteEdge
<1>2. edges[e] \in EdgeRecord
  BY <1>1 DEF Inv, TypeOK
<1>3. edges'[e] = Gone /\ \A f \in Edge \ {e} : edges'[f] = edges[f]
  BY DEF DeleteEdge, Inv, TypeOK
<1>4. /\ disk'.nodes = disk.nodes /\ disk'.catalog = disk.catalog /\ disk'.edges[e] = Gone
      /\ \A f \in Edge \ {e} : disk'.edges[f] = disk.edges[f]
  BY DEF DeleteEdge, Inv, TypeOK
<1>5. IdsAhead'
  <2>1. \A f \in Edge : disk'.edges[f] # Gone => disk'.edges[f] = disk.edges[f]
    BY <1>4
  <2> QED BY <1>1, <1>4, <2>1 DEF Inv, IdsAhead, Counters
<1>6. RestartFinds'
  <2>1. ASSUME NEW f \in Edge, edges'[f] # disk'.edges[f]
        PROVE  edges'[f] = Gone /\ Gone \in {nodes[disk'.edges[f].from], nodes[disk'.edges[f].to]}
    BY <1>1, <1>3, <1>4, <2>1 DEF Inv, RestartFinds
  <2>2. disk.nodes = nodes
    BY <1>1 DEF Inv, RestartFinds
  <2> QED BY <1>1, <1>4, <2>1, <2>2 DEF RestartFinds
<1>7. EndpointsLive'
  BY <1>1, <1>3 DEF Inv, EndpointsLive, LiveEdge
<1>8. NamesKept' /\ LabelsKeepNames' /\ NodeIndexRight'
  BY <1>1, <1>4 DEF Inv, NamesKept, LiveNode, Knows, LabelsKeepNames, NodeIndexRight, Listed
<1>9. EdgeIndexRight'
  <2>1. edgeIndex' = ReindexEdge(e, edges[e].values, None(EdgeValue)) /\ edges[e].values \in Counts(EdgeValue)
    BY <1>2 DEF DeleteEdge, EdgeRecord
  <2>2. nextEdge' \in Int /\ nextEdge <= nextEdge' /\ None(EdgeValue) \in Counts(EdgeValue)
    BY <1>1, BoundsAssumption, NoneCounts DEF Inv, TypeOK
  <2> QED BY <1>1, <1>3, <2>1, <2>2, ReindexEdgeRight DEF Inv
<1> QED BY <1>5, <1>6, <1>7, <1>8, <1>9 DEF Kept

\* Sessions.
LEMMA ForgottenIsRight ==
  ASSUME Forgotten
  PROVE  RestartFinds' /\ EndpointsLive' /\ LabelsKeepNames' /\ NodeIndexRight' /\ EdgeIndexRight'
BY DEF Forgotten, NoNodes, NoEdges, NoIndexes, RestartFinds, EndpointsLive, LiveEdge, LabelsKeepNames, LiveNode,
       NodeIndexRight, EdgeIndexRight

LEMMA CloseStep ==
  ASSUME Inv, TypeOK', harm = {}, Close
  PROVE  Kept'
<1>1. /\ open /\ ~ killed /\ ~ open' /\ UNCHANGED <<created, killed, harm>> /\ Forgotten
  BY DEF Close, Forgotten, Inv, Sessions
<1>2. disk'.nodes = disk.nodes /\ disk'.edges = disk.edges /\ disk'.catalog = catalog /\ disk'.header = header
  BY DEF Close, Inv, TypeOK
<1>3. disk.nodes = nodes
  BY <1>1 DEF Inv, RestartFinds
<1>4. IdsAhead'
  BY <1>1, <1>2 DEF Inv, IdsAhead, Counters
<1>5. NamesKept'
  BY <1>1, <1>2, <1>3 DEF Inv, NamesKept, LabelsKeepNames, LiveNode, Knows, NamesOf
<1> QED BY <1>1, <1>4, <1>5, ForgottenIsRight DEF Kept

LEMMA KillStep ==
  ASSUME Inv, TypeOK', harm = {}, Kill
  PROVE  Kept'
<1>1. open /\ ~ open' /\ killed' /\ UNCHANGED <<created, harm>> /\ Forgotten
  BY DEF Kill, Forgotten
<1>2. disk'.nodes = disk.nodes /\ disk'.edges = disk.edges /\ disk'.catalog = disk.catalog
  BY DEF Kill, Inv, TypeOK
<1>3. disk.nodes = nodes
  BY <1>1 DEF Inv, RestartFinds
<1>4. IdsAhead'
  BY <1>1 DEF IdsAhead
<1>5. NamesKept'
  <2>1. ASSUME NEW n \in Node, disk.nodes[n] # Gone, Knows(disk.catalog, disk.nodes[n])
        PROVE  created[n] = NamesOf(disk.catalog, disk.nodes[n])
    <3> DEFINE labels == LabelsOf(nodes[n])
    <3>1. created[n] = {catalog[l] : l \in labels \cap (1..Len(catalog))}
      BY <1>3, <2>1 DEF Inv, LabelsKeepNames, LiveNode
    <3>2. labels \subseteq 1..Len(disk.catalog) /\ labels \subseteq 1..Len(catalog)
      BY <1>1, <1>3, <2>1 DEF Inv, NamesKept, LiveNode, Knows
    <3>3. labels \cap (1..Len(catalog)) = labels /\ labels \cap (1..Len(disk.catalog)) = labels
      BY <3>2
    <3>4. \A l \in labels : disk.catalog[l] = catalog[l]
      BY <1>1, <3>2 DEF Inv, NamesKept
    <3>5. {catalog[l] : l \in labels} = {disk.catalog[l] : l \in labels}
      BY <3>4
    <3> QED BY <1>3, <3>1, <3>3, <3>5 DEF NamesOf
  <2> QED BY <1>1, <1>2, <2>1 DEF NamesKept, Knows, NamesOf
<1> QED BY <1>1, <1>4, <1>5, ForgottenIsRight DEF Kept

\* A session that finds no harm: what it reads is as it should be.
LEMMA OpenStep ==
  ASSUME Inv, TypeOK', harm = {}, harm' = {}, Open
  PROVE  Kept'
<1>1. /\ ~ open /\ open' /\ ~ killed' /\ UNCHANGED <<nodeIndex, edgeIndex, disk, created>>
      /\ nodes' = disk.nodes /\ edges' = disk.edges /\ header' = disk.header
      /\ nextEdge' = disk.header.edge /\ catalog' = disk.catalog
      /\ nodeIndex = NoIndexes /\ edgeIndex = Gone
  BY DEF Open, indexes, Inv, Sessions
<1>2. HarmFound = {}
  BY DEF Open
<1>3. killed => /\ \A n \in Node : disk.nodes[n] # Gone => ~ (n >= disk.header.node)
                /\ \A e \in Edge : disk.edges[e] # Gone => ~ (e >= disk.header.edge)
  <2>1. "reused_id" \notin HarmFound
    BY <1>2
  <2> QED BY <2>1 DEF HarmFound
<1>4. killed => \A l \in LabelsUsed : ~ (l > Len(disk.catalog))
  <2>1. "reused_label" \notin HarmFound
    BY <1>2
  <2> QED BY <2>1 DEF HarmFound
<1>5. \A e \in Edge : disk.edges[e] # Gone =>
        Gone \notin {disk.nodes[disk.edges[e].from], disk.nodes[disk.edges[e].to]}
  <2>1. "resurrected" \notin HarmFound
    BY <1>2
  <2> QED BY <2>1 DEF HarmFound
<1>6. /\ disk.header.node \in Int /\ disk.header.edge \in Int /\ Len(disk.catalog) \in Int
      /\ \A n \in Node : n \in Int
      /\ \A e \in Edge : e \in Int
  BY BoundsAssumption DEF Inv, TypeOK, Header, Node, Edge
<1>7. /\ \A n \in Node : disk.nodes[n] # Gone => n < disk.header.node
      /\ \A e \in Edge : disk.edges[e] # Gone => e < disk.header.edge
  <2>1. CASE killed
    BY <1>3, <1>6, <2>1
  <2>2. CASE ~ killed
    BY <1>1, <2>2 DEF Inv, IdsAhead, Counters
  <2> QED BY <2>1, <2>2
<1>8. IdsAhead'
  <2>1. ASSUME NEW e \in Edge, disk.edges[e] # Gone
        PROVE  disk.edges[e].from < disk.header.node /\ disk.edges[e].to < disk.header.node
    <3>1. disk.edges[e].from \in Node /\ disk.edges[e].to \in Node
      BY <2>1 DEF Inv, TypeOK, EdgeRecord
    <3> QED BY <1>5, <1>7, <2>1, <3>1
  <2>2. disk.header.edge <= disk.header.edge
    BY <1>6
  <2> QED BY <1>1, <1>7, <2>1, <2>2 DEF IdsAhead, Counters
<1>9. RestartFinds' /\ EndpointsLive'
  BY <1>1, <1>5 DEF RestartFinds, EndpointsLive, LiveEdge
<1>10. \A n \in Node : disk.nodes[n] # Gone => Knows(disk.catalog, disk.nodes[n])
  <2>1. CASE killed
    <3>1. ASSUME NEW n \in Node, disk.nodes[n] # Gone, NEW l \in LabelsOf(disk.nodes[n])
          PROVE  l \in 1..Len(disk.catalog)
      <4>1. l \in LabelId
        BY DEF LabelsOf
      <4>2. l \in Int /\ 1 <= l
        BY <4>1, LabelIds
      <4>3. l \in LabelsUsed
        BY <3>1 DEF LabelsUsed
      <4> QED BY <1>4, <1>6, <2>1, <4>2, <4>3
    <3> QED BY <3>1 DEF Knows
  <2>2. CASE ~ killed
    BY <1>1, <2>2 DEF Inv, NamesKept
  <2> QED BY <2>1, <2>2
<1>11. NamesKept'
  BY <1>1, <1>6, <1>10 DEF NamesKept, LiveNode, Knows
<1>12. LabelsKeepNames'
  BY <1>1, <1>10 DEF Inv, NamesKept, NamesOf, LabelsKeepNames, LiveNode
<1>13. NodeIndexRight' /\ EdgeIndexRight'
  BY <1>1 DEF NodeIndexRight, EdgeIndexRight, NoIndexes
<1> QED BY <1>8, <1>9, <1>11, <1>12, <1>13 DEF Kept

-----------------------------------------------------------------------------
(* The invariant.                                                          *)

LEMMA InitInv == Init => Inv
<1> SUFFICES ASSUME Init  PROVE Inv
  OBVIOUS
<1>1. TypeOK
  BY InitTyped
<1>2. /\ open /\ harm = {} /\ ~ killed /\ LiveNode = {} /\ LiveEdge = {}
      /\ \A n \in Node : nodes[n] = Gone /\ disk.nodes[n] = Gone
      /\ \A e \in Edge : edges[e] = Gone /\ disk.edges[e] = Gone
      /\ disk.nodes = nodes /\ disk.catalog = catalog /\ header.edge = nextEdge
      /\ nodeIndex = NoIndexes /\ edgeIndex = Gone
  BY DEF Init, LiveNode, LiveEdge, NoNodes, NoEdges
<1>3. Sessions
  BY <1>2 DEF Sessions
<1>4. IdsAhead /\ RestartFinds /\ EndpointsLive
  <2>1. header.edge <= nextEdge
    BY DEF Init
  <2> QED BY <1>2, <2>1 DEF IdsAhead, RestartFinds, EndpointsLive
<1>5. NamesKept /\ LabelsKeepNames
  <2>1. Len(catalog) <= Len(catalog)
    BY <1>1 DEF TypeOK
  <2> QED BY <1>2, <2>1 DEF NamesKept, LabelsKeepNames
<1>6. NodeIndexRight /\ EdgeIndexRight
  BY <1>2 DEF NodeIndexRight, EdgeIndexRight, NoIndexes
<1> QED BY <1>1, <1>3, <1>4, <1>5, <1>6 DEF Inv

LEMMA SessionsStep == Inv /\ [Next]_vars => Sessions'
<1> SUFFICES ASSUME Inv, [Next]_vars  PROVE Sessions'
  OBVIOUS
<1>1. open => ~ killed
  BY DEF Inv, Sessions
<1>2. CASE Close \/ Kill
  BY <1>1, <1>2 DEF Close, Kill, Forgotten, Sessions
<1>3. CASE Open
  BY <1>3 DEF Open, Sessions
<1>4. CASE UNCHANGED vars
  BY <1>4 DEF vars, graph, indexes, Inv, Sessions
<1>5. CASE open /\ open' = open /\ killed' = killed
  BY <1>1, <1>5 DEF Sessions
<1>6. Next => Close \/ Kill \/ Open \/ (open /\ open' = open /\ killed' = killed)
  BY DEF Next, DropIndex, CreateIndex, CreateEdgeIndex, DropEdgeIndex, GetOrCreateLabel, CreateNode, DeleteNode,
         UpdateNode, CreateEdge, DeleteEdge, UpdateEdge
<1> QED BY <1>2, <1>3, <1>4, <1>5, <1>6

LEMMA KeptStep == Inv /\ TypeOK' /\ [Next]_vars => Kept'
<1> SUFFICES ASSUME Inv, TypeOK', [Next]_vars  PROVE Kept'
  OBVIOUS
<1>1. CASE harm' # {}
  BY <1>1 DEF Kept, IdsAhead, RestartFinds, EndpointsLive, NamesKept, LabelsKeepNames, NodeIndexRight, EdgeIndexRight
<1>2. CASE harm' = {}
  <2>1. harm = {}
    BY <1>2, HarmStays
  <2>2. ASSUME NEW i \in IndexName, DropIndex(i)  PROVE Kept'
    BY <2>1, <2>2, DropIndexStep
  <2>3. ASSUME NEW i \in IndexName, NEW name \in Name, CreateIndex(i, name)  PROVE Kept'
    BY <1>2, <2>1, <2>3, CreateIndexStep
  <2>4. CASE CreateEdgeIndex \/ DropEdgeIndex
    BY <2>1, <2>4, EdgeIndexStep
  <2>5. ASSUME NEW name \in Name, GetOrCreateLabel(name)  PROVE Kept'
    BY <2>1, <2>5, GetOrCreateLabelStep
  <2>6. ASSUME NEW names \in Counts(Name), NEW v \in Counts(Value), CreateNode(names, v)  PROVE Kept'
    BY <2>1, <2>6, CreateNodeStep
  <2>7. ASSUME NEW n \in Node, DeleteNode(n)  PROVE Kept'
    BY <2>1, <2>7, DeleteNodeStep
  <2>8. ASSUME NEW n \in Node, NEW v \in Counts(Value), UpdateNode(n, v)  PROVE Kept'
    BY <2>1, <2>8, UpdateNodeStep
  <2>9. ASSUME NEW from \in Node, NEW to \in Node, NEW v \in Counts(EdgeValue), CreateEdge(from, to, v)
        PROVE  Kept'
    BY <2>1, <2>9, CreateEdgeStep
  <2>10. ASSUME NEW e \in Edge, DeleteEdge(e)  PROVE Kept'
    BY <2>1, <2>10, DeleteEdgeStep
  <2>11. ASSUME NEW e \in Edge, NEW v \in Counts(EdgeValue), UpdateEdge(e, v)  PROVE Kept'
    BY <2>1, <2>11, UpdateEdgeStep
  <2>12. CASE Close
    BY <2>1, <2>12, CloseStep
  <2>13. CASE Kill
    BY <2>1, <2>13, KillStep
  <2>14. CASE Open
    BY <1>2, <2>1, <2>14, OpenStep
  <2>15. CASE UNCHANGED vars
    <3>1. UNCHANGED <<nodes, edges, nextEdge, header, catalog, nodeIndex, edgeIndex, disk, open, created, killed, harm>>
      BY <2>15 DEF vars, graph, indexes
    <3>2. IdsAhead' /\ RestartFinds' /\ EndpointsLive' /\ NamesKept' /\ LabelsKeepNames'
      BY <3>1 DEF Inv, IdsAhead, Counters, RestartFinds, EndpointsLive, LiveEdge, NamesKept, LiveNode, Knows, NamesOf,
                  LabelsKeepNames
    <3>3. NodeIndexRight' /\ EdgeIndexRight'
      BY <3>1 DEF Inv, NodeIndexRight, Listed, EdgeIndexRight
    <3> QED BY <3>2, <3>3 DEF Kept
  <2> QED BY <2>2, <2>3, <2>4, <2>5, <2>6, <2>7, <2>8, <2>9, <2>10, <2>11, <2>12, <2>13, <2>14, <2>15, Inputs DEF Next, Inv
<1> QED BY <1>1, <1>2

LEMMA InvStep == Inv /\ [Next]_vars => Inv'
<1> SUFFICES ASSUME Inv, [Next]_vars  PROVE Inv'
  OBVIOUS
<1>1. TypeOK'
  BY TypeStep DEF Inv
<1> QED BY <1>1, SessionsStep, KeptStep, KeptIsInv

\* However sessions follow one another, are closed or killed, and whatever is created, changed,
\* deleted and indexed in them: the invariant holds.
THEOREM GraphInv == Spec => []Inv
BY InitInv, InvStep, PTL DEF Spec

-----------------------------------------------------------------------------
(* What follows from it.                                                   *)

\* The entries of finitely many values are finitely many.
LEMMA EntriesFinite ==
  ASSUME NEW range, IsFiniteSet(range), NEW f \in Counts(range)
  PROVE  IsFiniteSet(Entries(f, range)) /\ Cardinality(Entries(f, range)) \in Nat
<1> DEFINE Of(v) == {v} \X (1..f[v])
           Parts == {Of(v) : v \in range}
<1>1. ASSUME NEW v \in range  PROVE IsFiniteSet(Of(v))
  <2>1. IsFiniteSet(1..f[v])
    BY FS_Interval DEF Counts
  <2>2. IsFiniteSet({v})
    BY FS_Singleton
  <2> QED BY <2>1, <2>2, FS_Product
<1>2. IsFiniteSet(Parts)
  <2> DEFINE f2 == [v \in range |-> Of(v)]
  <2>1. f2 \in Surjection(range, Parts)
    BY DEF Surjection
  <2> QED BY <2>1, FS_Surjection
<1>3. IsFiniteSet(UNION Parts)
  <2> HIDE DEF Of
  <2> QED BY <1>1, <1>2, FS_UNION
<1>4. Entries(f, range) = UNION Parts
  BY DEF Entries
<1> QED BY <1>3, <1>4, FS_CardinalityType

\* What is listed for every value of a range is listed for the range.
LEMMA ListsRange ==
  ASSUME NEW range, IsFiniteSet(range), NEW f \in Counts(range), NEW g \in Counts(range),
         \A v \in range : Lists(f[v], g[v])
  PROVE  Lists(Cardinality(Entries(f, range)), Cardinality(Entries(g, range)))
<1>1. /\ IsFiniteSet(Entries(f, range)) /\ IsFiniteSet(Entries(g, range))
      /\ Cardinality(Entries(f, range)) \in Nat /\ Cardinality(Entries(g, range)) \in Nat
  BY EntriesFinite
<1>2. Cardinality(Entries(f, range)) <= Cardinality(Entries(g, range))
  <2>1. \A v \in range : f[v] \in Nat /\ g[v] \in Nat /\ f[v] <= g[v]
    BY DEF Lists, Counts
  <2>2. \A v \in range : 1..f[v] \subseteq 1..g[v]
    BY <2>1
  <2>3. Entries(f, range) \subseteq Entries(g, range)
    BY <2>2 DEF Entries
  <2> QED BY <1>1, <2>3, FS_Subset
<1>3. ASSUME Cardinality(Entries(g, range)) > 0  PROVE Cardinality(Entries(f, range)) > 0
  <2>1. Entries(g, range) # {}
    BY <1>1, <1>3, FS_EmptySet
  <2>2. PICK v \in range : 1..g[v] # {}
    BY <2>1 DEF Entries
  <2>3. g[v] > 0 /\ f[v] \in Nat /\ f[v] > 0
    BY <2>2 DEF Lists, Counts
  <2>4. <<v, 1>> \in Entries(f, range)
    BY <2>3 DEF Entries
  <2>5. Cardinality(Entries(f, range)) # 0
    BY <1>1, <2>4, FS_EmptySet
  <2> QED BY <1>1, <2>5
<1> QED BY <1>2, <1>3 DEF Lists

\* How often the record of a node has a label and a value.
LEMMA ListedCounts ==
  ASSUME TypeOK, NEW l \in LabelId, NEW v \in Value, NEW n \in Node
  PROVE  /\ Listed(l, v, n) \in Nat
         /\ nodes[n] = Gone => Listed(l, v, n) = 0
         /\ nodes[n] # Gone => (Listed(l, v, n) > 0 <=> l \in LabelsOf(nodes[n]) /\ nodes[n].values[v] > 0)
<1>1. CASE nodes[n] = Gone
  BY <1>1 DEF Listed
<1>2. CASE nodes[n] # Gone
  <2>1. nodes[n].labels[l] \in Nat /\ nodes[n].values[v] \in Nat
    BY <1>2, LiveNodeTyped DEF NodeRecord, Counts
  <2>2. Listed(l, v, n) = nodes[n].labels[l] * nodes[n].values[v]
    BY <1>2 DEF Listed
  <2>3. l \in LabelsOf(nodes[n]) <=> nodes[n].labels[l] > 0
    BY DEF LabelsOf
  <2> QED BY <1>2, <2>1, <2>2, <2>3, Products
<1> QED BY <1>1, <1>2

\* An index answers as a scan does, by value and by range.
LEMMA InvIndexIsScan == Inv => IndexIsScan
<1> SUFFICES ASSUME Inv, harm = {}, open, NEW l \in 1..Len(catalog), NEW i \in FindIndex(l), NEW n \in Node
             PROVE  /\ \A v \in Value : Lists(ScanNodesByProperty(i, l, v)[n], Listed(l, v, n))
                    /\ \A range \in (SUBSET Value) \ {{}} :
                         Lists(ScanNodesByRange(i, l, range)[n], ListedIn(l, range, n))
  BY DEF IndexIsScan
<1>1. TypeOK /\ l \in LabelId
  BY CatalogFits DEF Inv, TypeOK
<1>2. \A range \in SUBSET Value : IsFiniteSet(range)
  BY FS_Subset, BoundsAssumption
<1> DEFINE g(range) == [v \in range |-> Listed(l, v, n)]
<1>3. ASSUME NEW range \in SUBSET Value
      PROVE  /\ g(range) \in Counts(range)
             /\ ListedIn(l, range, n) = Cardinality(Entries(g(range), range))
  <2>1. g(range) \in Counts(range)
    BY <1>1, ListedCounts DEF Counts
  <2>2. CASE nodes[n] # Gone
    BY <2>1, <2>2 DEF ListedIn
  <2>3. CASE nodes[n] = Gone
    <3>1. \A v \in range : 1..g(range)[v] = {}
      BY <1>1, <2>3, ListedCounts
    <3>2. Entries(g(range), range) = {}
      BY <3>1 DEF Entries
    <3> QED BY <2>1, <2>3, <3>2, FS_EmptySet DEF ListedIn
  <2> QED BY <2>2, <2>3
<1>4. CASE i = Gone
  <2>1. ASSUME NEW v \in Value  PROVE Lists(ScanNodesByProperty(i, l, v)[n], Listed(l, v, n))
    <3>1. ScanNodesByProperty(i, l, v)[n] = IF Listed(l, v, n) > 0 THEN 1 ELSE 0
      BY <1>1, <1>4, ListedCounts DEF ScanNodesByProperty, ScanNodesByLabel, LiveNode, Once
    <3> QED BY <1>1, <3>1, ListedCounts DEF Lists
  <2>2. ASSUME NEW range \in SUBSET Value  PROVE Lists(ScanNodesByRange(i, l, range)[n], ListedIn(l, range, n))
    <3>1. ScanNodesByRange(i, l, range)[n] = IF \E v \in range : Listed(l, v, n) > 0 THEN 1 ELSE 0
      BY <1>1, <1>4, ListedCounts DEF ScanNodesByRange, ScanNodesByLabel, LiveNode, Once
    <3> DEFINE E == Entries(g(range), range)
    <3>2. IsFiniteSet(E) /\ Cardinality(E) \in Nat
      BY <1>2, <1>3, EntriesFinite
    <3>3. (\E v \in range : Listed(l, v, n) > 0) <=> E # {}
      <4>1. \A v \in range : Listed(l, v, n) \in Nat
        BY <1>1, ListedCounts
      <4>2. ASSUME NEW v \in range, Listed(l, v, n) > 0  PROVE E # {}
        <5>1. 1 \in 1..Listed(l, v, n)
          BY <4>1, <4>2
        <5>2. <<v, 1>> \in {v} \X (1..Listed(l, v, n))
          BY <5>1
        <5>3. <<v, 1>> \in E
          BY <5>2, Zenon DEF Entries
        <5> QED BY <5>3
      <4>3. ASSUME NEW e \in E  PROVE \E v \in range : Listed(l, v, n) > 0
        <5>1. PICK v \in range : e \in {v} \X (1..Listed(l, v, n))
          BY DEF Entries
        <5>2. PICK k \in 1..Listed(l, v, n) : TRUE
          BY <5>1
        <5> QED BY <4>1, <5>2
      <4> HIDE DEF E
      <4> QED BY <4>2, <4>3
    <3>4. E # {} <=> Cardinality(E) > 0
      <4> HIDE DEF E
      <4> QED BY <3>2, FS_EmptySet
    <3>5. ListedIn(l, range, n) = Cardinality(E)
      BY <1>3
    <3> HIDE DEF E
    <3> QED BY <3>1, <3>2, <3>3, <3>4, <3>5 DEF Lists
  <2> QED BY <2>1, <2>2
<1>5. CASE i # Gone
  <2> DEFINE p == nodeIndex[i].postings
  <2>1. i \in IndexName /\ nodeIndex[i] # Gone /\ nodeIndex[i].label = l
    BY <1>5 DEF FindIndex, On
  <2>2. p \in Postings(Value, Node)
    BY <2>1 DEF Inv, TypeOK, IndexRecord
  <2>3. \A v \in Value : Lists(p[v][n], Listed(l, v, n))
    BY <2>1 DEF Inv, NodeIndexRight
  <2> HIDE DEF p
  <2>4. ASSUME NEW v \in Value  PROVE Lists(ScanNodesByProperty(i, l, v)[n], Listed(l, v, n))
    BY <1>5, <2>3 DEF ScanNodesByProperty, Lookup, p
  <2>5. ASSUME NEW range \in SUBSET Value  PROVE Lists(ScanNodesByRange(i, l, range)[n], ListedIn(l, range, n))
    <3> DEFINE f == [v \in range |-> p[v][n]]
    <3>1. ScanNodesByRange(i, l, range)[n] = Cardinality(Entries(Listings(p, n), range))
      BY <1>5 DEF ScanNodesByRange, RangeOf, p
    <3>2. Entries(Listings(p, n), range) = Entries(f, range)
      BY <2>2 DEF Entries, Listings, Postings
    <3>3. f \in Counts(range) /\ \A v \in range : Lists(f[v], g(range)[v])
      BY <2>2, <2>3 DEF Postings, Counts
    <3> HIDE DEF f, g
    <3> QED BY <1>2, <1>3, <3>1, <3>2, <3>3, ListsRange
  <2> QED BY <2>4, <2>5
<1> QED BY <1>4, <1>5

\* The edge index answers what a scan of the edges does, and beside it only edges that are gone.
LEMMA InvEdgeIndexIsScan == Inv => EdgeIndexIsScan
<1> SUFFICES ASSUME Inv, harm = {}, open, NEW v \in EdgeValue, NEW e \in Edge
             PROVE  /\ e \in LiveEdge => Lists(ScanEdgesByProperty(v)[e], edges[e].values[v])
                    /\ ScanEdgesByProperty(v)[e] # 0 => e < nextEdge
  BY DEF EdgeIndexIsScan
<1>1. edges[e] # Gone => edges[e].values[v] \in Nat
  BY DEF Inv, TypeOK, EdgeRecord, Counts
<1>2. CASE edgeIndex = Gone
  <2>1. ScanEdgesByProperty(v)[e] = IF edges[e] # Gone /\ edges[e].values[v] > 0 THEN 1 ELSE 0
    BY <1>2 DEF ScanEdgesByProperty, Once, ScanEdgesByType
  <2> QED BY <1>1, <2>1, LiveEdgeOnDisk DEF LiveEdge, Lists
<1>3. CASE edgeIndex # Gone
  BY <1>1, <1>3 DEF Inv, EdgeIndexRight, ScanEdgesByProperty, Lookup, LiveEdge, Lists
<1> QED BY <1>2, <1>3

\* scan_nodes_by_property and scan_nodes_by_range: with an index or without, the same nodes; a node
\* comes more than once only by an index, and only as often as the label and values stand in its record.
THEOREM IndexAnswersAsScan == Spec => []IndexIsScan
BY GraphInv, InvIndexIsScan, PTL

\* scan_edges_by_property: the live edges of the value; beside them, edges that went with a node.
THEOREM EdgeIndexAnswersAsScan == Spec => []EdgeIndexIsScan
BY GraphInv, InvEdgeIndexIsScan, PTL

\* No edge outlives its nodes, unless a session has found edges back from the dead.
THEOREM EdgesHaveNodes == Spec => []EndpointsLive
<1>1. Inv => EndpointsLive
  BY DEF Inv
<1> QED BY <1>1, GraphInv, PTL

\* The disk holds the nodes in memory as they are, and every live edge; an edge it holds besides went
\* with a node.  Of counters and labels this says nothing.
THEOREM RestartKeepsGraph == Spec => []RestartFinds
<1>1. Inv => RestartFinds
  BY DEF Inv
<1> QED BY <1>1, GraphInv, PTL

\* Nodes keep the labels they were created with, by name.
THEOREM NodesKeepLabels == Spec => []LabelsKeepNames
<1>1. Inv => LabelsKeepNames
  BY DEF Inv
<1> QED BY <1>1, GraphInv, PTL
=============================================================================
