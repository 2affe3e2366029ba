------------------------------ MODULE DataPages ------------------------------
(***************************************************************************)
(* The five chains of data pages of a database file and the catalog's,     *)
(* byte by byte: what the engine appends and rewrites while it runs, and   *)
(* what it reads back when the file is opened (lib.rs).                    *)
(*                                                                         *)
(* Every operation is one step.  What a death in the middle of one leaves  *)
(* behind is the subject of NodePages and WalStore; here the process is    *)
(* only closed, so page 0 counts when the file is closed.  The file is a   *)
(* new one or an old version's.  Deleting a subgraph, a hyperedge or a member writes   *)
(* nothing at all and belongs to Entities; indexes belong to GraphStore.   *)
(* A page taken from the free-space map is the lowest free one (FreeSpace);*)
(* the operations stop at MaxPage, before the map is full.                 *)
(***************************************************************************)
EXTENDS FileHeader, Functions, TLC

CONSTANTS
  NodeShapes,        \* labels and properties that nodes are created with
  EdgeShapes,        \* type and properties that edges are created with
  Subgraphs,         \* anchors and properties that subgraphs are created with
  Hyperedges,        \* type, participants and properties that hyperedges are created with
  Labels,            \* names, as bytes
  MaxCreated,        \* bound: entities ever created, of all kinds
  MaxVersions,       \* bound: versions ever stored
  OldVersions,       \* versions of the format that an existing file may have
  MaxPage            \* bound: the last page

Kind == {"node", "edge", "subgraph", "hyperedge", "version"}
ASSUME DataPagesAssumption ==
  MaxCreated \in Nat /\ MaxVersions \in Nat /\ MaxPage \in Nat /\ OldVersions \subseteq 1..5

VARIABLES
  open,       \* the engine is open
  next,       \* next_node_id and its like in the header, 0 when the file is too old to have it
  store,      \* by kind, the records in memory; a subgraph's with the members it has
  catalog,    \* the names of the labels, in the order of their ids
  pages,      \* page 0 of a closed file, the header's roots and flags, main file, log,
              \* free-space map, current pages, node_page_map and its like
  lost        \* history: the kinds of which a record may have been lost

vars == <<open, next, store, catalog, pages, lost>>

PageType == [node |-> 6, edge |-> 7, catalog |-> 8, subgraph |-> 9, hyperedge |-> 10, version |-> 11]
FirstDataPage == 2
NoCache == [page |-> 0]
NoCatalog == <<>>
Empty == [k \in Kind |-> <<>>]
-------------------------------------------------------------------------------
(* Appending a record (persist_node and its like) *)

LowestFree(d) == Min((FirstDataPage..MaxPage) \ d.used)

Written(d, p, image) == [d EXCEPT !.log = (p :> image) @@ @]

AppendedHere(d, kind, bytes) ==
    LET image == Pack(d.cached[kind].image, bytes)
    IN  [Written(d, d.cached[kind].page, image) EXCEPT !.cached[kind].image = image]

\* A new page: the full one is written again with a pointer to it, and the first of all
\* becomes the root of its chain.
AppendedUnchained(d, kind, bytes) ==                          \* a mistake: no pointer
    LET p == LowestFree(d)
        image == Pack(NewPage(PageType[kind], 0), bytes)
    IN  [Written(d, p, image) EXCEPT !.used = @ \cup {p}, !.cached[kind] = [page |-> p, image |-> image],
                                     !.root[kind] = IF @ = 0 THEN p ELSE @]
AppendedToNewPage(d, kind, bytes) ==
    LET p == LowestFree(d)
        image == Pack(NewPage(PageType[kind], 0), bytes)
        last == d.cached[kind]
        chained == IF last = NoCache THEN d ELSE Written(d, last.page, SetNext(last.image, p))
    IN  [Written(chained, p, image) EXCEPT !.used = @ \cup {p}, !.cached[kind] = [page |-> p, image |-> image],
                                           !.root[kind] = IF @ = 0 THEN p ELSE @]

Appended(d, kind, bytes) ==
    IF d.cached[kind] # NoCache /\ Fits(d.cached[kind].image, bytes)
    THEN AppendedHere(d, kind, bytes) ELSE AppendedToNewPage(d, kind, bytes)

\* node_page_map and edge_page_map remember where it went.
Placed(d, kind, id) == [d EXCEPT !.of[kind] = (id :> d.cached[kind].page) @@ @]

PersistNode(d, r) == Placed(Appended(d, "node", NodeBytes(r, FALSE)), "node", r.id)
PersistEdge(d, r) == Placed(Appended(d, "edge", EdgeBytes(r, FALSE)), "edge", r.id)
PersistSubgraph(d, r) == Appended(d, "subgraph", SubgraphBytes(r))
PersistHyperedge(d, r) == Appended(d, "hyperedge", HyperedgeBytes(r))
PersistVersion(d, r) == Appended(d, "version", VersionBytes(r))
-------------------------------------------------------------------------------
(* Rewriting a record (rewrite_node_on_page, rewrite_edge_on_page) *)

Latest(d, p) == IF p \in DOMAIN d.log THEN d.log[p] ELSE d.main[p]

\* read_data_page: a page that some kind appends to from memory, any other from the main file.
ReadDataPage(d, p) ==
    LET kinds == {k \in Kind : d.cached[k].page = p}
    IN  IF kinds = {} THEN (IF p \in DOMAIN d.main THEN d.main[p] ELSE Zeros(PageSize))
        ELSE d.cached[CHOOSE k \in kinds : TRUE].image

\* The page again, with `bytes` in place of the records of that id; what cannot be decoded goes.
Rebuilt(old, Decode(_), id, bytes) ==
    FoldLeft(LAMBDA page, slice :
               LET x == Decode(slice)
               IN  IF x = None THEN page
                   ELSE Pack(page, IF x[1].record.id = id THEN bytes ELSE slice),
             NewPage(Header(old).type, Header(old).next), ReadRecords(old))

Rewritten(d, kind, Decode(_), id, bytes) ==
    LET p == d.of[kind][id]
        image == Rebuilt(ReadDataPage(d, p), Decode, id, bytes)
    IN  [Written(d, p, image) EXCEPT !.cached[kind] = IF @.page = p THEN [page |-> p, image |-> image] ELSE @]

\* Two ways to lose a record: an old copy of the page was read, or the new one is full.
Loses(d, kind, Decode(_), id, bytes) ==
    LET p == d.of[kind][id]
        old == ReadDataPage(d, p)
    IN  \/ old # Latest(d, p)
        \/ Header(Rebuilt(old, Decode, id, bytes)).count < Header(old).count

RewriteNode(d, r, deleted) == Rewritten(d, "node", ReadNode, r.id, NodeBytes(r, deleted))
RewriteEdge(d, r, deleted) == Rewritten(d, "edge", ReadEdge, r.id, EdgeBytes(r, deleted))
LosesNode(d, r, deleted) == Loses(d, "node", ReadNode, r.id, NodeBytes(r, deleted))
LosesEdge(d, r, deleted) == Loses(d, "edge", ReadEdge, r.id, EdgeBytes(r, deleted))
-------------------------------------------------------------------------------
(* Loading *)

Images(d) == d.log @@ d.main

RECURSIVE Chain(_, _)
Chain(images, p) == IF p = 0 THEN <<>> ELSE <<p>> \o Chain(images, Header(images[p]).next)

\* The records along a chain that are no tombstones, each with its page.
Live(d, kind, Decode(_)) ==
    LET images == Images(d)
        chain == Chain(images, d.root[kind])
        records == [i \in DOMAIN chain |-> ReadRecords(images[chain[i]])]
        entries == FlattenSeq([i \in DOMAIN chain |->
                     [j \in DOMAIN records[i] |-> [page |-> chain[i], read |-> Decode(records[i][j])]]])
    IN  SelectSeq(entries, LAMBDA e : e.read # None /\ ~ e.read[1].deleted)

\* Inserting them one after the other: of two with one key the later counts.
Inserted(live, Key(_), Value(_)) ==
    FoldLeft(LAMBDA f, e : (Key(e.read[1].record) :> Value(e)) @@ f, <<>>, live)

Id(r) == r.id
IdAndSeq(r) == <<r.id, r.seq>>
Record(e) == e.read[1].record
PageOf(e) == e.page

LoadNodes(d) == Inserted(Live(d, "node", ReadNode), Id, Record)
LoadEdges(d) == Inserted(Live(d, "edge", ReadEdge), Id, Record)
LoadHyperedges(d) == Inserted(Live(d, "hyperedge", ReadHyperedge), Id, Record)
LoadVersions(d) == Inserted(Live(d, "version", ReadVersion), IdAndSeq, Record)

\* MembershipIndex.add: once each, in the order they come.
Joined(members, more) == FoldLeft(LAMBDA m, n : IF Contains(m, n) THEN m ELSE Append(m, n), members, more)

\* A subgraph has the members of all its records.
LoadSubgraphs(d) ==
    FoldLeft(LAMBDA f, e : LET r == Record(e)
                               known == IF r.id \in DOMAIN f THEN f[r.id].members ELSE <<>>
                           IN  (r.id :> [r EXCEPT !.members = Joined(known, r.members)]) @@ f,
             <<>>, Live(d, "subgraph", ReadSubgraph))

Load(d) == [node |-> LoadNodes(d), edge |-> LoadEdges(d), subgraph |-> LoadSubgraphs(d),
            hyperedge |-> LoadHyperedges(d), version |-> LoadVersions(d)]
-------------------------------------------------------------------------------
(* The catalog *)

\* bincode: each namespace as two maps and its next id, then the definitions of indexes.
NameBytes(name) == U64(Len(name)) \o name
NamespaceBytes(names) ==
    U64(Len(names)) \o FlattenSeq([i \in DOMAIN names |-> NameBytes(names[i]) \o U32(i - 1)])
    \o U64(Len(names)) \o FlattenSeq([i \in DOMAIN names |-> U32(i - 1) \o NameBytes(names[i])])
    \o U32(Len(names))
CatalogBytes(names) == NamespaceBytes(names) \o NamespaceBytes(<<>>) \o NamespaceBytes(<<>>) \o U64(0)

UsablePerPage == PageSize - HeaderSize
ChunksOf(bytes) == [i \in 1..((Len(bytes) + UsablePerPage - 1) \div UsablePerPage) |->
                      SubSeq(bytes, (i - 1) * UsablePerPage + 1, IF i * UsablePerPage < Len(bytes)
                                                                 THEN i * UsablePerPage ELSE Len(bytes))]

ChunkPage(chunk, following) ==
    Place(WithHeader(Zeros(PageSize), [type |-> PageType.catalog, count |-> 1,
                                       free |-> HeaderSize + Len(chunk), next |-> following]),
          HeaderSize, chunk)

\* save_catalog: on pages of its own every time, committed together, and then the root.
SaveCatalog(d, names) ==
    LET chunks == ChunksOf(CatalogBytes(names))
        free == (FirstDataPage..MaxPage) \ d.used
        taken[i \in DOMAIN chunks] == Min(free \ {taken[j] : j \in 1..(i - 1)})
        images == [p \in {taken[i] : i \in DOMAIN chunks} |->
                     LET i == CHOOSE n \in DOMAIN chunks : taken[n] = p
                     IN  ChunkPage(chunks[i], IF i = Len(chunks) THEN 0 ELSE taken[i + 1])]
    IN  [d EXCEPT !.log = images @@ @, !.used = @ \cup DOMAIN images, !.catalog = taken[1]]

\* load_catalog: what lies between the header and the free space of the pages, in one piece.
SavedBytes(d) ==
    LET images == Images(d)
        chain == Chain(images, d.catalog)
    IN  FlattenSeq([i \in DOMAIN chain |-> SubSeq(images[chain[i]], HeaderSize + 1, Header(images[chain[i]]).free)])

Catalogs == UNION {{s \in [1..n -> Labels] : IsInjective(s)} : n \in 0..2}
LoadCatalog(d) == IF d.catalog = 0 THEN NoCatalog ELSE CHOOSE c \in Catalogs : CatalogBytes(c) = SavedBytes(d)
-------------------------------------------------------------------------------
(* Operations *)

NoPages == [header |-> <<>>, flags |-> CompiledFeatureFlags, root |-> [k \in Kind |-> 0], catalog |-> 0,
            main |-> <<>>, log |-> <<>>, used |-> {},
            cached |-> [k \in Kind |-> NoCache], of |-> [node |-> <<>>, edge |-> <<>>]]
NewFile ==
  /\ open = TRUE /\ next = [k \in Kind \ {"version"} |-> 1] /\ pages = NoPages

\* A file of an old version, which kept no data on pages, with one id given.
OldFile(version) ==
  /\ open = FALSE
  /\ next = [node |-> 2, edge |-> 1, subgraph |-> 0, hyperedge |-> 0]
  /\ pages = [NoPages EXCEPT !.header = OldPage(version, 2), !.flags = TemporalCore]

Init ==
  /\ NewFile \/ \E version \in OldVersions : OldFile(version)
  /\ store = Empty /\ catalog = NoCatalog /\ lost = {}

NextId(kind) == IF next[kind] = 0 THEN 1 ELSE next[kind]
Created == SumFunction([k \in DOMAIN next |-> NextId(k) - 1])

\* An operation takes two pages at most.
Room == Cardinality((FirstDataPage..MaxPage) \ pages.used) >= 2
Stored(kind, id, r) == [store EXCEPT ![kind] = (id :> r) @@ @]
Removed(kind, ids) == [store EXCEPT ![kind] = Restrict(@, DOMAIN @ \ ids)]

Create(kind, r, d) ==
  /\ open /\ Room /\ Created < MaxCreated
  /\ next' = [next EXCEPT ![kind] = NextId(kind) + 1]
  /\ store' = Stored(kind, NextId(kind), r)
  /\ pages' = d
  /\ UNCHANGED <<open, catalog, lost>>

CreateNode(s) == LET r == [id |-> NextId("node"), labels |-> s.labels, props |-> s.props]
                 IN  Create("node", r, PersistNode(pages, r))

CreateEdge(a, b, s) ==
  LET r == [id |-> NextId("edge"), start |-> a, end |-> b, type |-> s.type, props |-> s.props]
  IN  {a, b} \subseteq DOMAIN store.node /\ Create("edge", r, PersistEdge(pages, r))

CreateSubgraph(s) ==
  LET r == [id |-> NextId("subgraph"), anchor |-> s.anchor, props |-> s.props, members |-> <<>>]
  IN  Create("subgraph", r, PersistSubgraph(pages, r))

CreateHyperedge(s) ==
  LET r == [id |-> NextId("hyperedge"), type |-> s.type, sources |-> s.sources, targets |-> s.targets,
            props |-> s.props]
  IN  Create("hyperedge", r, PersistHyperedge(pages, r))

\* add_member: the whole record again.
AddMember(g, n) ==
  /\ open /\ Room /\ g \in DOMAIN store.subgraph /\ n \in DOMAIN store.node
  /\ LET r == [store.subgraph[g] EXCEPT !.members = Joined(@, <<n>>)]
     IN  store' = Stored("subgraph", g, r) /\ pages' = PersistSubgraph(pages, r)
  /\ UNCHANGED <<open, next, catalog, lost>>

\* update_node: a version of the node first, then the node.
UpdateNode(n, props) ==
  /\ open /\ Room /\ n \in DOMAIN store.node /\ Cardinality(DOMAIN store.version) < MaxVersions
  /\ LET old == store.node[n]
         new == [old EXCEPT !.props = props]
         seq == 1 + Cardinality({v \in DOMAIN store.version : v[1] = n})
         version == [id |-> n, seq |-> seq, of |-> <<"Node", old>>]
         d == PersistVersion(pages, version)
     IN  /\ store' = [store EXCEPT !.node[n] = new, !.version = (<<n, seq>> :> version) @@ @]
         /\ pages' = RewriteNode(d, new, FALSE)
         /\ lost' = lost \cup IF LosesNode(d, new, FALSE) THEN {"node"} ELSE {}
  /\ UNCHANGED <<open, next, catalog>>

\* update_edge keeps no version.
UpdateEdge(e, props) ==
  /\ open /\ e \in DOMAIN store.edge
  /\ LET new == [store.edge[e] EXCEPT !.props = props]
     IN  /\ store' = Stored("edge", e, new)
         /\ pages' = RewriteEdge(pages, new, FALSE)
         /\ lost' = lost \cup IF LosesEdge(pages, new, FALSE) THEN {"edge"} ELSE {}
  /\ UNCHANGED <<open, next, catalog>>

\* delete_node: a tombstone for the node and none for its edges, which return (GraphStore).
DeleteNode(n) ==
  /\ open /\ n \in DOMAIN store.node
  /\ LET edges == {e \in DOMAIN store.edge : n \in {store.edge[e].start, store.edge[e].end}}
         old == store.node[n]
     IN  /\ store' = [Removed("edge", edges) EXCEPT !.node = Restrict(@, DOMAIN @ \ {n})]
         /\ pages' = RewriteNode(pages, old, TRUE)
         /\ lost' = lost \cup (IF edges = {} THEN {} ELSE {"edge"})
                         \cup (IF LosesNode(pages, old, TRUE) THEN {"node"} ELSE {})
  /\ UNCHANGED <<open, next, catalog>>

DeleteEdge(e) ==
  /\ open /\ e \in DOMAIN store.edge
  /\ store' = Removed("edge", {e})
  /\ pages' = RewriteEdge(pages, store.edge[e], TRUE)
  /\ lost' = lost \cup IF LosesEdge(pages, store.edge[e], TRUE) THEN {"edge"} ELSE {}
  /\ UNCHANGED <<open, next, catalog>>

\* get_or_create_label, of a name that is new.
NewLabel(name) ==
  /\ open /\ ~ Contains(catalog, name)
  /\ catalog' = Append(catalog, name)
  /\ UNCHANGED <<open, next, store, pages, lost>>

Merged(d) == [d EXCEPT !.main = Images(d), !.log = <<>>]

Checkpoint ==
  /\ open /\ pages.log # <<>>
  /\ pages' = Merged(pages)
  /\ UNCHANGED <<open, next, store, catalog, lost>>

HeaderOf(d, ids) ==
    [NewHeader EXCEPT !.page_count = 1 + Max(d.used \cup {1}), !.feature_flags = d.flags,
       !.next_node_id = ids.node, !.next_edge_id = ids.edge,
       !.next_subgraph_id = ids.subgraph, !.next_hyperedge_id = ids.hyperedge,
       !.catalog_page_id = d.catalog, !.node_data_root_page = d.root["node"],
       !.edge_data_root_page = d.root["edge"], !.subgraph_data_root_page = d.root["subgraph"],
       !.hyperedge_data_root_page = d.root["hyperedge"], !.version_data_root_page = d.root["version"]]

\* Drop: the catalog, the header, a checkpoint.  What is in memory is gone.
Close ==
  /\ open /\ Room
  /\ LET d == Merged(SaveCatalog(pages, catalog))
     IN  pages' = [d EXCEPT !.header = ToPage(HeaderOf(d, next)), !.cached = NoPages.cached, !.of = NoPages.of]
  /\ open' = FALSE /\ UNCHANGED <<next, store, catalog, lost>>

\* Opening the file: roots, flags and ids come from the header.
Opened(d, h) ==
    [d EXCEPT !.header = <<>>, !.flags = h.feature_flags, !.catalog = h.catalog_page_id,
              !.root = [node |-> h.node_data_root_page, edge |-> h.edge_data_root_page,
                        subgraph |-> h.subgraph_data_root_page, hyperedge |-> h.hyperedge_data_root_page,
                        version |-> h.version_data_root_page]]

\* The records come from the pages; each chain's last page is kept to append to.
Loaded(d) ==
    [d EXCEPT !.cached = [k \in Kind |-> IF d.root[k] = 0 THEN NoCache
                            ELSE LET p == Last(Chain(d.main, d.root[k])) IN [page |-> p, image |-> d.main[p]]],
              !.of = [node |-> Inserted(Live(d, "node", ReadNode), Id, PageOf),
                      edge |-> Inserted(Live(d, "edge", ReadEdge), Id, PageOf)]]

Open ==
  /\ ~ open /\ OpenDatabase(pages.header) # None
  /\ LET h == OpenDatabase(pages.header)[1]
         d == Opened(pages, h)
     IN  /\ next' = [node |-> h.next_node_id, edge |-> h.next_edge_id,
                     subgraph |-> h.next_subgraph_id, hyperedge |-> h.next_hyperedge_id]
         /\ catalog' = LoadCatalog(d)
         /\ store' = Load(d)
         /\ pages' = Loaded(d)
  /\ open' = TRUE /\ UNCHANGED lost

Next ==
  \/ \E s \in NodeShapes : CreateNode(s) \/ \E n \in DOMAIN store.node : UpdateNode(n, s.props)
  \/ \E s \in EdgeShapes : \/ \E a, b \in DOMAIN store.node : CreateEdge(a, b, s)
                           \/ \E e \in DOMAIN store.edge : UpdateEdge(e, s.props)
  \/ \E n \in DOMAIN store.node : DeleteNode(n) \/ \E g \in DOMAIN store.subgraph : AddMember(g, n)
  \/ \E e \in DOMAIN store.edge : DeleteEdge(e)
  \/ \E s \in Subgraphs : CreateSubgraph(s)
  \/ \E s \in Hyperedges : CreateHyperedge(s)
  \/ \E name \in Labels : NewLabel(name)
  \/ Checkpoint \/ Close \/ Open

Spec == Init /\ [][Next]_vars
-------------------------------------------------------------------------------
(* What must hold *)

\* R-PERSIST-031, -032, -050 to -052: at any moment, what open() would read from the pages is
\* what the engine has in memory, record for record and byte for byte, of every kind of which
\* nothing was lost; and page 0 of a closed file gives the ids, the roots and the flags of the
\* last session, whatever version wrote it, and the pages it names the catalog.
LoadFinds ==
  /\ \A k \in Kind \ lost : Load(pages)[k] = store[k]
  /\ ~ open => OpenDatabase(pages.header) = <<HeaderOf(pages, next)>>
  /\ ~ open /\ pages.catalog # 0 => SavedBytes(pages) = CatalogBytes(catalog)
===============================================================================
