-------------------------------- MODULE Engine --------------------------------
(***************************************************************************)
(* What an open engine holds, as a query sees it (storage/src/lib.rs), and *)
(* the rows a query makes of it.                                           *)
(*                                                                         *)
(* The engine is a record of functions from ids to records, whose          *)
(* properties are functions from keys to values (keys, labels and types by *)
(* their names, which the catalog keeps for their ids), with the ids to be *)
(* given next and the time.  A row maps columns to values; a column is the *)
(* sequence of names of its heading: <<"n">>, <<"n", "p">>.                *)
(***************************************************************************)
EXTENDS Values, SequencesExt

-----------------------------------------------------------------------------
(* Rows.                                                                   *)

\* Value or Null; another value; f's values, and g's where f has none.
At(f, key) == IF key \in DOMAIN f THEN f[key] ELSE Null
Bind(f, key, v) == [k \in DOMAIN f \cup {key} |-> IF k = key THEN v ELSE f[k]]
Over(f, g) == [k \in DOMAIN f \cup DOMAIN g |-> IF k \in DOMAIN f THEN f[k] ELSE g[k]]
EmptyRow == [c \in {} |-> Null]
Rows(rows) == [rows |-> rows, failure |-> <<>>]
Broken(v) == [rows |-> <<>>, failure |-> v]
IsOk(result) == result.failure = <<>>
BindOpt(row, opt, v) == IF opt = <<>> THEN row ELSE Bind(row, opt, v)

\* deduplicate_records.
Repeated(rows, k) == \E j \in 1..(k - 1) : rows[j] = rows[k]
Deduplicate(rows) == FlattenSeq([k \in DOMAIN rows |-> IF Repeated(rows, k) THEN <<>> ELSE <<rows[k]>>])

\* The first failure, where one has failed.
Failure(vals) == LET bad == {k \in DOMAIN vals : Failed(vals[k])}
                 IN  vals[CHOOSE k \in bad : \A j \in bad : k <= j]
HasFailed(vals) == \E k \in DOMAIN vals : Failed(vals[k])

\* extract_timestamp.
IsTime(v) == Type(v) \in {"DateTime", "Int"}
AsTime(v) == IF Failed(v) \/ IsTime(v) THEN v ELSE Error

-----------------------------------------------------------------------------
(* Operations.                                                             *)

NoEntities == [id \in {} |-> Null]
EmptyDb(time) == [nodes |-> NoEntities, edges |-> NoEntities, versions |-> NoEntities, subgraphs |-> NoEntities,
                  members |-> NoEntities, hyperedges |-> NoEntities, clock |-> time,
                  next |-> [node |-> 1, edge |-> 1, subgraph |-> 1, hyperedge |-> 1]]

Without(f, ids) == [id \in DOMAIN f \ ids |-> f[id]]
Versions(id, db) == IF id \in DOMAIN db.versions THEN db.versions[id] ELSE <<>>

CreateNode(db, labels, props) ==
    [db EXCEPT !.nodes = Bind(@, db.next.node, [labels |-> labels, props |-> props]), !.next.node = @ + 1]

\* update_node: the state before it joins the versions.
UpdateNodeUnversioned(db, id, props) == [db EXCEPT !.nodes[id].props = props]    \* a mistake: no version
UpdateNode(db, id, props) ==
    [db EXCEPT !.versions = Bind(@, id, Append(Versions(id, db), db.nodes[id])), !.nodes[id].props = props]

\* delete_node: the edges of the node go with it; its versions, its memberships and its places in
\* hyperedges stay.
EdgesOf(id, db) == {e \in DOMAIN db.edges : id \in {db.edges[e].from, db.edges[e].to}}
DeleteNode(db, id) == [db EXCEPT !.nodes = Without(@, {id}), !.edges = Without(@, EdgesOf(id, db))]

\* create_edge: an end that is gone costs an id.
LoseEdgeId(db) == [db EXCEPT !.next.edge = @ + 1]
CreateEdge(db, edge) == [db EXCEPT !.edges = Bind(@, db.next.edge, edge), !.next.edge = @ + 1]
UpdateEdge(db, id, props) == [db EXCEPT !.edges[id].props = props]
DeleteEdge(db, id) == [db EXCEPT !.edges = Without(@, {id})]

\* create_subgraph and add_member for each of ids; create_hyperedge.
AddSubgraph(db, graph, ids) ==
    [db EXCEPT !.subgraphs = Bind(@, db.next.subgraph, graph),
               !.members = IF ids = <<>> THEN @ ELSE Bind(@, db.next.subgraph, ids),
               !.next.subgraph = @ + 1]
AddHyperedge(db, edge) == [db EXCEPT !.hyperedges = Bind(@, db.next.hyperedge, edge), !.next.hyperedge = @ + 1]

\* find_node, find_edge: the one of the least id, or <<>>.  With an index, find_node_with_index
\* finds a node of these labels and properties too.
Lowest(ids) == IF ids = {} THEN <<>> ELSE <<Min(ids)>>
PropsIn(props, all) == \A key \in DOMAIN props : key \in DOMAIN all /\ all[key] = props[key]
FindNode(db, labels, props) ==
    Lowest({id \in DOMAIN db.nodes : ToSet(labels) \subseteq ToSet(db.nodes[id].labels)
                                     /\ PropsIn(props, db.nodes[id].props)})
FindEdgeBack(db, from, to, type) ==      \* a mistake: the ends in the wrong order
    Lowest({e \in DOMAIN db.edges : db.edges[e].to = from /\ db.edges[e].from = to /\ db.edges[e].type = type})
FindEdge(db, from, to, type) ==
    Lowest({e \in DOMAIN db.edges : db.edges[e].from = from /\ db.edges[e].to = to /\ db.edges[e].type = type})

-----------------------------------------------------------------------------
(* Past states of nodes (operators/temporal_scan.rs).                      *)

Stamp(n) == IF "_updated_at" \in DOMAIN n.props THEN n.props["_updated_at"] ELSE At(n.props, "_created_at")
StampBy(n, time) == Stamp(n) # Null /\ Stamp(n)[2] <= time
Newest(past) == CHOOSE k \in past : \A j \in past : j <= k

\* find_node_state_at: <<>> for a node that was not there yet, else its state then.  Before its
\* first update it had its first version.
NodeAt(id, time, db) ==
    LET chain == Versions(id, db)
        past == {k \in DOMAIN chain : StampBy(chain[k], time)}
        created == IF id \in DOMAIN db.nodes THEN At(db.nodes[id].props, "_created_at") ELSE Null
    IN  IF created = Null THEN <<>>
        ELSE IF created[2] > time THEN <<>>
        ELSE IF StampBy(db.nodes[id], time) THEN <<db.nodes[id]>>
        ELSE IF past # {} THEN <<chain[Newest(past)]>>
        ELSE IF chain = <<>> THEN <<>>
        ELSE IF At(chain[1].props, "_created_at") # Null /\ chain[1].props["_created_at"][2] <= time THEN <<chain[1]>>
        ELSE <<>>
=============================================================================
