------------------------------- MODULE Sessions -------------------------------
(***************************************************************************)
(* Statements one after the other on one open engine (api/mod.rs), while   *)
(* time goes on: a statement is its plan, which the executor runs on what  *)
(* the statements before it have left.  What a statement has written when  *)
(* it fails stays written.                                                 *)
(*                                                                         *)
(* Where the plans come from is module Statements.                         *)
(***************************************************************************)
EXTENDS Writes

CONSTANTS Texts, PlanOf(_),     \* what statements are written as, and the plan of each
          Databases,            \* engines at time 1, with what statements have made
          Fuses,                \* hooks that succeed before one answers an error (see Writes)
          MaxClock,             \* bounds of the model: time,
          MaxStatements,        \* statements,
          MaxIds, MaxVersions   \* ids of each kind, versions of a node

VARIABLES db,       \* the engine
          last,     \* the statement just run: its text (at most one), its plan, its rows at the end, its failure
          past,     \* for every moment over, the nodes there were at its end
          fuse,     \* what is left of the one in Fuses
          count     \* statements run so far

vars == <<db, last, past, fuse, count>>

-----------------------------------------------------------------------------
(* Engines.                                                                *)

\* A time stamp, no later than `by`.
IsStamp(v, by) == v = <<"DateTime", v[2]>> /\ v[2] \in 1..by
\* Properties that say when they were made and when they were changed last.
Dated(props, by) ==
    /\ SystemKeys \subseteq DOMAIN props
    /\ IsStamp(props["_updated_at"], by)
    /\ IsStamp(props["_created_at"], props["_updated_at"][2])

IsDb(d) ==
    /\ d = [nodes |-> d.nodes, edges |-> d.edges, versions |-> d.versions, subgraphs |-> d.subgraphs,
            members |-> d.members, hyperedges |-> d.hyperedges, clock |-> d.clock, next |-> d.next]
    /\ d.next = [node |-> d.next.node, edge |-> d.next.edge, subgraph |-> d.next.subgraph,
                 hyperedge |-> d.next.hyperedge]
    /\ d.clock \in Nat \ {0} /\ d.next.node \in Nat /\ d.next.edge \in Nat

\* The ids given lie below the next one.
IdsGiven(d) ==
    /\ DOMAIN d.nodes \cup DOMAIN d.versions \subseteq 0..(d.next.node - 1)
    /\ DOMAIN d.edges \subseteq 0..(d.next.edge - 1)
NodesDated(d) ==
    \A id \in DOMAIN d.nodes :
      /\ d.nodes[id] = [labels |-> d.nodes[id].labels, props |-> d.nodes[id].props]
      /\ Dated(d.nodes[id].props, d.clock)
VersionsDated(d) ==
    \A id \in DOMAIN d.versions :
      /\ Len(d.versions[id]) \in Nat
      /\ d.versions[id] = [k \in 1..Len(d.versions[id]) |-> d.versions[id][k]]
      /\ \A k \in DOMAIN d.versions[id] : Dated(d.versions[id][k].props, d.clock)
EdgesDated(d) ==
    \A e \in DOMAIN d.edges :
      /\ d.edges[e] = [type |-> d.edges[e].type, from |-> d.edges[e].from, to |-> d.edges[e].to,
                       props |-> d.edges[e].props]
      /\ Dated(d.edges[e].props, d.clock)
\* No edge dangles.
EndsExist(d) == \A e \in DOMAIN d.edges : {d.edges[e].from, d.edges[e].to} \subseteq DOMAIN d.nodes
WellKept(d) == IsDb(d) /\ IdsGiven(d) /\ NodesDated(d) /\ VersionsDated(d) /\ EdgesDated(d) /\ EndsExist(d)

ASSUME DatabasesAssumption == \A d \in Databases : WellKept(d) /\ d.clock = 1

-----------------------------------------------------------------------------
Nothing == [text |-> <<>>, plan |-> <<>>, rows |-> <<>>, failure |-> <<>>]
Init == /\ db \in Databases
        /\ last = Nothing /\ past = <<>> /\ count = 0 /\ fuse \in Fuses

\* execute_with_params.
InBounds(d) == /\ \A kind \in DOMAIN d.next : d.next[kind] <= MaxIds[kind] + 1
               /\ \A id \in DOMAIN d.versions : Len(d.versions[id]) <= MaxVersions
Run1(text, plan) ==
    /\ count < MaxStatements /\ count' = count + 1
    /\ \E end \in {Execute(plan, db, fuse)} :
         /\ InBounds(end.db)
         /\ db' = end.db /\ fuse' = end.fuse
         /\ last' = [text |-> <<text>>, plan |-> plan, rows |-> end.rows, failure |-> end.failure]
    /\ UNCHANGED past

\* The next millisecond.
Tick == /\ db.clock < MaxClock
        /\ db' = [db EXCEPT !.clock = @ + 1]
        /\ past' = Append(past, db.nodes)
        /\ last' = Nothing /\ UNCHANGED <<fuse, count>>

Next == Tick \/ \E text \in Texts : Run1(text, PlanOf(text))
Spec == Init /\ [][Next]_vars

-----------------------------------------------------------------------------
(* Time.                                                                   *)

\* find_node_state_at answers for the end of every moment over, and every node that has not been
\* deleted since, the very state it had then, and nothing for a node that was not there: through
\* updates of one moment or many, by SET, REMOVE and MERGE, and statements that failed half way.
PastFound ==
    \A t \in DOMAIN past, id \in DOMAIN db.nodes :
      NodeAt(id, t, db) = IF id \in DOMAIN past[t] THEN <<past[t][id]>> ELSE <<>>

\* Time stamps tell the truth: what changed has the time of now, and the time of creation never
\* changes.
Tells(f, g, time) ==
    \A id \in DOMAIN f \cap DOMAIN g :
      /\ g[id].props["_created_at"] = f[id].props["_created_at"]
      /\ g[id] # f[id] => g[id].props["_updated_at"] = <<"DateTime", time>>
StampsTell == [][Tells(db.nodes, db'.nodes, db.clock) /\ Tells(db.edges, db'.edges, db.clock)]_vars

-----------------------------------------------------------------------------
(* Entities.                                                               *)

\* Both ends of every edge exist, after every statement, failed ones included.
EdgesAttached == EndsExist(db)

\* Nodes and edges go away only in a statement with DELETE, and no id is given twice: what is there
\* after a statement and was not there before it has an id from those that were to be given next,
\* which only go up.
HasDelete(plan) == \E k \in 1..Count(plan) : plan[k].op = "DeleteOp"
OnlyDeletesDelete ==
    [][/\ \/ HasDelete(last'.plan)
          \/ DOMAIN db.nodes \subseteq DOMAIN db'.nodes /\ DOMAIN db.edges \subseteq DOMAIN db'.edges
       /\ DOMAIN db'.nodes \ DOMAIN db.nodes \subseteq db.next.node..(db'.next.node - 1)
       /\ DOMAIN db'.edges \ DOMAIN db.edges \subseteq db.next.edge..(db'.next.edge - 1)
       /\ db.next.node <= db'.next.node /\ db.next.edge <= db'.next.edge]_vars

\* A plan that reads, and deletes at its end.
DeletesLast(plan) ==
    /\ Count(plan) > 0 /\ plan[Count(plan)].op = "DeleteOp"
    /\ \A k \in 1..(Count(plan) - 1) : plan[k].op \notin Writers
\* The nodes, or edges, that are values of the expressions of o in rows.
NamedBy(o, rows, type) ==
    LET vals == {ValueIn(o.exprs[j], rows[k], db) : j \in 1..Count(o.exprs), k \in 1..Count(rows)}
    IN  {v[2] : v \in {v \in vals : Type(v) = type}}

\* DELETE deletes what its rows name and nothing else, with DETACH the edges of the nodes deleted
\* too; and all of it, if it does not fail half way.
GoneAsNamed(o, rows, failure) ==
    LET nodes == DOMAIN db.nodes \ DOMAIN db'.nodes
        edges == DOMAIN db.edges \ DOMAIN db'.edges
        detached == IF o.detach THEN UNION {EdgesOf(id, db) : id \in nodes} ELSE {}
    IN  /\ nodes \subseteq NamedBy(o, rows, "Node") /\ edges \subseteq NamedBy(o, rows, "Edge") \cup detached
        /\ failure = <<>> => /\ NamedBy(o, rows, "Node") \subseteq nodes
                             /\ NamedBy(o, rows, "Edge") \subseteq edges
DeletesNamed == [][DeletesLast(last'.plan) => GoneAsNamed(last'.plan[Count(last'.plan)], last'.rows, last'.failure)]_vars

\* MERGE of nodes that are looked for and their relationships, run again, finds what it has found or
\* made, and makes nothing.  A node without labels is looked for where it comes first and has
\* properties.
Labelled(n) == n.labels # <<>>
Repeatable(plan) ==
    /\ Count(plan) = 1 /\ plan[1].op = "MergeOp" /\ plan[1].on = <<>>
    /\ \A k \in 1..Count(plan[1].pattern) :
         LET chain == plan[1].pattern[k]
         IN  /\ Labelled(chain.first) \/ Entries(chain.first.properties) # <<>>
             /\ \A j \in 1..Count(chain.steps) : Labelled(chain.steps[j].node)
Finds(again) == again.db = db /\ again.rows = last.rows /\ Going(again)
MergeIdempotent == Repeatable(last.plan) /\ last.failure = <<>> => Finds(Execute(last.plan, db, -1))
=============================================================================
