------------------------------ MODULE Statements ------------------------------
(***************************************************************************)
(* Statements from their clauses on: each is analyzed, planned, optimized  *)
(* and executed (api/mod.rs); Sessions runs them.                          *)
(***************************************************************************)
EXTENDS Sessions, Semantics, Optimizer, Reads

CONSTANT StatementsMeant      \* sequences of clauses

\* execute_with_params.
Compiled(clauses) == Optimize(Plan(clauses))
Accepted == {clauses \in StatementsMeant : Analyze(clauses).ok /\ Ready(Plan(clauses))}
\* Statements by their numbers.
Meant == FoldSet(LAMBDA clauses, all : Append(all, clauses), <<>>, Accepted)
Numbers == DOMAIN Meant
Plans == [n \in Numbers |-> Compiled(Meant[n])]
NthPlan(n) == Plans[n]
Clauses(run) == IF run.text = <<>> THEN <<>> ELSE Meant[run.text[1]]

-----------------------------------------------------------------------------
(* Time.                                                                   *)

\* MATCH (n) AT TIME t answers what MATCH (n) answered at the end of t, of the nodes that have not
\* been deleted since: every update keeps the state before it, and of the states of one moment
\* the latest counts.
AllNodes(temporal) ==
    MatchClause(FALSE, <<PatternChain(NodePattern(<<"n">>, <<>>, <<>>), <<>>)>>, temporal, <<>>)
CONSTANT AskedKey   \* the property asked for
Asked == ReturnClause(FALSE, <<ReturnItem(VarExpr("n"), <<>>), ReturnItem(PropExpr(VarExpr("n"), AskedKey), <<>>)>>,
                      <<>>, <<>>, <<>>)
AskedPlan(temporal) == Compiled(<<AllNodes(temporal), Asked>>)
AskNow == AskedPlan(<<>>)
AskOf == [t \in 1..MaxClock |-> AskedPlan(<<AsOf(LitExpr(IntV(t)))>>)]
Recalls(now, then) ==
    IsOk(now) /\ now.rows = SelectSeq(then.rows, LAMBDA row : row[<<"n">>][2] \in DOMAIN db.nodes)
TimeTravel ==
    \A t \in DOMAIN past : Recalls(RunPlan(AskOf[t], db), RunPlan(AskNow, [db EXCEPT !.nodes = past[t]]))

-----------------------------------------------------------------------------
(* Snapshots.                                                              *)

Names(row) == {row[c] : c \in DOMAIN row}

\* A snapshot has the nodes its FROM MATCH finds at that moment, whatever RETURN calls them.
Plainly(c) == <<c.from, [Asked EXCEPT !.items = c.items]>>
SnapshotTakesMatched ==
    Len(Clauses(last)) = 1 /\ Clauses(last)[1].op = "CREATE SNAPSHOT" /\ last.failure = <<>> =>
      LET c == Clauses(last)[1]
          rows == RunPlan(Compiled(Plainly(c)), db).rows
          found == {v \in UNION {Names(row) : row \in ToSet(rows)} : Type(v) = "Node"}
          id == db.next.subgraph - 1
      IN  {<<"Node", m>> : m \in ToSet(IF id \in DOMAIN db.members THEN db.members[id] ELSE <<>>)} = found

-----------------------------------------------------------------------------
(* What the documentation says, and the code does not do.                  *)

\* MATCH of nodes, then CREATE of relationships between them, creates no node.
ChainNames(c) == ToSet(c.first.variable) \cup UNION {ToSet(c.steps[k].node.variable) : k \in DOMAIN c.steps}
PatternNodes(pattern) == UNION {ChainNames(c) : c \in ToSet(pattern)}
Relates(clauses) ==
    /\ Len(clauses) = 2 /\ clauses[1].op = "MATCH" /\ clauses[2].op = "CREATE"
    /\ \A c \in ToSet(clauses[2].pattern) :
         /\ c.first.variable # <<>> /\ \A k \in DOMAIN c.steps : c.steps[k].node.variable # <<>>
         /\ ChainNames(c) \subseteq PatternNodes(clauses[1].pattern)
RelatesMatched == [][Relates(Clauses(last')) => DOMAIN db'.nodes = DOMAIN db.nodes]_vars
=============================================================================
