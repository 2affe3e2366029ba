----------------------------- MODULE MCNodePages -----------------------------
(* NodePages on small instances: a page has room for two small records or  *)
(* one large one; a huge record fits no page.                              *)
EXTENDS NodePages

CONSTANTS small, large, huge

MCUnits == [v \in Value |-> IF v = small THEN 1 ELSE IF v = large THEN 2 ELSE 3]

\* Nothing is claimed of a database that has lost a record: such states are not continued.
Unharmed == harm = {}
=============================================================================
