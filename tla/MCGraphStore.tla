----------------------------- MODULE MCGraphStore -----------------------------
(* GraphStore on small instances.                                          *)
EXTENDS GraphStore, TLC

CONSTANTS x, y, u, v

MCSymmetry == Permutations({x, y}) \cup Permutations({u, v})

\* Nothing is claimed of a graph that a harm has reached: such states are not continued.
Unharmed == harm = {}

\* A record in which something stands more than once is followed until a further edge is made.
Repeats(n) == (\E l \in LabelId : nodes[n].labels[l] > 1) \/ Cardinality(Entries(nodes[n].values, Value)) > 1
RepeatsBriefly == /\ nextEdge > 1 => \A n \in LiveNode : ~ Repeats(n)
                  /\ nextEdge > 2 => \A e \in LiveEdge, w \in EdgeValue : edges[e].values[w] <= 1
=============================================================================
