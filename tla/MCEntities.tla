------------------------------ MODULE MCEntities ------------------------------
(* Hyperedges that tie together a subgraph and a node with the same number,  *)
(* and share both with each other.                                           *)
EXTENDS Entities, TLC

MCParticipantSets ==
  { {[kind |-> "Subgraph", raw |-> 1], [kind |-> "Node", raw |-> 1], [kind |-> "Node", raw |-> 2]} }

\* What a node's record holds is only stored and copied.
MCSymmetry == Permutations(State)
===============================================================================
