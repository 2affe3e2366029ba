\* Bounds: two subgraphs, two hyperedges, two versions.
SPECIFICATION Spec
CONSTANTS
  Node = {1, 2}
  State = {x, y}
  NoNode = NoNode
  MaxSubgraphs = 2
  MaxHyperedges = 2
  MaxVersions = 2
  ParticipantSets <- MCParticipantSets
SYMMETRY MCSymmetry
INVARIANTS
  IndexesAgree
  RestartFinds
  IdsGivenOnce
PROPERTIES
  HistoryGrows
