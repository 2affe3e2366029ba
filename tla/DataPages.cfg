CONSTANTS
  PageSize = 76
  NodeShapes <- MCNodeShapes
  EdgeShapes <- MCEdgeShapes
  Subgraphs <- MCSubgraphs
  Hyperedges <- MCHyperedges
  Labels <- MCLabels
  MaxCreated = 2
  MaxVersions = 2
  OldVersions = {1, 2, 4}
  MaxPage = 7
SPECIFICATION Spec
INVARIANT LoadFinds
CHECK_DEADLOCK FALSE
