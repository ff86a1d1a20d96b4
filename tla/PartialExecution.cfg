SPECIFICATION Spec
CONSTANTS
  N = 4
  Destinations = {4}
  Merges = {4}
  Inputs = 2
  MaxConnections = 5
  Data = {"none", "failed", "empty", "items"}
  Special = TRUE
INVARIANTS SubgraphIsEveryWay StartNodesServe EverySourceOnce SomethingRuns
CHECK_DEADLOCK FALSE
