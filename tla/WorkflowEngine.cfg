SPECIFICATION Spec
CONSTANTS
  Nodes <- MCNodes
  NoNode <- MCNoNode
  Workflows <- MCWorkflows
  MaxRuns = 2
  MaxMishaps = 2
INVARIANTS Inv DataKept ServedUnlessRequired BranchOrder
PROPERTIES NoLateData EngineEnds
CHECK_DEADLOCK FALSE
