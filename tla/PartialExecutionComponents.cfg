SPECIFICATION Spec
CONSTANTS
  N = 4
  Destinations = {4}
  Merges = {4}
  Inputs = 1
  MaxConnections = 5
  Data = {"none"}
  Special = FALSE
INVARIANTS ComponentsAreAll
CHECK_DEADLOCK FALSE
