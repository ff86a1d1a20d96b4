SPECIFICATION Spec
CONSTANTS
  c1 = c1
  c2 = c2
  c3 = c3
  c4 = c4
  c5 = c5
  c6 = c6
  e1 = e1
  e2 = e2
  e3 = e3
  e4 = e4
  e5 = e5
  Calls <- MCCalls
  ExecutionIds <- MCIds
  idOf <- MCIdOf
  modeOf <- MCModeOfEvaluation
  ProductionLimit = 2
  ExecutionsMode = "regular"
INVARIANTS TypeOK SlotAccounting NoIdleCapacity BoundedOvershoot QueueMatchesWaiters
PROPERTIES FirstComeFirstServed FrozenOnShutdown
CHECK_DEADLOCK FALSE
