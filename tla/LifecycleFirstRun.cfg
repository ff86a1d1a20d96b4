SPECIFICATION FairSpec
CONSTANTS
  e1 = e1
  e2 = e2
  e3 = e3
  r1 = r1
  r2 = r2
  r3 = r3
  r4 = r4
  Executions = {e1, e2, e3}
  Runs = {r1, r2, r3}
  execOf <- OneEach
  ProductionLimit = 1
  NoRun = NoRun
  Stoppable = {e1}
  Waiting = {}
  Timed = {e2}
  MaxFaults = 0
  MaxRestarts = 0
INVARIANTS Inv
PROPERTIES StoppedInQueueIsFinal LimitSpec EveryExecutionEnds
CHECK_DEADLOCK FALSE
