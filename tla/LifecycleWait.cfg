SPECIFICATION FairSpec
CONSTANTS
  e1 = e1
  e2 = e2
  e3 = e3
  r1 = r1
  r2 = r2
  r3 = r3
  r4 = r4
  Executions = {e1}
  Runs = {r1, r2, r3}
  execOf <- ThreeRuns
  ProductionLimit = 2
  NoRun = NoRun
  Stoppable = {e1}
  Waiting = {r1}
  Timed = {}
  MaxFaults = 1
  MaxRestarts = 0
INVARIANTS NoStaleEntry
PROPERTIES WaitIsOver
CHECK_DEADLOCK FALSE
