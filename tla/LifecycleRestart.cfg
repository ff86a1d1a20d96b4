SPECIFICATION FairSpec
CONSTANTS
  e1 = e1
  e2 = e2
  e3 = e3
  r1 = r1
  r2 = r2
  r3 = r3
  r4 = r4
  Executions = {e1, e2}
  Runs = {r1, r2, r3, r4}
  execOf <- TwoAndTwo
  ProductionLimit = 1
  NoRun = NoRun
  Stoppable = {e1}
  Waiting = {}
  Timed = {}
  MaxFaults = 1
  MaxRestarts = 1
INVARIANTS UnfinishedHasRun
PROPERTIES EnqueuedIsServed
CHECK_DEADLOCK FALSE
