SPECIFICATION FairSpec
CONSTANTS
  main = main
  webhook = webhook
  w1 = w1
  w2 = w2
  e1 = e1
  NoOne = NoOne
  Servers <- MCServers
  Enqueuers <- MCEnqueuers
  Recoverers <- MCRecoverers
  Workers <- MCWorkers
  Executions = {e1}
  Stoppable = {e1}
  OtherJobs = TRUE
  StalledCounts = {0, 1}
  Concurrency = 1
  MaxMishaps = 1
INVARIANTS Inv SuccessIsFinal
PROPERTIES EveryRowEnds EveryEntrySettles
CHECK_DEADLOCK FALSE
