\* One mishap, of any kind, in whatever order the other steps happen.
SPECIFICATION FairSpec
CONSTANTS
  r1 = r1
  r2 = r2
  w1 = w1
  w2 = w2
  Requests <- MCRequests
  Runners <- MCRunners
  MaxConcurrency = 1
  MaxOffers = 2
  MaxTasks = 5
  MaxMishaps = 1
INVARIANTS
  Inv
  OneExecutionPerRequest
  WaiterHasTask
PROPERTY EveryRequestAnswered
