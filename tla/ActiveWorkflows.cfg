SPECIFICATION FairSpec
CONSTANTS
  t1 = t1
  t2 = t2
  p1 = p1
  Triggers <- One
  Pollers <- Poller
  MaxActivations = 4
  MaxRequests = 1
  MaxMishaps = 2
  BeyondHope = FALSE
INVARIANTS Inv OnlyTheLatestListens
 
CHECK_DEADLOCK FALSE
