SPECIFICATION Spec
CONSTANTS
  t1 = t1
  t2 = t2
  p1 = p1
  Triggers <- Two
  Pollers <- NoPoller
  MaxActivations = 4
  MaxRequests = 0
  MaxMishaps = 1
  BeyondHope = TRUE
INVARIANTS KeepsOnTrying
CHECK_DEADLOCK FALSE
