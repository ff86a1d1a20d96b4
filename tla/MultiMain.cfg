\* The checks of a process do not overlap; a living holder loses its key twice, a process goes once.
SPECIFICATION FairSpec
CONSTANTS
  h1 = h1
  h2 = h2
  e1 = e1
  NoHost = NoHost
  Hosts <- MCHosts
  Waits <- MCWaits
  MaxChecks = 1
  MaxExpiries = 2
  MaxExits = 1
INVARIANTS
  Inv
  SingleLeader
PROPERTIES OneLeaderInTheEnd WaitIsOver
