------------------------ MODULE MCExecutionLifecycle ------------------------
\* Instances of ExecutionLifecycle for TLC: runs r1..r4 spread over the executions.
EXTENDS ExecutionLifecycle

CONSTANTS e1, e2, e3, r1, r2, r3, r4

OneEach   == (r1 :> e1) @@ (r2 :> e2) @@ (r3 :> e3)
TwoAndTwo == (r1 :> e1) @@ (r2 :> e1) @@ (r3 :> e2) @@ (r4 :> e2)
ThreeRuns == (r1 :> e1) @@ (r2 :> e1) @@ (r3 :> e1)

=============================================================================
