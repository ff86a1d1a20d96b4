--------------------------- MODULE MCScalingQueue ---------------------------
(* A main that recovers, a server that executions reach, two workers.      *)
EXTENDS ScalingQueue

CONSTANTS main, webhook, w1, w2, e1
MCServers == {main, webhook}
MCWorkers == {w1, w2}
MCRecoverers == {main}
MCEnqueuers == {webhook}
=============================================================================
