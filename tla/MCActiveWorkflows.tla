------------------------- MODULE MCActiveWorkflows -------------------------
(* Workflows with two nodes that listen.                                   *)
EXTENDS ActiveWorkflows

CONSTANTS t1, t2, p1
One == <<t1>>
Two == <<t1, t2>>
Poller == <<p1>>
NoPoller == <<>>
=============================================================================
