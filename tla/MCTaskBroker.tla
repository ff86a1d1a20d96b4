---------------------------- MODULE MCTaskBroker ----------------------------
(* Two nodes ask for a task each, of runners with two ids.                 *)
EXTENDS TaskBroker

CONSTANTS r1, r2, w1, w2
MCRequests == {r1, r2}
MCRunners  == {w1, w2}
=============================================================================
