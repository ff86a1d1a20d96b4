---------------------------- MODULE MCMultiMain ----------------------------
(* Two main processes and an execution that waits.                         *)
EXTENDS MultiMain

CONSTANTS h1, h2, e1
MCHosts == {h1, h2}
MCWaits == {e1}
=============================================================================
