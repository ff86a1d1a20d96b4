------------------------ MODULE MCConcurrencyControl ------------------------
\* Instance of ConcurrencyControl for TLC: six calls, two of them for the same
\* execution (a waiting execution resumed twice), one of a mode without limit.
EXTENDS ConcurrencyControl

CONSTANTS c1, c2, c3, c4, c5, c6, e1, e2, e3, e4, e5

MCCalls == {c1, c2, c3, c4, c5, c6}
MCIds   == {e1, e2, e3, e4, e5}
MCIdOf  == (c1 :> e1) @@ (c2 :> e2) @@ (c3 :> e3) @@ (c4 :> e4) @@ (c5 :> e4) @@ (c6 :> e5)
MCModeOf ==
  [c \in MCCalls |-> IF c = c6 THEN "manual" ELSE IF c = c1 THEN "trigger" ELSE "webhook"]
MCModeOfEvaluation == [MCModeOf EXCEPT ![c6] = "evaluation"]

=============================================================================
