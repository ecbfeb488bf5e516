------------------------ MODULE MCComputeOperations ------------------------
(* ComputeOperations with a few calls, all but one on the same session.    *)
EXTENDS ComputeOperations

CONSTANTS s1, s2, elsewhere

MCSessionOf == [c \in Calls |-> IF c = elsewhere THEN s2 ELSE s1]
=============================================================================
