-------------------------- MODULE MCSessionCallGate --------------------------
(* SessionCallGate with a few calls, all but one on the same session.       *)
EXTENDS SessionCallGate

CONSTANTS s1, s2, elsewhere

MCSessionOf == [c \in Calls |-> IF c = elsewhere THEN s2 ELSE s1]
=============================================================================
