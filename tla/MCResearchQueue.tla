--------------------------- MODULE MCResearchQueue ---------------------------
(* An instance of ResearchQueue for TLC: calls and reviews are interchangeable. *)
EXTENDS ResearchQueue, TLC

CONSTANTS r1, r2, h1

\* Two runs that collect the same character, one after the other.
TwoRuns == 1 :> r1 @@ 2 :> r2
OneCharacter == [k \in 1 .. 2 |-> h1]

Symmetry == Permutations(Calls) \cup Permutations(Reviews)
=============================================================================
