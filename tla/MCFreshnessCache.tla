-------------------------- MODULE MCFreshnessCache --------------------------
EXTENDS FreshnessCache, TLC
CONSTANTS c1, c2, c3, p1, p2

\* Two tasks that share a coordinator, and one of another process.
TwoAndOne == (c1 :> p1) @@ (c2 :> p1) @@ (c3 :> p2)

Symmetry == Permutations({c1, c2})
=============================================================================
