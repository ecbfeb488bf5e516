--------------------------- MODULE MCGenerationRun ---------------------------
(* GenerationRun with two calls in two processes; calls, processes and builds *)
(* are interchangeable.                                                       *)
EXTENDS GenerationRun, TLC

Symmetry == Permutations(Calls) \cup Permutations(Processes) \cup Permutations(Builds)
=============================================================================
