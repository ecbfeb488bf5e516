----------------------------- MODULE MCEnginePool -----------------------------
(* EnginePool with sessions s1 and s2 at the same address, one after the other. *)
EXTENDS EnginePool

CONSTANTS s1, s2, s3

MCKeyOf == [s \in Sessions |-> IF s = s3 THEN "k2" ELSE "k1"]
=============================================================================
