--------------------------- MODULE MCUpdateInstall ---------------------------
(* UpdateInstall with three releases, or two, and a new engine in the second. *)
EXTENDS UpdateInstall

CONSTANTS c1, c2, c3, e1, e2

MCCorpusOf == <<c1, c2, c3>>
Upgrade == <<e1, e2, e2>>

MCCorpusTwo == <<c1, c2>>
UpgradeTwo == <<e1, e2>>
=============================================================================
