-------------------------- MODULE InstalledRelease --------------------------
(***************************************************************************)
(* What the self-update promises to whoever holds the corpus guard and so  *)
(* finds no install under way: the user-data directory goes from one whole *)
(* release to another that is not older, in one step, or stays as it was.  *)
(* A corpus update by hand replaces the corpus alone.  A process that dies *)
(* inside an install leaves the files of the new release up to some point, *)
(* the old ones after it, and perhaps none at it; the metadata come last,  *)
(* so they name the new release only when all of it is in place.           *)
(* UpdateInstall is shown to implement this module.                        *)
(***************************************************************************)
EXTENDS Integers

CONSTANTS MaxRelease, CorpusOf, EngineOf, Absent

VARIABLES published,      \* the latest release
          shown,          \* the directory, as a holder of the guard reads it
          torn            \* some process has died inside an install

view == <<published, shown, torn>>

Releases == 1 .. MaxRelease
Order == [corpus |-> 1, certificate |-> 2, pob |-> 3, installed |-> 4]
Release(r) ==
    [corpus |-> CorpusOf[r], certificate |-> CorpusOf[r], pob |-> EngineOf[r],
     installed |-> [version |-> r, engine |-> EngineOf[r],
                    corpus |-> CorpusOf[r], certificate |-> CorpusOf[r]]]

version == IF shown["installed"] = Absent THEN 0 ELSE shown["installed"].version

Init ==
    /\ published = 0
    /\ shown = [f \in DOMAIN Order |-> Absent]
    /\ torn = FALSE

\* The files before the n-th are those of release r, but for the engine if that
\* is kept; the n-th is missing if there is a gap.
Replaced(r, n, gap, keep) ==
    [f \in DOMAIN Order |->
        IF keep /\ f = "pob" THEN shown[f]
        ELSE IF Order[f] < n THEN Release(r)[f]
        ELSE IF gap /\ Order[f] = n THEN Absent
        ELSE shown[f]]

\* The engine is kept when it is that of the release; whether it is can be
\* wrong once a process has died.
MayInstall(r, keep) ==
    /\ r \in 1 .. published /\ r >= version
    /\ keep => torn \/ shown["pob"] = EngineOf[r]

Publish ==
    /\ published < MaxRelease
    /\ published' = published + 1
    /\ UNCHANGED <<shown, torn>>

Install(r) ==
    /\ \E keep \in BOOLEAN :
        /\ MayInstall(r, keep)
        /\ shown' = Replaced(r, 5, FALSE, keep)
    /\ UNCHANGED <<published, torn>>

Die(r) ==
    /\ \E keep, gap \in BOOLEAN, n \in 1 .. 5 :
        /\ MayInstall(r, keep)
        /\ shown' = Replaced(r, n, gap, keep)
    /\ torn' = TRUE
    /\ UNCHANGED published

UpdateCorpus ==
    /\ \E r \in Releases : shown' = [shown EXCEPT !["corpus"] = CorpusOf[r]]
    /\ UNCHANGED <<published, torn>>

Next == Publish \/ UpdateCorpus \/ \E r \in Releases : Install(r) \/ Die(r)

Spec == Init /\ [][Next]_view
=============================================================================
