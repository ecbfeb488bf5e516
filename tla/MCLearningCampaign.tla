------------------------- MODULE MCLearningCampaign -------------------------
(* An instance of LearningCampaign for TLC.  Of the three agents, the third    *)
(* shares its task with the first and its thread with the second.  The seed's  *)
(* second lesson has superseded its first.                                     *)
EXTENDS LearningCampaign, TLC

CONSTANTS t1, t2, h1, h2, a, b

ThreeAgents == {<<t1, h1>>, <<t2, h2>>, <<t1, h2>>}
SeedEvents == <<Lesson(1, a), Lesson(2, b), Correction(3, "supersede", 1, None, 2)>>
Symmetry == Permutations(Servers)
=============================================================================
