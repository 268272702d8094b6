--------------------------- MODULE MCRunAdmission ---------------------------
(* RunLifecycle with the runs of two projects, for the in-flight limits. *)
EXTENDS RunLifecycle, TLC

CONSTANTS c1, c2, p1, p2,
          RunsOfSecond   \* the runs of the second project

MCCampaignOf == [r \in Runs |-> IF r \in RunsOfSecond THEN c2 ELSE c1]
MCProjectOf == [c \in Campaigns |-> IF c = c2 THEN p2 ELSE p1]

(* The runs of one project are interchangeable. *)
Symmetric == {f \in Permutations(Runs) : \A r \in RunsOfSecond : f[r] \in RunsOfSecond}
=============================================================================
