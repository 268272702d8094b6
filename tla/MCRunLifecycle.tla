--------------------------- MODULE MCRunLifecycle ---------------------------
(* Instances of RunLifecycle for TLC. *)
EXTENDS RunLifecycle, TLC

CONSTANTS c1, p1

(* One campaign of one project. *)
MCCampaignOf == [r \in Runs |-> c1]
MCProjectOf == [c \in {c1} |-> p1]

(* Actors are interchangeable. *)
Symmetric == Permutations(Workers) \cup Permutations(Calls)
=============================================================================
