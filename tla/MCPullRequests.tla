--------------------------- MODULE MCPullRequests ---------------------------
(* Instances of PullRequests for TLC. *)
EXTENDS PullRequests

(* One project; of the two runs that change the least the newer is preferred. *)
MCTarget == [r \in Runs |-> "main"]
MCSize == [r \in Runs |-> IF r = 3 THEN 2 ELSE 1]
=============================================================================
