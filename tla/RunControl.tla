----------------------------- MODULE RunControl -----------------------------
(***************************************************************************)
(* The API's side of a run (apps/api/src/workflow-service.ts, called by    *)
(* routes/campaigns.ts and routes/runs.ts): starting runs, pausing and     *)
(* resuming campaigns, cancelling runs.  A request is a sequence of        *)
(* statements with no transaction around them, so each statement is a step *)
(* and the API process may die, or a statement fail, between two of them.  *)
(***************************************************************************)
EXTENDS RunTables

CONSTANTS
  MaxInflightPerProject,  \* policy.maxInflightRunsPerProject
  MaxInflightGlobal,      \* policy.maxInflightRunsGlobal
  MaxStarting,            \* bound on start requests handled at the same time
  Calls                   \* POST /runs/:id/cancel requests, one call each

ASSUME ControlAssumption ==
  /\ MaxInflightPerProject \in Nat
  /\ MaxInflightGlobal \in Nat
  /\ MaxStarting \in Nat \ {0}
  /\ IsFiniteSet(Runs)

(* How far a request to start a run got: the campaign was read as active, one *)
(* of the two counts was taken, both were, the run is there, and so its job.  *)
(* dead: it ended before it inserted the job.                                 *)
RequestState == {"none", "checked", "projectCounted", "globalCounted",
                 "admitted", "inserted", "done", "dead"}

NotCalled == [pc |-> "ready", run |-> NoRun, seen |-> "absent"]

Answered == [pc |-> "done", run |-> NoRun, seen |-> "absent"]

(* seen: the status that cancelRun's first select returned *)
CallState ==
  {NotCalled, Answered} \cup
  [pc : {"write", "dropJob"}, run : Runs, seen : Inflight]

ControlTypeOK ==
  /\ request \in [Runs -> RequestState]
  /\ call \in [Calls -> CallState]

ControlInit ==
  /\ request = [r \in Runs |-> "none"]
  /\ call = [k \in Calls |-> NotCalled]

-----------------------------------------------------------------------------
(* enqueueCampaignRun *)

(* Requests between the read of their campaign and the insert of their run. *)
Starting == {r \in Runs : request[r] \in {"checked", "projectCounted",
                                          "globalCounted", "admitted"}}

CheckCampaign(r) ==
  /\ request[r] = "none"
  /\ lifecycle[CampaignOf[r]] # "paused"
  /\ Cardinality(Starting) < MaxStarting
  /\ request' = [request EXCEPT ![r] = "checked"]
  /\ UNCHANGED <<tableVars, call, worker>>

(* Mutants: a project, or the system, is full only above its limit. *)
ProjectIsOverfull(c) == Cardinality(ProjectInflight(c)) > MaxInflightPerProject
GlobalIsOverfull == Cardinality(InflightRuns) > MaxInflightGlobal

ProjectIsFull(c) == Cardinality(ProjectInflight(c)) >= MaxInflightPerProject
GlobalIsFull == Cardinality(InflightRuns) >= MaxInflightGlobal

(* The two counts are statements of their own, issued together. *)
CountProject(r) ==
  /\ request[r] \in {"checked", "globalCounted"}
  /\ ~ProjectIsFull(CampaignOf[r])
  /\ request' = [request EXCEPT
       ![r] = IF @ = "checked" THEN "projectCounted" ELSE "admitted"]
  /\ UNCHANGED <<tableVars, call, worker>>

CountGlobal(r) ==
  /\ request[r] \in {"checked", "projectCounted"}
  /\ ~GlobalIsFull
  /\ request' = [request EXCEPT
       ![r] = IF @ = "checked" THEN "globalCounted" ELSE "admitted"]
  /\ UNCHANGED <<tableVars, call, worker>>

(* RunThrottleError: 429, and the client may ask again. *)
Throttle(r) ==
  /\ \/ request[r] \in {"checked", "globalCounted"} /\ ProjectIsFull(CampaignOf[r])
     \/ request[r] \in {"checked", "projectCounted"} /\ GlobalIsFull
  /\ request' = [request EXCEPT ![r] = "none"]
  /\ UNCHANGED <<tableVars, call, worker>>

InsertRun(r) ==
  /\ request[r] = "admitted"
  /\ run' = [run EXCEPT ![r].status = "queued"]
  /\ request' = [request EXCEPT ![r] = "inserted"]
  /\ UNCHANGED <<job, lifecycle, faults, call, worker>>

InsertJob(r) ==
  /\ request[r] = "inserted"
  /\ job' = [job EXCEPT ![r] = QueuedJobRow]
  /\ request' = [request EXCEPT ![r] = "done"]
  /\ UNCHANGED <<run, lifecycle, faults, call, worker>>

(* The process dies, or a statement fails, before the job is there. *)
EnqueueDies(r) ==
  /\ request[r] \in RequestState \ {"none", "done", "dead"}
  /\ SpendFault
  /\ request' = [request EXCEPT ![r] = "dead"]
  /\ UNCHANGED <<run, job, lifecycle, call, worker>>

-----------------------------------------------------------------------------
(* pauseCampaign and resumeCampaign *)

Pause(c) ==
  /\ lifecycle' = [lifecycle EXCEPT ![c] = "paused"]
  /\ UNCHANGED <<run, job, faults, processVars>>

Resume(c) ==
  /\ lifecycle' = [lifecycle EXCEPT ![c] = "active"]
  /\ UNCHANGED <<run, job, faults, processVars>>

-----------------------------------------------------------------------------
(* cancelRun *)

(* The run's row is read; a terminal run answers "already terminal" and      *)
(* nothing follows.                                                          *)
ReadRun(k, r) ==
  /\ call[k] = NotCalled
  /\ run[r].status \in Inflight
  /\ call' = [call EXCEPT
       ![k] = [pc |-> "write", run |-> r, seen |-> run[r].status]]
  /\ UNCHANGED <<tableVars, request, worker>>

(* The update names the run by id only: it writes over whatever the row has  *)
(* become since it was read, and over its summary with the one read then.    *)
CancelledRow(seen) ==
  [status  |-> IF seen = "queued" THEN "cancelled" ELSE "cancelling",
   summary |-> "cancel"]

WriteCancel(k) ==
  /\ call[k].pc = "write"
  /\ run' = [run EXCEPT ![call[k].run] = CancelledRow(call[k].seen)]
  /\ call' = [call EXCEPT ![k] =
       IF @.seen = "queued" THEN [@ EXCEPT !.pc = "dropJob"] ELSE Answered]
  /\ UNCHANGED <<job, lifecycle, faults, request, worker>>

(* The job of a run that was read as queued; there may be none yet. *)
DropJob(k) ==
  LET r == call[k].run IN
  /\ call[k].pc = "dropJob"
  /\ job' = IF job[r].status = "absent" THEN job
            ELSE [job EXCEPT ![r] = SettledRow(@, "cancelled")]
  /\ call' = [call EXCEPT ![k] = Answered]
  /\ UNCHANGED <<run, lifecycle, faults, request, worker>>

CancelDies(k) ==
  /\ call[k].pc \in {"write", "dropJob"}
  /\ SpendFault
  /\ call' = [call EXCEPT ![k] = NotCalled]
  /\ UNCHANGED <<run, job, lifecycle, request, worker>>

Enqueue(r) ==
  CountProject(r) \/ CountGlobal(r) \/ Throttle(r) \/ InsertRun(r) \/ InsertJob(r)
Cancel(k) == WriteCancel(k) \/ DropJob(k)

ControlNext ==
  \/ \E r \in Runs : CheckCampaign(r) \/ Enqueue(r) \/ EnqueueDies(r)
  \/ \E c \in Campaigns : Pause(c) \/ Resume(c)
  \/ \E k \in Calls : (\E r \in Runs : ReadRun(k, r)) \/ Cancel(k) \/ CancelDies(k)
=============================================================================
