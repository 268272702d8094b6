----------------------------- MODULE RunTables -----------------------------
(***************************************************************************)
(* The rows of Postgres that the control plane and the workers share       *)
(* (runs, run_jobs and campaigns, apps/api/src/db/schema.sql) and the      *)
(* statements of the run queue on them (apps/api/src/run-queue.ts), each   *)
(* an operator on the row it updates.  Every statement is one transaction, *)
(* so the modules that use them take each in one step.                     *)
(***************************************************************************)
EXTENDS Integers, FiniteSets

CONSTANTS
  Runs,        \* ids that enqueueCampaignRun may hand out
  NoRun,       \* not one of them
  Campaigns,   \* rows of campaigns
  CampaignOf,  \* CampaignOf[r]: the campaign a run is started for
  ProjectOf,   \* ProjectOf[c]: the project of a campaign
  Workers,     \* worker ids; a started process takes a fresh one, so an id
               \*   whose process died never comes back
  NoWorker,    \* lease_owner is null
  MaxAttempts, \* run_jobs.max_attempts, 3 in enqueueCampaignRun
  MaxFaults    \* bound on crashes, stalls and failing statements in a behaviour

ASSUME TablesAssumption ==
  /\ NoWorker \notin Workers
  /\ NoRun \notin Runs
  /\ CampaignOf \in [Runs -> Campaigns]
  /\ MaxAttempts \in Nat \ {0}
  /\ MaxFaults \in Nat

VARIABLES
  run,         \* runs: status, and what its summary was last written for
  job,         \* run_jobs: status, lease, attempt_count, next_attempt_at
  lifecycle,   \* campaigns.lifecycle_status
  faults,      \* faults still to happen
  (* the local state of the processes: modules RunControl and RunWorker *)
  request,     \* request[r]: how far the enqueue request of run r got
  call,        \* call[k]: a cancel request, what it read and where it is
  worker       \* worker[w]: where worker w is, with which job

tableVars == <<run, job, lifecycle, faults>>
controlVars == <<request, call>>
processVars == <<request, call, worker>>

(* The statuses of a run; "absent" is no row. *)
Inflight == {"queued", "running", "cancelling"}
Terminal == {"completed", "needs_review", "blocked", "failed", "cancelled"}
CancelRequested == {"cancelling", "cancelled"}

(* What the summary of a run tells: nothing yet, a cancel request, the       *)
(* outcome of an execution, or retry_exhausted.                              *)
Summaries == {"empty", "cancel", "outcome", "exhausted"}

RunRow == [status : Inflight \cup Terminal \cup {"absent"}, summary : Summaries]

SettledStatuses == {"completed", "failed", "cancelled"}

(* lease: lease_expires_at is null, in the future, or in the past;            *)
(* due: next_attempt_at is past, or a backoff delay ahead.                    *)
JobRow == [status   : {"absent", "queued", "running"} \cup SettledStatuses,
           owner    : Workers \cup {NoWorker},
           lease    : {"none", "live", "expired"},
           attempts : Nat,
           due      : {"now", "later"}]

NoRunRow == [status |-> "absent", summary |-> "empty"]

NoJobRow == [status |-> "absent", owner |-> NoWorker, lease |-> "none",
             attempts |-> 0, due |-> "later"]

QueuedJobRow == [status |-> "queued", owner |-> NoWorker, lease |-> "none",
                 attempts |-> 0, due |-> "now"]

TablesTypeOK ==
  /\ run \in [Runs -> RunRow]
  /\ job \in [Runs -> JobRow]
  /\ lifecycle \in [Campaigns -> {"active", "paused"}]
  /\ faults \in 0..MaxFaults

TablesInit ==
  /\ run = [r \in Runs |-> NoRunRow]
  /\ job = [r \in Runs |-> NoJobRow]
  /\ lifecycle = [c \in Campaigns |-> "active"]
  /\ faults = MaxFaults

-----------------------------------------------------------------------------
(* The statements of run-queue.ts. *)

(* Mutants of Claimable: any running job is a candidate, whatever its lease;  *)
(* no running job is, so nothing is reclaimed.                                *)
ClaimableWhileLeased(r) ==
  /\ lifecycle[CampaignOf[r]] = "active"
  /\ run[r].status \in Inflight
  /\ \/ job[r].status = "queued" /\ job[r].due = "now"
     \/ job[r].status = "running"

ClaimableQueuedOnly(r) ==
  /\ lifecycle[CampaignOf[r]] = "active"
  /\ run[r].status \in Inflight
  /\ job[r].status = "queued" /\ job[r].due = "now"

(* The candidates of claimNextRunJob.  It prefers the oldest, but SKIP LOCKED *)
(* passes over a row that another statement holds at that moment: any         *)
(* candidate may be the one claimed.                                          *)
Claimable(r) ==
  /\ lifecycle[CampaignOf[r]] = "active"
  /\ run[r].status \in Inflight
  /\ \/ /\ job[r].status = "queued"
        /\ job[r].due = "now"
        /\ job[r].lease # "live"
     \/ /\ job[r].status = "running"
        /\ job[r].lease = "expired"

(* claimNextRunJob's update.  It compares attempt_count with nothing. *)
ClaimedRow(row, w) ==
  [row EXCEPT !.status = "running", !.owner = w, !.lease = "live",
              !.attempts = @ + 1, !.due = "now"]

(* completeRunJob on a row the caller owns: a status that ends the job, and  *)
(* no lease.                                                                 *)
SettledRow(row, status) ==
  [row EXCEPT !.status = status, !.owner = NoWorker, !.lease = "none"]

(* Mutant of RequeuedRow: the lease is not cleared. *)
RequeuedRowKeepsLease(row) == [row EXCEPT !.status = "queued", !.due = "later"]

(* requeueRunJob on a row the caller owns: due again once the delay is over. *)
RequeuedRow(row) ==
  [row EXCEPT !.status = "queued", !.owner = NoWorker, !.lease = "none",
              !.due = "later"]

(* extendRunJobLease: the where clause, which lets an expired lease that     *)
(* nobody reclaimed revive, and the update.                                  *)
Extendable(r, w) == job[r].status = "running" /\ job[r].owner = w
ExtendedRow(row) == [row EXCEPT !.lease = "live"]

(* The `lease_owner = $4` of completeRunJob and requeueRunJob. *)
Owns(w, r) == job[r].owner = w

(* countInflightRuns: the runs that hold a slot. *)
InflightRuns == {r \in Runs : run[r].status \in Inflight}
ProjectInflight(c) ==
  {r \in InflightRuns : ProjectOf[CampaignOf[r]] = ProjectOf[c]}

-----------------------------------------------------------------------------
(* Time, as the statements see it through now(). *)

(* The backoff of a requeued job is over. *)
BackoffElapses(r) ==
  /\ job[r].status = "queued" /\ job[r].due = "later"
  /\ job' = [job EXCEPT ![r].due = "now"]
  /\ UNCHANGED <<run, lifecycle, faults, processVars>>

(* One of the bounded faults happens. *)
SpendFault ==
  /\ faults > 0
  /\ faults' = faults - 1
=============================================================================
