----------------------------- MODULE RunWorker -----------------------------
(***************************************************************************)
(* A worker process: AsyncRunWorker (apps/api/src/run-worker.ts) and, under*)
(* it, executeRunById (apps/api/src/workflow-service.ts), one step per     *)
(* statement on the shared rows.  The workflow between two statements is   *)
(* one step whose outcome is any of those it can have.                     *)
(*                                                                         *)
(* One worker takes one job at a time; RUN_WORKER_CONCURRENCY tasks of one *)
(* process claim together and are awaited together, share nothing but the  *)
(* id, and hold different jobs, so they are further workers.               *)
(***************************************************************************)
EXTENDS RunTables

CONSTANT Outcomes   \* statuses the workflow itself ends a run in

ASSUME OutcomesAssumption == Outcomes \subseteq Terminal \ {"cancelled"}

(* pc is the statement that comes next:
     idle       claimNextRunJob                          processSingleClaim
     claimed    select the run's context                 executeRunById
     loaded     queued -> running
     executing  the workflow, with its cancellation checkpoints
     worked     the last cancellation check
     rechecked  isRunLeaseOwnedByWorker
     owned      the guarded update that ends the run
     finalized  evidence rows and the "Run finished" event
     reported   completeRunJob                           executeClaimedJob
     caught     its catch block: leaseLost, then getRunJobAttempts
     retry      requeueRunJob
     giveUp     completeRunJob as failed
     failRun    the update of runs to failed
     dead       none: the process is gone                                  *)
BusyPcs == {"claimed", "loaded", "executing", "worked", "rechecked", "owned",
            "finalized", "reported", "caught", "retry", "giveUp", "failRun"}

WithoutJob(pc) ==
  [pc |-> pc, run |-> NoRun, outcome |-> "none", heartbeat |-> "beating"]

(* heartbeat: its updates get through, do not, or found the lease gone       *)
(* (leaseLost, the timer is cleared).                                        *)
WorkerState ==
  {WithoutJob("idle"), WithoutJob("dead")} \cup
  [pc        : BusyPcs,
   run       : Runs,
   outcome   : Terminal \cup {"none"},
   heartbeat : {"beating", "stalled", "lost"}]

WorkerTypeOK == worker \in [Workers -> WorkerState]
WorkerInit == worker = [w \in Workers |-> WithoutJob("idle")]

At(w, pc) == worker[w].pc = pc
GoTo(w, pc) == worker' = [worker EXCEPT ![w].pc = pc]
GoToWith(w, pc, outcome) ==
  worker' = [worker EXCEPT ![w] = [@ EXCEPT !.pc = pc, !.outcome = outcome]]
BeIdle(w) == worker' = [worker EXCEPT ![w] = WithoutJob("idle")]

(* Into the catch block, where what the workflow returned is out of scope. *)
Catch(w) == GoToWith(w, "caught", "none")

(* w runs executeClaimedJob: its heartbeat timer is set. *)
Busy(w) == worker[w].pc \in BusyPcs

(* ... and its heartbeats extend the lease before it runs out. *)
Beating(w) == Busy(w) /\ worker[w].heartbeat = "beating"

-----------------------------------------------------------------------------
(* Claiming a job and executing its run *)

Claim(w, r) ==
  /\ At(w, "idle")
  /\ Claimable(r)
  /\ job' = [job EXCEPT ![r] = ClaimedRow(@, w)]
  /\ worker' = [worker EXCEPT ![w] = [@ EXCEPT !.pc = "claimed", !.run = r]]
  /\ UNCHANGED <<run, lifecycle, faults, controlVars>>

(* A run that was cancelled meanwhile is left as it is; only one read as      *)
(* queued is started by an update.                                            *)
LoadContext(w) ==
  LET status == run[worker[w].run].status IN
  /\ At(w, "claimed")
  /\ \/ /\ status = "cancelled"
        /\ GoToWith(w, "reported", "cancelled")
     \/ status = "queued" /\ GoTo(w, "loaded")
     \/ status \notin {"cancelled", "queued"} /\ GoTo(w, "executing")
  /\ UNCHANGED <<tableVars, controlVars>>

(* Mutant of StartRun: the update does not ask for the queued status. *)
StartRunWhatever(w) ==
  /\ At(w, "loaded")
  /\ run' = [run EXCEPT ![worker[w].run].status = "running"]
  /\ GoTo(w, "executing")
  /\ UNCHANGED <<job, lifecycle, faults, controlVars>>

StartRun(w) ==
  LET r == worker[w].run IN
  /\ At(w, "loaded")
  /\ run' = IF run[r].status = "queued"
            THEN [run EXCEPT ![r].status = "running"] ELSE run
  /\ GoTo(w, "executing")
  /\ UNCHANGED <<job, lifecycle, faults, controlVars>>

(* The workflow ends in a status of its own, or in cancelled at a checkpoint *)
(* that saw the request (mapFailure of RunCancelledError).                   *)
Work(w) ==
  /\ At(w, "executing")
  /\ \E o \in Outcomes \cup {"cancelled"} :
       /\ o = "cancelled" => run[worker[w].run].status \in CancelRequested
       /\ GoToWith(w, "worked", o)
  /\ UNCHANGED <<tableVars, controlVars>>

RecheckCancellation(w) ==
  /\ At(w, "worked")
  /\ IF run[worker[w].run].status \in CancelRequested
     THEN GoToWith(w, "rechecked", "cancelled") ELSE GoTo(w, "rechecked")
  /\ UNCHANGED <<tableVars, controlVars>>

CheckLease(w) ==
  /\ At(w, "rechecked")
  /\ IF Owns(w, worker[w].run) THEN GoTo(w, "owned") ELSE Catch(w)
  /\ UNCHANGED <<tableVars, controlVars>>

(* Mutant of Finalizable: the update names the run by id only. *)
FinalizableAlways(status, outcome) == TRUE

(* The where clause of the update that ends the run. *)
Finalizable(status, outcome) ==
  \/ status \in Inflight
  \/ status = "cancelled" /\ outcome = "cancelled"

Finalize(w) ==
  LET r == worker[w].run
      o == worker[w].outcome IN
  /\ At(w, "owned")
  /\ run' = IF Finalizable(run[r].status, o)
            THEN [run EXCEPT ![r] = [status |-> o, summary |-> "outcome"]] ELSE run
  /\ GoTo(w, "finalized")
  /\ UNCHANGED <<job, lifecycle, faults, controlVars>>

RecordEvidence(w) ==
  /\ At(w, "finalized")
  /\ GoTo(w, "reported")
  /\ UNCHANGED <<tableVars, controlVars>>

(* Mutant of QueueStatus: the run's status is stored as the job's. *)
QueueStatusAsIs(outcome) == outcome

(* The job's status for an outcome. *)
QueueStatus(outcome) ==
  IF outcome \in {"failed", "cancelled"} THEN outcome ELSE "completed"

Complete(w) ==
  LET r == worker[w].run IN
  /\ At(w, "reported")
  /\ job' = IF Owns(w, r)
            THEN [job EXCEPT ![r] = SettledRow(@, QueueStatus(worker[w].outcome))]
            ELSE job
  /\ BeIdle(w)
  /\ UNCHANGED <<run, lifecycle, faults, controlVars>>

-----------------------------------------------------------------------------
(* executeClaimedJob's catch block *)

(* A statement fails, or the code between two of them throws; the update that *)
(* ends the run may already have happened.                                    *)
Throw(w) ==
  /\ \E pc \in {"claimed", "loaded", "executing", "worked", "rechecked",
                "owned", "finalized", "reported"} : At(w, pc)
  /\ Catch(w)
  /\ UNCHANGED <<tableVars, controlVars>>

ReturnLeaseLost(w) ==
  /\ At(w, "caught") /\ worker[w].heartbeat = "lost"
  /\ BeIdle(w)
  /\ UNCHANGED <<tableVars, controlVars>>

(* Mutant of ReadAttempts: it gives up one attempt early. *)
ReadAttemptsOneShort(w) ==
  /\ At(w, "caught") /\ worker[w].heartbeat # "lost"
  /\ GoTo(w, IF job[worker[w].run].attempts + 1 < MaxAttempts THEN "retry" ELSE "giveUp")
  /\ UNCHANGED <<tableVars, controlVars>>

(* The attempts of the row as it is now, whoever holds it. *)
ReadAttempts(w) ==
  /\ At(w, "caught") /\ worker[w].heartbeat # "lost"
  /\ GoTo(w, IF job[worker[w].run].attempts < MaxAttempts THEN "retry" ELSE "giveUp")
  /\ UNCHANGED <<tableVars, controlVars>>

(* Mutant of Requeue: the update does not ask for the lease owner. *)
RequeueUnowned(w) ==
  /\ At(w, "retry")
  /\ job' = [job EXCEPT ![worker[w].run] = RequeuedRow(@)]
  /\ BeIdle(w)
  /\ UNCHANGED <<run, lifecycle, faults, controlVars>>

Requeue(w) ==
  LET r == worker[w].run IN
  /\ At(w, "retry")
  /\ job' = IF Owns(w, r) THEN [job EXCEPT ![r] = RequeuedRow(@)] ELSE job
  /\ BeIdle(w)
  /\ UNCHANGED <<run, lifecycle, faults, controlVars>>

GiveUpJob(w) ==
  LET r == worker[w].run IN
  /\ At(w, "giveUp")
  /\ job' = IF Owns(w, r) THEN [job EXCEPT ![r] = SettledRow(@, "failed")] ELSE job
  /\ GoTo(w, "failRun")
  /\ UNCHANGED <<run, lifecycle, faults, controlVars>>

(* The update's case keeps every terminal status but failed, and writes the   *)
(* row whether or not the worker holds the job.                               *)
ExhaustedRow(row) ==
  IF row.status \in Terminal \ {"failed"} THEN row
  ELSE [status |-> "failed", summary |-> "exhausted"]

FailRun(w) ==
  /\ At(w, "failRun")
  /\ run' = [run EXCEPT ![worker[w].run] = ExhaustedRow(@)]
  /\ BeIdle(w)
  /\ UNCHANGED <<job, lifecycle, faults, controlVars>>

(* A statement of the catch block fails: processAvailableJobs rejects, the    *)
(* loop logs it and polls again; nothing is undone.                           *)
AbandonCatch(w) ==
  /\ \E pc \in {"caught", "retry", "giveUp", "failRun"} : At(w, pc)
  /\ SpendFault
  /\ BeIdle(w)
  /\ UNCHANGED <<run, job, lifecycle, controlVars>>

-----------------------------------------------------------------------------
(* Heartbeats and faults *)

(* A heartbeat gets through: it extends the lease, or finds it gone. *)
Heartbeat(w) ==
  LET r == worker[w].run IN
  /\ Busy(w) /\ worker[w].heartbeat # "lost"
  /\ job' = IF Extendable(r, w) THEN [job EXCEPT ![r] = ExtendedRow(@)] ELSE job
  /\ worker' = [worker EXCEPT
       ![w].heartbeat = IF Extendable(r, w) THEN "beating" ELSE "lost"]
  /\ UNCHANGED <<run, lifecycle, faults, controlVars>>

(* Heartbeats stop getting through: the query errors, which is only logged,   *)
(* or the process does not run for longer than a lease.                       *)
Stall(w) ==
  /\ Beating(w)
  /\ SpendFault
  /\ worker' = [worker EXCEPT ![w].heartbeat = "stalled"]
  /\ UNCHANGED <<run, job, lifecycle, controlVars>>

(* The process ends: a crash, a deployment's SIGTERM (worker.ts closes the    *)
(* pool under the running job and exits), an unhandled rejection.             *)
Crash(w) ==
  /\ worker[w].pc # "dead"
  /\ SpendFault
  /\ worker' = [worker EXCEPT ![w] = WithoutJob("dead")]
  /\ UNCHANGED <<run, job, lifecycle, controlVars>>

(* lease_expires_at passes, as the owner's heartbeats do not move it. *)
LeaseExpires(r) ==
  /\ job[r].status = "running" /\ job[r].lease = "live"
  /\ ~\E w \in Workers : Owns(w, r) /\ worker[w].run = r /\ Beating(w)
  /\ job' = [job EXCEPT ![r].lease = "expired"]
  /\ UNCHANGED <<run, lifecycle, faults, processVars>>

(* Every step of a worker but its heartbeat and its faults. *)
Proceed(w) ==
  \/ LoadContext(w) \/ StartRun(w) \/ Work(w) \/ RecheckCancellation(w)
  \/ CheckLease(w) \/ Finalize(w) \/ RecordEvidence(w) \/ Complete(w)
  \/ ReturnLeaseLost(w) \/ ReadAttempts(w) \/ Requeue(w)
  \/ GiveUpJob(w) \/ FailRun(w)

WorkerNext ==
  \E w \in Workers :
    \/ \E r \in Runs : Claim(w, r)
    \/ Proceed(w) \/ Throw(w) \/ AbandonCatch(w)
    \/ Heartbeat(w) \/ Stall(w) \/ Crash(w)
=============================================================================
