---------------------------- MODULE RunLifecycle ----------------------------
(***************************************************************************)
(* The life of a run: the API's requests (RunControl) and the workers      *)
(* (RunWorker) interleaved over the rows they share (RunTables).           *)
(***************************************************************************)
EXTENDS RunControl, RunWorker

vars == <<tableVars, processVars>>

Init == TablesInit /\ ControlInit /\ WorkerInit

TimePasses == \E r \in Runs : LeaseExpires(r) \/ BackoffElapses(r)

Next == ControlNext \/ WorkerNext \/ TimePasses

Spec == Init /\ [][Next]_vars

(* What the code's scheduling gives: a request or a worker that is not hit   *)
(* by a fault runs on to its next statement, clocks advance, and a job that  *)
(* is claimable again and again is claimed: the claim takes the oldest, and  *)
(* only finitely many are older.                                             *)
Fairness ==
  /\ \A r \in Runs : /\ WF_vars(Enqueue(r))
                     /\ WF_vars(LeaseExpires(r))
                     /\ WF_vars(BackoffElapses(r))
                     /\ SF_vars(\E w \in Workers : Claim(w, r))
  /\ \A k \in Calls : WF_vars(Cancel(k))
  /\ \A w \in Workers : WF_vars(Proceed(w))

FairSpec == Spec /\ Fairness

-----------------------------------------------------------------------------
(* Invariants *)

(* Rows, requests and workers have the shapes the schema and the code give   *)
(* them (schema.sql's check constraints, the locals of the handlers).        *)
TypeOK == TablesTypeOK /\ ControlTypeOK /\ WorkerTypeOK

(* The lease columns agree with the status of a job: exactly a running job   *)
(* has an owner, and exactly then lease_expires_at is set, whichever of the  *)
(* queue's statements and cancelRun's update wrote the row last.             *)
LeaseColumnsAgree ==
  \A r \in Runs :
    /\ job[r].status = "running" <=> job[r].owner # NoWorker
    /\ job[r].lease # "none" <=> job[r].owner # NoWorker

(* w still has statements to run that rest on holding its job. *)
Holding(w) == Beating(w) /\ worker[w].pc # "failRun"

(* A worker whose heartbeats get through keeps the job it claimed: nobody    *)
(* reclaims, requeues or settles it behind its back, except cancelRun, which *)
(* drops the job of a run it read as queued (run-queue.ts, run-worker.ts     *)
(* 169-191).  Hence two workers run the same job only after a missed lease.  *)
HealthyWorkerKeepsItsJob ==
  \A w \in Workers : Holding(w) =>
    LET row == job[worker[w].run] IN
      \/ row.status = "cancelled"
      \/ row.status = "running" /\ row.owner = w /\ row.lease = "live"

(* The retry path never puts a job back that has used its attempts up, though *)
(* it decides on attempts read one statement earlier and another worker may   *)
(* have claimed the job in between (run-worker.ts 258-301).                   *)
QueuedJobHasAttemptsLeft ==
  \A r \in Runs : job[r].status = "queued" => job[r].attempts < MaxAttempts

(* A job that is over leaves no run behind that still waits for a worker.     *)
(* The one exception is a job given up with its attempts used up: the run is  *)
(* updated after the job (run-worker.ts 303-333), and the worker may die, or  *)
(* the update fail, in between.                                               *)
NoRunLeftBehind ==
  \A r \in Runs : job[r].status \in SettledStatuses =>
    \/ run[r].status \notin {"queued", "running"}
    \/ job[r].status = "failed" /\ job[r].attempts >= MaxAttempts

(* The runs of a project that occupy a worker or wait for one. *)
Active(c) == {r \in ProjectInflight(c) : run[r].status # "cancelling"}

(* The counts and the insert of a start are separate statements, so the       *)
(* limits are overrun, but by no more than the other starts handled at the    *)
(* same time, whatever runs end, are retried or cancelled meanwhile           *)
(* (workflow-service.ts 786-836, 991-1000).                                   *)
ActiveWithinLimits ==
  /\ \A c \in Campaigns :
       Cardinality(Active(c)) <= MaxInflightPerProject + MaxStarting - 1
  /\ Cardinality(UNION {Active(c) : c \in Campaigns})
       <= MaxInflightGlobal + MaxStarting - 1

(* docs/V1_BETA.md:11 "inflight throttling (per-project and global)", :55     *)
(* "maxInflightRunsPerProject=2 (policy)": no more runs than the limit are in *)
(* flight in a project.                                                       *)
InflightWithinLimit ==
  \A c \in Campaigns : Cardinality(ProjectInflight(c)) <= MaxInflightPerProject

-----------------------------------------------------------------------------
(* Action properties *)

(* The next step is the write of a cancel call that read r before it ended. *)
LateCancelOf(r) ==
  \E k \in Calls : /\ call[k].pc = "write" /\ call[k].run = r
                   /\ call'[k] # call[k]

(* No step of a worker, stale or not, takes a run out of a terminal status:   *)
(* the guard of the finalizing update and the case of the retry_exhausted one *)
(* hold against every interleaving.  Only a cancel call that read the run     *)
(* before it ended does.                                                      *)
OnlyLateCancelReopens ==
  [][\A r \in Runs :
       run[r].status \in Terminal /\ run'[r].status # run[r].status
         => LateCancelOf(r)]_vars

(* docs/V1_HARDENING.md:78: "Terminal runs remain unchanged on repeated       *)
(* cancel calls."                                                             *)
TerminalRunsStay ==
  [][\A r \in Runs :
       run[r].status \in Terminal => run'[r].status = run[r].status]_vars

(* docs/V1_HARDENING.md:15: "Terminal run outcomes are written once using     *)
(* guarded transitions": what a worker recorded of an execution is not        *)
(* written over by a worker again.                                            *)
OutcomeIsWrittenOnce ==
  [][\A r \in Runs :
       run[r].summary = "outcome" /\ run'[r] # run[r] => LateCancelOf(r)]_vars

-----------------------------------------------------------------------------
(* Liveness *)

(* The ways in which a run can be left in flight with nobody to end it: its  *)
(* job was never inserted, was given up without the run being updated, or    *)
(* was over when a cancel call put the run back to cancelling.               *)
Orphaned(r) ==
  \/ job[r].status = "absent" /\ request[r] = "dead"
  \/ job[r].status = "failed"
  \/ job[r].status \in SettledStatuses /\ run[r].status = "cancelling"

(* Every run that is started ends, through crashes, stalls, retries and       *)
(* cancels, unless it is orphaned in one of these ways or its campaign is     *)
(* paused from some time on.                                                  *)
EveryRunEnds ==
  \A r \in Runs :
    []<>(lifecycle[CampaignOf[r]] = "active") =>
      (run[r].status \in Inflight ~> (run[r].status \in Terminal \/ Orphaned(r)))

-----------------------------------------------------------------------------
(* What is promised of it: module RunPromise *)

StatusOf == [r \in Runs |-> run[r].status]

(* A cancel call has yet to write once it read the run. *)
AskedOf == [k \in Calls |-> IF call[k].pc = "write"
                             THEN [run |-> call[k].run, saw |-> call[k].seen]
                             ELSE [run |-> "none", saw |-> "absent"]]

(* A worker is at work on a run from its claim on, while heartbeats get through. *)
DoingOf == [r \in Runs |-> {w \in Workers : Holding(w) /\ worker[w].run = r}]

Promise == INSTANCE RunPromise WITH
  Requests <- Calls, status <- StatusOf, asked <- AskedOf, doing <- DoingOf

(* Every step of the queue, the API and the workers is one the promise allows *)
(* or one it does not see.  In particular a run is cancelled only if that was *)
(* asked for, begins only from queued, ends only after it began or with its   *)
(* attempts used up, and two healthy workers are never at work on it at once  *)
(* (workflow-service.ts 1089-1254, 1883-1965; run-worker.ts 131-350).         *)
KeepsPromise == Promise!Spec
=============================================================================
