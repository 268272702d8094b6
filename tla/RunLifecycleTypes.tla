------------------------- MODULE RunLifecycleTypes -------------------------
(***************************************************************************)
(* What the actions of RunLifecycle do to the fields of the rows and of    *)
(* the workers, one lemma per statement, and type correctness.             *)
(***************************************************************************)
EXTENDS RunLifecycle, TLAPS

-----------------------------------------------------------------------------
(* Workers *)

(* A step of w leaves the other workers alone. *)
OtherWorkers(w) == \A v \in Workers \ {w} : worker'[v] = worker[v]

BusyState == [pc        : BusyPcs,
              run       : Runs,
              outcome   : Terminal \cup {"none"},
              heartbeat : {"beating", "stalled", "lost"}]

(* A busy worker has a run, an outcome and a heartbeat. *)
LEMMA BusyWorker ==
  ASSUME WorkerTypeOK, NEW w \in Workers, Busy(w)
  PROVE  /\ worker[w] \in BusyState
         /\ worker[w].run \in Runs
<1>1. worker[w] \in WorkerState BY DEF WorkerTypeOK
<1>2. worker[w] # WithoutJob("idle") /\ worker[w] # WithoutJob("dead")
  BY DEF Busy, BusyPcs, WithoutJob
<1> QED BY <1>1, <1>2 DEF WorkerState, BusyState

(* A worker whose statement is due in an execution or its catch block. *)
LEMMA AtBusy ==
  ASSUME NEW w \in Workers, NEW pc \in BusyPcs, At(w, pc)
  PROVE  Busy(w)
BY DEF At, Busy

LEMMA GoToEffect ==
  ASSUME WorkerTypeOK, NEW w \in Workers, Busy(w), NEW pc \in BusyPcs, GoTo(w, pc)
  PROVE  /\ WorkerTypeOK' /\ OtherWorkers(w)
         /\ worker'[w].pc = pc
         /\ worker'[w].run = worker[w].run
         /\ worker'[w].outcome = worker[w].outcome
         /\ worker'[w].heartbeat = worker[w].heartbeat
<1> DEFINE me == [worker[w] EXCEPT !.pc = pc]
<1>1. /\ me \in BusyState
      /\ me.pc = pc /\ me.run = worker[w].run
      /\ me.outcome = worker[w].outcome /\ me.heartbeat = worker[w].heartbeat
  BY BusyWorker DEF BusyState
<1>2. worker' = [worker EXCEPT ![w] = me] BY DEF GoTo
<1>3. me \in WorkerState BY <1>1 DEF BusyState, WorkerState
<1> HIDE DEF me
<1>4. WorkerTypeOK' /\ OtherWorkers(w) /\ worker'[w] = me
  BY <1>2, <1>3 DEF WorkerTypeOK, OtherWorkers
<1> QED BY <1>1, <1>4

LEMMA GoToWithEffect ==
  ASSUME WorkerTypeOK, NEW w \in Workers, Busy(w), NEW pc \in BusyPcs,
         NEW o \in Terminal \cup {"none"}, GoToWith(w, pc, o)
  PROVE  /\ WorkerTypeOK' /\ OtherWorkers(w)
         /\ worker'[w].pc = pc
         /\ worker'[w].run = worker[w].run
         /\ worker'[w].outcome = o
         /\ worker'[w].heartbeat = worker[w].heartbeat
<1> DEFINE me == [worker[w] EXCEPT !.pc = pc, !.outcome = o]
<1>1. /\ me \in BusyState
      /\ me.pc = pc /\ me.outcome = o
      /\ me.run = worker[w].run /\ me.heartbeat = worker[w].heartbeat
  BY BusyWorker DEF BusyState
<1>2. worker' = [worker EXCEPT ![w] = me] BY DEF GoToWith
<1>3. me \in WorkerState BY <1>1 DEF BusyState, WorkerState
<1> HIDE DEF me
<1>4. WorkerTypeOK' /\ OtherWorkers(w) /\ worker'[w] = me
  BY <1>2, <1>3 DEF WorkerTypeOK, OtherWorkers
<1> QED BY <1>1, <1>4

LEMMA ClaimWorkerEffect ==
  ASSUME WorkerTypeOK, NEW w \in Workers, NEW r \in Runs, Claim(w, r)
  PROVE  /\ WorkerTypeOK' /\ OtherWorkers(w)
         /\ worker'[w].pc = "claimed"
         /\ worker'[w].run = r
         /\ worker'[w].heartbeat = "beating"
<1> DEFINE me == [worker[w] EXCEPT !.pc = "claimed", !.run = r]
<1>1. worker[w] \in [pc : {"idle"}, run : {NoRun}, outcome : {"none"},
                      heartbeat : {"beating"}]
  BY DEF Claim, At, WorkerTypeOK, WorkerState, WithoutJob, BusyPcs
<1>2. /\ me \in BusyState
      /\ me.pc = "claimed" /\ me.run = r /\ me.heartbeat = "beating"
  BY <1>1 DEF BusyState, BusyPcs
<1>3. worker' = [worker EXCEPT ![w] = me] BY DEF Claim
<1>4. me \in WorkerState BY <1>2 DEF BusyState, WorkerState
<1> HIDE DEF me
<1>5. WorkerTypeOK' /\ OtherWorkers(w) /\ worker'[w] = me
  BY <1>3, <1>4 DEF WorkerTypeOK, OtherWorkers
<1> QED BY <1>2, <1>5

LEMMA WithoutJobEffect ==
  ASSUME WorkerTypeOK, NEW w \in Workers, NEW pc \in {"idle", "dead"},
         worker' = [worker EXCEPT ![w] = WithoutJob(pc)]
  PROVE  /\ WorkerTypeOK' /\ OtherWorkers(w)
         /\ worker'[w].pc = pc
<1>1. WorkerTypeOK' /\ OtherWorkers(w) /\ worker'[w] = WithoutJob(pc)
  BY DEF WorkerTypeOK, WorkerState, OtherWorkers
<1> QED BY <1>1 DEF WithoutJob

LEMMA HeartbeatEffect ==
  ASSUME WorkerTypeOK, NEW w \in Workers, Busy(w),
         NEW h \in {"beating", "stalled", "lost"},
         worker' = [worker EXCEPT ![w].heartbeat = h]
  PROVE  /\ WorkerTypeOK' /\ OtherWorkers(w)
         /\ worker'[w].pc = worker[w].pc
         /\ worker'[w].run = worker[w].run
         /\ worker'[w].outcome = worker[w].outcome
         /\ worker'[w].heartbeat = h
<1> DEFINE me == [worker[w] EXCEPT !.heartbeat = h]
<1>1. /\ me \in BusyState
      /\ me.pc = worker[w].pc /\ me.run = worker[w].run
      /\ me.outcome = worker[w].outcome /\ me.heartbeat = h
  BY BusyWorker DEF BusyState
<1>2. me \in WorkerState BY <1>1 DEF BusyState, WorkerState
<1> HIDE DEF me
<1>3. WorkerTypeOK' /\ OtherWorkers(w) /\ worker'[w] = me
  BY <1>2 DEF WorkerTypeOK, OtherWorkers, me
<1> QED BY <1>1, <1>3

(* Every step leaves the workers in states a worker can be in. *)
LEMMA WorkerTypeStep == ASSUME WorkerTypeOK, [Next]_vars PROVE WorkerTypeOK'
<1> USE OutcomesAssumption, AtBusy, GoToEffect, GoToWithEffect, WithoutJobEffect
        DEF BusyPcs, BeIdle, Catch
<1>1. ASSUME NEW w \in Workers, NEW r \in Runs, Claim(w, r) PROVE WorkerTypeOK'
  BY <1>1, ClaimWorkerEffect
<1>2. ASSUME NEW w \in Workers, LoadContext(w) PROVE WorkerTypeOK'
  BY <1>2 DEF LoadContext, Terminal
<1>3. ASSUME NEW w \in Workers, StartRun(w) PROVE WorkerTypeOK'
  BY <1>3 DEF StartRun
<1>4. ASSUME NEW w \in Workers, Work(w) PROVE WorkerTypeOK'
  BY <1>4 DEF Work, Terminal
<1>5. ASSUME NEW w \in Workers, RecheckCancellation(w) PROVE WorkerTypeOK'
  BY <1>5 DEF RecheckCancellation, Terminal
<1>6. ASSUME NEW w \in Workers, CheckLease(w) PROVE WorkerTypeOK'
  BY <1>6 DEF CheckLease
<1>7. ASSUME NEW w \in Workers, Finalize(w) PROVE WorkerTypeOK'
  BY <1>7 DEF Finalize
<1>8. ASSUME NEW w \in Workers, RecordEvidence(w) PROVE WorkerTypeOK'
  BY <1>8 DEF RecordEvidence
<1>9. ASSUME NEW w \in Workers, Complete(w) PROVE WorkerTypeOK'
  BY <1>9 DEF Complete
<1>10. ASSUME NEW w \in Workers, ReturnLeaseLost(w) PROVE WorkerTypeOK'
  BY <1>10 DEF ReturnLeaseLost
<1>11. ASSUME NEW w \in Workers, ReadAttempts(w) PROVE WorkerTypeOK'
  BY <1>11 DEF ReadAttempts
<1>12. ASSUME NEW w \in Workers, Requeue(w) PROVE WorkerTypeOK'
  BY <1>12 DEF Requeue
<1>13. ASSUME NEW w \in Workers, GiveUpJob(w) PROVE WorkerTypeOK'
  BY <1>13 DEF GiveUpJob
<1>14. ASSUME NEW w \in Workers, FailRun(w) PROVE WorkerTypeOK'
  BY <1>14 DEF FailRun
<1>15. ASSUME NEW w \in Workers, Throw(w) PROVE WorkerTypeOK'
  BY <1>15 DEF Throw
<1>16. ASSUME NEW w \in Workers, AbandonCatch(w) PROVE WorkerTypeOK'
  BY <1>16 DEF AbandonCatch
<1>17. ASSUME NEW w \in Workers, Heartbeat(w) PROVE WorkerTypeOK'
  BY <1>17, HeartbeatEffect DEF Heartbeat
<1>18. ASSUME NEW w \in Workers, Stall(w) PROVE WorkerTypeOK'
  BY <1>18, HeartbeatEffect DEF Stall, Beating
<1>19. ASSUME NEW w \in Workers, Crash(w) PROVE WorkerTypeOK'
  BY <1>19 DEF Crash
<1> QED
  BY <1>1, <1>2, <1>3, <1>4, <1>5, <1>6, <1>7, <1>8, <1>9, <1>10, <1>11, <1>12, <1>13, <1>14, <1>15, <1>16, <1>17, <1>18, <1>19
  DEF Next, ControlNext, WorkerNext, TimePasses, Enqueue, Cancel, Proceed, vars,
      tableVars, controlVars, processVars, SpendFault, CheckCampaign, CountProject, CountGlobal,
      Throttle, InsertRun, InsertJob,
      EnqueueDies, Pause, Resume, ReadRun, WriteCancel, DropJob, CancelDies,
      LeaseExpires, BackoffElapses, WorkerTypeOK

-----------------------------------------------------------------------------
(* Jobs *)

OtherJobs(r) == \A q \in Runs \ {r} : job'[q] = job[q]

(* The step leaves every job but r's alone, and r's with these columns. *)
JobBecomes(r, status, owner, lease, attempts) ==
  /\ OtherJobs(r)
  /\ job'[r].status = status
  /\ job'[r].owner = owner
  /\ job'[r].lease = lease
  /\ job'[r].attempts = attempts

JobsOK == job \in [Runs -> JobRow]

LEMMA PutJob ==
  ASSUME JobsOK, NEW r \in Runs, NEW row \in JobRow, job' = [job EXCEPT ![r] = row]
  PROVE  JobsOK' /\ job'[r] = row /\ OtherJobs(r)
BY DEF JobsOK, OtherJobs

LEMMA ClaimJobEffect ==
  ASSUME JobsOK, NEW w \in Workers, NEW r \in Runs, Claim(w, r)
  PROVE  JobsOK' /\ JobBecomes(r, "running", w, "live", job[r].attempts + 1)
<1> DEFINE row == ClaimedRow(job[r], w)
<1>1. job[r] \in JobRow BY DEF JobsOK
<1>2. /\ row \in [status : {"running"}, owner : Workers, lease : {"live"},
                  attempts : Nat, due : {"now"}]
      /\ row.status = "running" /\ row.owner = w /\ row.lease = "live"
      /\ row.attempts = job[r].attempts + 1
  <2>1. job[r].attempts + 1 \in Nat BY <1>1 DEF JobRow
  <2> QED BY <1>1, <2>1 DEF JobRow, ClaimedRow
<1>3. job' = [job EXCEPT ![r] = row] BY DEF Claim
<1> HIDE DEF row
<1>4. row \in JobRow BY <1>2, Zenon DEF JobRow, SettledStatuses
<1> QED BY <1>2, <1>3, <1>4, PutJob DEF JobBecomes

LEMMA InsertJobEffect ==
  ASSUME JobsOK, NEW r \in Runs, InsertJob(r)
  PROVE  JobsOK' /\ JobBecomes(r, "queued", NoWorker, "none", 0)
<1>1. QueuedJobRow \in JobRow BY DEF QueuedJobRow, JobRow
<1>2. job' = [job EXCEPT ![r] = QueuedJobRow] BY DEF InsertJob
<1>3. JobsOK' /\ job'[r] = QueuedJobRow /\ OtherJobs(r) BY <1>1, <1>2, PutJob
<1> QED BY <1>3 DEF JobBecomes, QueuedJobRow

LEMMA SettleEffect ==
  ASSUME JobsOK, NEW r \in Runs, NEW s \in SettledStatuses,
         job' = [job EXCEPT ![r] = SettledRow(@, s)]
  PROVE  JobsOK' /\ JobBecomes(r, s, NoWorker, "none", job[r].attempts)
<1> DEFINE row == SettledRow(job[r], s)
<1>1. job[r] \in JobRow BY DEF JobsOK
<1>2. /\ row \in JobRow
      /\ row.status = s /\ row.owner = NoWorker /\ row.lease = "none"
      /\ row.attempts = job[r].attempts
  BY <1>1 DEF JobRow, SettledStatuses, SettledRow
<1>3. job' = [job EXCEPT ![r] = row] OBVIOUS
<1> HIDE DEF row
<1> QED BY <1>2, <1>3, PutJob DEF JobBecomes

LEMMA RequeueEffect ==
  ASSUME JobsOK, NEW r \in Runs, job' = [job EXCEPT ![r] = RequeuedRow(@)]
  PROVE  JobsOK' /\ JobBecomes(r, "queued", NoWorker, "none", job[r].attempts)
<1> DEFINE row == RequeuedRow(job[r])
<1>1. job[r] \in JobRow BY DEF JobsOK
<1>2. /\ row \in JobRow
      /\ row.status = "queued" /\ row.owner = NoWorker /\ row.lease = "none"
      /\ row.attempts = job[r].attempts
  BY <1>1 DEF JobRow, RequeuedRow
<1>3. job' = [job EXCEPT ![r] = row] OBVIOUS
<1> HIDE DEF row
<1> QED BY <1>2, <1>3, PutJob DEF JobBecomes

LEMMA LeaseEffect ==
  ASSUME JobsOK, NEW r \in Runs, NEW l \in {"none", "live", "expired"},
         job' = [job EXCEPT ![r] = [@ EXCEPT !.lease = l]]
  PROVE  JobsOK' /\ JobBecomes(r, job[r].status, job[r].owner, l, job[r].attempts)
<1> DEFINE row == [job[r] EXCEPT !.lease = l]
<1>1. job[r] \in JobRow BY DEF JobsOK
<1>2. /\ row \in JobRow
      /\ row.status = job[r].status /\ row.owner = job[r].owner /\ row.lease = l
      /\ row.attempts = job[r].attempts
  BY <1>1 DEF JobRow
<1>3. job' = [job EXCEPT ![r] = row] OBVIOUS
<1> HIDE DEF row
<1> QED BY <1>2, <1>3, PutJob DEF JobBecomes

LEMMA BackoffEffect ==
  ASSUME JobsOK, NEW r \in Runs, BackoffElapses(r)
  PROVE  JobsOK' /\ JobBecomes(r, "queued", job[r].owner, job[r].lease, job[r].attempts)
<1> DEFINE row == [job[r] EXCEPT !.due = "now"]
<1>1. job[r] \in JobRow /\ job[r].status = "queued" BY DEF JobsOK, BackoffElapses
<1>2. /\ row \in JobRow
      /\ row.status = "queued" /\ row.owner = job[r].owner
      /\ row.lease = job[r].lease /\ row.attempts = job[r].attempts
  BY <1>1 DEF JobRow
<1>3. job' = [job EXCEPT ![r] = row] BY DEF BackoffElapses
<1> HIDE DEF row
<1> QED BY <1>2, <1>3, PutJob DEF JobBecomes

(* The steps of a worker that end or release the job it owns. *)
LEMMA CompleteEffect ==
  ASSUME TypeOK, NEW w \in Workers, Complete(w)
  PROVE  /\ worker[w].run \in Runs
         /\ \/ ~Owns(w, worker[w].run) /\ UNCHANGED job
            \/ /\ Owns(w, worker[w].run)
               /\ JobsOK'
               /\ \E s \in SettledStatuses :
                    JobBecomes(worker[w].run, s, NoWorker, "none",
                               job[worker[w].run].attempts)
<1> DEFINE r == worker[w].run
<1>1. r \in Runs
  <2>1. Busy(w) BY DEF Complete, At, Busy, BusyPcs
  <2> QED BY <2>1, BusyWorker DEF TypeOK
<1>2. JobsOK BY DEF TypeOK, TablesTypeOK, JobsOK
<1>3. QueueStatus(worker[w].outcome) \in SettledStatuses
  BY DEF QueueStatus, SettledStatuses
<1>4. CASE ~Owns(w, r) BY <1>1, <1>4 DEF Complete
<1>5. CASE Owns(w, r)
  <2>1. job' = [job EXCEPT ![r] = SettledRow(@, QueueStatus(worker[w].outcome))]
    BY <1>5 DEF Complete
  <2> HIDE DEF r
  <2> QED BY <1>1, <1>2, <1>3, <1>5, <2>1, SettleEffect DEF r
<1> QED BY <1>4, <1>5

LEMMA GiveUpEffect ==
  ASSUME TypeOK, NEW w \in Workers, GiveUpJob(w)
  PROVE  /\ worker[w].run \in Runs
         /\ \/ ~Owns(w, worker[w].run) /\ UNCHANGED job
            \/ /\ Owns(w, worker[w].run)
               /\ JobsOK'
               /\ JobBecomes(worker[w].run, "failed", NoWorker, "none",
                             job[worker[w].run].attempts)
<1> DEFINE r == worker[w].run
<1>1. r \in Runs
  <2>1. Busy(w) BY DEF GiveUpJob, At, Busy, BusyPcs
  <2> QED BY <2>1, BusyWorker DEF TypeOK
<1>2. JobsOK /\ "failed" \in SettledStatuses
  BY DEF TypeOK, TablesTypeOK, JobsOK, SettledStatuses
<1>3. CASE ~Owns(w, r) BY <1>1, <1>3 DEF GiveUpJob
<1>4. CASE Owns(w, r)
  <2>1. job' = [job EXCEPT ![r] = SettledRow(@, "failed")] BY <1>4 DEF GiveUpJob
  <2> HIDE DEF r
  <2> QED BY <1>1, <1>2, <1>4, <2>1, SettleEffect DEF r
<1> QED BY <1>3, <1>4

LEMMA RequeueActionEffect ==
  ASSUME TypeOK, NEW w \in Workers, Requeue(w)
  PROVE  /\ worker[w].run \in Runs
         /\ \/ ~Owns(w, worker[w].run) /\ UNCHANGED job
            \/ /\ Owns(w, worker[w].run)
               /\ JobsOK'
               /\ JobBecomes(worker[w].run, "queued", NoWorker, "none",
                             job[worker[w].run].attempts)
<1> DEFINE r == worker[w].run
<1>1. r \in Runs
  <2>1. Busy(w) BY DEF Requeue, At, Busy, BusyPcs
  <2> QED BY <2>1, BusyWorker DEF TypeOK
<1>2. JobsOK BY DEF TypeOK, TablesTypeOK, JobsOK
<1>3. CASE ~Owns(w, r) BY <1>1, <1>3 DEF Requeue
<1>4. CASE Owns(w, r)
  <2>1. job' = [job EXCEPT ![r] = RequeuedRow(@)] BY <1>4 DEF Requeue
  <2> HIDE DEF r
  <2> QED BY <1>1, <1>2, <1>4, <2>1, RequeueEffect DEF r
<1> QED BY <1>3, <1>4

LEMMA HeartbeatJobEffect ==
  ASSUME TypeOK, NEW w \in Workers, Heartbeat(w)
  PROVE  /\ worker[w].run \in Runs
         /\ \/ ~Extendable(worker[w].run, w) /\ UNCHANGED job
            \/ /\ Extendable(worker[w].run, w)
               /\ JobsOK'
               /\ JobBecomes(worker[w].run, "running", w, "live",
                             job[worker[w].run].attempts)
<1> DEFINE r == worker[w].run
<1>1. r \in Runs BY BusyWorker DEF TypeOK, Heartbeat
<1>2. JobsOK BY DEF TypeOK, TablesTypeOK, JobsOK
<1>3. CASE ~Extendable(r, w) BY <1>1, <1>3 DEF Heartbeat
<1>4. CASE Extendable(r, w)
  <2>1. job' = [job EXCEPT ![r] = [@ EXCEPT !.lease = "live"]]
    BY <1>4 DEF Heartbeat, ExtendedRow
  <2>2. job[r].status = "running" /\ job[r].owner = w BY <1>4 DEF Extendable
  <2> HIDE DEF r
  <2>3. JobsOK' /\ JobBecomes(r, job[r].status, job[r].owner, "live", job[r].attempts)
    BY <1>1, <1>2, <2>1, LeaseEffect
  <2> QED BY <1>1, <1>4, <2>2, <2>3 DEF r
<1> QED BY <1>3, <1>4

LEMMA LeaseExpiresEffect ==
  ASSUME JobsOK, NEW r \in Runs, LeaseExpires(r)
  PROVE  JobsOK' /\ JobBecomes(r, "running", job[r].owner, "expired", job[r].attempts)
<1>1. job[r].status = "running" /\ job' = [job EXCEPT ![r] = [@ EXCEPT !.lease = "expired"]]
  BY DEF LeaseExpires
<1> QED BY <1>1, LeaseEffect

(* A cancel call that drops a job names a run, and drops it if it is there. *)
LEMMA DropJobEffect ==
  ASSUME TypeOK, NEW k \in Calls, DropJob(k)
  PROVE  /\ call[k].run \in Runs
         /\ \/ job[call[k].run].status = "absent" /\ UNCHANGED job
            \/ /\ job[call[k].run].status # "absent"
               /\ JobsOK'
               /\ JobBecomes(call[k].run, "cancelled", NoWorker, "none",
                             job[call[k].run].attempts)
<1> DEFINE r == call[k].run
<1>1. r \in Runs
  BY DEF DropJob, TypeOK, ControlTypeOK, CallState, NotCalled, Answered
<1>2. JobsOK /\ "cancelled" \in SettledStatuses
  BY DEF TypeOK, TablesTypeOK, JobsOK, SettledStatuses
<1>3. CASE job[r].status = "absent" BY <1>1, <1>3 DEF DropJob
<1>4. CASE job[r].status # "absent"
  <2>1. job' = [job EXCEPT ![r] = SettledRow(@, "cancelled")] BY <1>4 DEF DropJob
  <2> HIDE DEF r
  <2> QED BY <1>1, <1>2, <1>4, <2>1, SettleEffect DEF r
<1> QED BY <1>3, <1>4

(* Every step leaves rows of run_jobs that the schema admits. *)
LEMMA JobTypeStep == ASSUME TypeOK, [Next]_vars PROVE JobsOK'
<1> JobsOK BY DEF TypeOK, TablesTypeOK, JobsOK
<1>1. ASSUME NEW r \in Runs, InsertJob(r) PROVE JobsOK'
  BY <1>1, InsertJobEffect
<1>2. ASSUME NEW k \in Calls, DropJob(k) PROVE JobsOK'
  BY <1>2, DropJobEffect DEF JobsOK
<1>3. ASSUME NEW w \in Workers, NEW r \in Runs, Claim(w, r) PROVE JobsOK'
  BY <1>3, ClaimJobEffect
<1>4. ASSUME NEW w \in Workers, Complete(w) PROVE JobsOK'
  BY <1>4, CompleteEffect DEF JobsOK
<1>5. ASSUME NEW w \in Workers, Requeue(w) PROVE JobsOK'
  BY <1>5, RequeueActionEffect DEF JobsOK
<1>6. ASSUME NEW w \in Workers, GiveUpJob(w) PROVE JobsOK'
  BY <1>6, GiveUpEffect DEF JobsOK
<1>7. ASSUME NEW w \in Workers, Heartbeat(w) PROVE JobsOK'
  BY <1>7, HeartbeatJobEffect DEF JobsOK
<1>8. ASSUME NEW r \in Runs, LeaseExpires(r) PROVE JobsOK'
  BY <1>8, LeaseExpiresEffect
<1>9. ASSUME NEW r \in Runs, BackoffElapses(r) PROVE JobsOK'
  BY <1>9, BackoffEffect
<1> QED
  BY <1>1, <1>2, <1>3, <1>4, <1>5, <1>6, <1>7, <1>8, <1>9
  DEF Next, ControlNext, WorkerNext, TimePasses, Enqueue, Cancel, Proceed, vars,
      tableVars, controlVars, processVars, SpendFault, CheckCampaign, CountProject, CountGlobal,
      Throttle, InsertRun,
      EnqueueDies, Pause, Resume, ReadRun, WriteCancel, CancelDies, LoadContext,
      StartRun, Work, RecheckCancellation, CheckLease, Finalize, RecordEvidence,
      ReturnLeaseLost, ReadAttempts, FailRun, Throw, AbandonCatch, Stall, Crash, JobsOK

-----------------------------------------------------------------------------
(* Runs *)

OtherRuns(r) == \A q \in Runs \ {r} : run'[q] = run[q]

RunBecomes(r, status, summary) ==
  /\ OtherRuns(r)
  /\ run'[r].status = status
  /\ run'[r].summary = summary

RunsOK == run \in [Runs -> RunRow]

LEMMA PutRun ==
  ASSUME RunsOK, NEW r \in Runs, NEW row \in RunRow, run' = [run EXCEPT ![r] = row]
  PROVE  RunsOK' /\ RunBecomes(r, row.status, row.summary)
<1>1. RunsOK' /\ run'[r] = row /\ OtherRuns(r) BY DEF RunsOK, OtherRuns
<1> QED BY <1>1 DEF RunBecomes

(* An update of the status alone. *)
LEMMA StatusEffect ==
  ASSUME RunsOK, NEW r \in Runs, NEW s \in Inflight,
         run' = [run EXCEPT ![r].status = s]
  PROVE  RunsOK' /\ RunBecomes(r, s, run[r].summary)
<1> DEFINE row == [run[r] EXCEPT !.status = s]
<1>1. run[r] \in RunRow BY DEF RunsOK
<1>2. row \in RunRow /\ row.status = s /\ row.summary = run[r].summary
  BY <1>1 DEF RunRow, Inflight
<1>3. run' = [run EXCEPT ![r] = row] OBVIOUS
<1> HIDE DEF row
<1> QED BY <1>2, <1>3, PutRun

LEMMA InsertRunEffect ==
  ASSUME RunsOK, NEW r \in Runs, InsertRun(r)
  PROVE  RunsOK' /\ RunBecomes(r, "queued", run[r].summary)
BY StatusEffect DEF InsertRun, Inflight

(* A cancel call writes the run it read, by what it read. *)
LEMMA WriteCancelEffect ==
  ASSUME TypeOK, NEW k \in Calls, WriteCancel(k)
  PROVE  /\ call[k].run \in Runs
         /\ RunsOK'
         /\ \E s \in {"cancelled", "cancelling"} :
              /\ RunBecomes(call[k].run, s, "cancel")
              /\ s = "cancelled" <=> call[k].seen = "queued"
<1> DEFINE r == call[k].run
           row == CancelledRow(call[k].seen)
<1>1. r \in Runs
  BY DEF WriteCancel, TypeOK, ControlTypeOK, CallState, NotCalled, Answered
<1>2. RunsOK BY DEF TypeOK, TablesTypeOK, RunsOK
<1>3. /\ row \in RunRow /\ row.summary = "cancel"
      /\ row.status \in {"cancelled", "cancelling"}
      /\ row.status = "cancelled" <=> call[k].seen = "queued"
  BY DEF CancelledRow, RunRow, Summaries, Inflight, Terminal
<1>4. run' = [run EXCEPT ![r] = row] BY DEF WriteCancel
<1> HIDE DEF r, row
<1>5. RunsOK' /\ RunBecomes(r, row.status, "cancel") BY <1>1, <1>2, <1>3, <1>4, PutRun
<1> QED BY <1>1, <1>3, <1>5 DEF r

LEMMA StartRunEffect ==
  ASSUME TypeOK, NEW w \in Workers, StartRun(w)
  PROVE  /\ worker[w].run \in Runs
         /\ \/ run[worker[w].run].status # "queued" /\ UNCHANGED run
            \/ /\ run[worker[w].run].status = "queued"
               /\ RunsOK'
               /\ RunBecomes(worker[w].run, "running", run[worker[w].run].summary)
<1> DEFINE r == worker[w].run
<1>1. r \in Runs
  <2>1. Busy(w) BY DEF StartRun, At, Busy, BusyPcs
  <2> QED BY <2>1, BusyWorker DEF TypeOK
<1>2. RunsOK BY DEF TypeOK, TablesTypeOK, RunsOK
<1>3. CASE run[r].status # "queued" BY <1>1, <1>3 DEF StartRun
<1>4. CASE run[r].status = "queued"
  <2>1. run' = [run EXCEPT ![r].status = "running"] BY <1>4 DEF StartRun
  <2> HIDE DEF r
  <2> QED BY <1>1, <1>2, <1>4, <2>1, StatusEffect DEF r, Inflight
<1> QED BY <1>3, <1>4

(* Whoever ends a run has an outcome to end it with. *)
HasOutcome ==
  \A w \in Workers :
    At(w, "worked") \/ At(w, "rechecked") \/ At(w, "owned") => worker[w].outcome # "none"

LEMMA FinalizeEffect ==
  ASSUME TypeOK, HasOutcome, NEW w \in Workers, Finalize(w)
  PROVE  /\ worker[w].run \in Runs
         /\ \/ /\ ~Finalizable(run[worker[w].run].status, worker[w].outcome)
               /\ UNCHANGED run
            \/ /\ Finalizable(run[worker[w].run].status, worker[w].outcome)
               /\ RunsOK'
               /\ worker[w].outcome \in Terminal
               /\ RunBecomes(worker[w].run, worker[w].outcome, "outcome")
<1> DEFINE r == worker[w].run
           o == worker[w].outcome
           row == [status |-> o, summary |-> "outcome"]
<1>1. r \in Runs /\ o \in Terminal
  <2>1. Busy(w) /\ At(w, "owned") BY DEF Finalize, At, Busy, BusyPcs
  <2>2. worker[w] \in BusyState BY <2>1, BusyWorker DEF TypeOK
  <2> QED BY <2>1, <2>2 DEF BusyState, HasOutcome
<1>2. RunsOK BY DEF TypeOK, TablesTypeOK, RunsOK
<1>3. row \in RunRow /\ row.status = o /\ row.summary = "outcome"
  BY <1>1 DEF RunRow, Summaries
<1>4. CASE ~Finalizable(run[r].status, o) BY <1>1, <1>4 DEF Finalize
<1>5. CASE Finalizable(run[r].status, o)
  <2>1. run' = [run EXCEPT ![r] = row] BY <1>5 DEF Finalize
  <2> HIDE DEF r, o, row
  <2>2. RunsOK' /\ RunBecomes(r, o, "outcome") BY <1>1, <1>2, <1>3, <2>1, PutRun
  <2> QED BY <1>1, <1>5, <2>2 DEF r, o
<1> QED BY <1>4, <1>5

LEMMA FailRunEffect ==
  ASSUME TypeOK, NEW w \in Workers, FailRun(w)
  PROVE  /\ worker[w].run \in Runs
         /\ RunsOK'
         /\ \/ /\ run[worker[w].run].status \in Terminal \ {"failed"}
               /\ RunBecomes(worker[w].run, run[worker[w].run].status,
                             run[worker[w].run].summary)
            \/ /\ run[worker[w].run].status \notin Terminal \ {"failed"}
               /\ RunBecomes(worker[w].run, "failed", "exhausted")
<1> DEFINE r == worker[w].run
           row == ExhaustedRow(run[r])
<1>1. r \in Runs
  <2>1. Busy(w) BY DEF FailRun, At, Busy, BusyPcs
  <2> QED BY <2>1, BusyWorker DEF TypeOK
<1>2. RunsOK /\ run[r] \in RunRow BY <1>1 DEF TypeOK, TablesTypeOK, RunsOK
<1>3. row \in RunRow BY <1>2 DEF RunRow, ExhaustedRow, Terminal, Summaries
<1>4. run' = [run EXCEPT ![r] = row] BY DEF FailRun
<1>5. CASE run[r].status \in Terminal \ {"failed"}
  <2>1. row.status = run[r].status /\ row.summary = run[r].summary
    BY <1>5 DEF ExhaustedRow
  <2> HIDE DEF r, row
  <2>2. RunsOK' /\ RunBecomes(r, run[r].status, run[r].summary)
    BY <1>1, <1>2, <1>3, <1>4, <2>1, PutRun
  <2> QED BY <1>1, <1>5, <2>2 DEF r
<1>6. CASE run[r].status \notin Terminal \ {"failed"}
  <2>1. row.status = "failed" /\ row.summary = "exhausted"
    BY <1>6 DEF ExhaustedRow
  <2> HIDE DEF r, row
  <2>2. RunsOK' /\ RunBecomes(r, "failed", "exhausted")
    BY <1>1, <1>2, <1>3, <1>4, <2>1, PutRun
  <2> QED BY <1>1, <1>6, <2>2 DEF r
<1> QED BY <1>5, <1>6

(* Every step leaves rows of runs that the schema admits. *)
LEMMA RunTypeStep == ASSUME TypeOK, HasOutcome, [Next]_vars PROVE RunsOK'
<1> RunsOK BY DEF TypeOK, TablesTypeOK, RunsOK
<1>1. ASSUME NEW r \in Runs, InsertRun(r) PROVE RunsOK'
  BY <1>1, InsertRunEffect
<1>2. ASSUME NEW k \in Calls, WriteCancel(k) PROVE RunsOK'
  BY <1>2, WriteCancelEffect
<1>3. ASSUME NEW w \in Workers, StartRun(w) PROVE RunsOK'
  BY <1>3, StartRunEffect DEF RunsOK
<1>4. ASSUME NEW w \in Workers, Finalize(w) PROVE RunsOK'
  BY <1>4, FinalizeEffect DEF RunsOK
<1>5. ASSUME NEW w \in Workers, FailRun(w) PROVE RunsOK'
  BY <1>5, FailRunEffect
<1> QED
  BY <1>1, <1>2, <1>3, <1>4, <1>5
  DEF Next, ControlNext, WorkerNext, TimePasses, Enqueue, Cancel, Proceed, vars,
      tableVars, controlVars, processVars, SpendFault, CheckCampaign,
      CountProject, CountGlobal, Throttle, InsertJob,
      EnqueueDies, Pause, Resume, ReadRun, DropJob, CancelDies, Claim, LoadContext,
      Work, RecheckCancellation, CheckLease, RecordEvidence, Complete,
      ReturnLeaseLost, ReadAttempts, Requeue, GiveUpJob, Throw, AbandonCatch,
      Heartbeat, Stall, Crash, LeaseExpires, BackoffElapses, RunsOK

-----------------------------------------------------------------------------
(* Outcomes *)

Reporting == {"worked", "rechecked", "owned"}

LEMMA HasOutcomeStep == ASSUME TypeOK, HasOutcome, [Next]_vars PROVE HasOutcome'
<1> USE OutcomesAssumption, AtBusy DEF BusyPcs, BeIdle, Catch, OtherWorkers
<1> SUFFICES ASSUME NEW v \in Workers
             PROVE  worker'[v].pc \in Reporting => worker'[v].outcome # "none"
  BY DEF HasOutcome, At, Reporting
<1> DEFINE Fine == worker'[v].pc \in Reporting => worker'[v].outcome # "none"
<1> WorkerTypeOK BY DEF TypeOK
<1>0. worker[v].pc \in Reporting => worker[v].outcome # "none"
  BY DEF HasOutcome, At, Reporting
<1>1. ASSUME NEW w \in Workers, NEW r \in Runs, Claim(w, r) PROVE Fine
  BY <1>0, <1>1, ClaimWorkerEffect DEF Reporting
<1>2. ASSUME NEW w \in Workers, LoadContext(w) PROVE Fine
  BY <1>0, <1>2, GoToEffect, GoToWithEffect DEF LoadContext, Reporting, Terminal
<1>3. ASSUME NEW w \in Workers, StartRun(w) PROVE Fine
  BY <1>0, <1>3, GoToEffect DEF StartRun, Reporting
<1>4. ASSUME NEW w \in Workers, Work(w) PROVE Fine
  BY <1>0, <1>4, GoToWithEffect DEF Work, Reporting, Terminal
<1>5. ASSUME NEW w \in Workers, RecheckCancellation(w) PROVE Fine
  BY <1>0, <1>5, GoToEffect, GoToWithEffect DEF RecheckCancellation, Reporting, At, Terminal
<1>6. ASSUME NEW w \in Workers, CheckLease(w) PROVE Fine
  BY <1>0, <1>6, GoToEffect, GoToWithEffect DEF CheckLease, Reporting, At, Terminal
<1>7. ASSUME NEW w \in Workers, Finalize(w) PROVE Fine
  BY <1>0, <1>7, GoToEffect DEF Finalize, Reporting
<1>8. ASSUME NEW w \in Workers, RecordEvidence(w) PROVE Fine
  BY <1>0, <1>8, GoToEffect DEF RecordEvidence, Reporting, At
<1>9. ASSUME NEW w \in Workers, Complete(w) PROVE Fine
  BY <1>0, <1>9, WithoutJobEffect DEF Complete, Reporting
<1>10. ASSUME NEW w \in Workers, ReturnLeaseLost(w) PROVE Fine
  BY <1>0, <1>10, WithoutJobEffect DEF ReturnLeaseLost, Reporting
<1>11. ASSUME NEW w \in Workers, ReadAttempts(w) PROVE Fine
  BY <1>0, <1>11, GoToEffect DEF ReadAttempts, Reporting
<1>12. ASSUME NEW w \in Workers, Requeue(w) PROVE Fine
  BY <1>0, <1>12, WithoutJobEffect DEF Requeue, Reporting
<1>13. ASSUME NEW w \in Workers, GiveUpJob(w) PROVE Fine
  BY <1>0, <1>13, GoToEffect DEF GiveUpJob, Reporting
<1>14. ASSUME NEW w \in Workers, FailRun(w) PROVE Fine
  BY <1>0, <1>14, WithoutJobEffect DEF FailRun, Reporting
<1>15. ASSUME NEW w \in Workers, Throw(w) PROVE Fine
  BY <1>0, <1>15, GoToWithEffect DEF Throw, Reporting, Terminal
<1>16. ASSUME NEW w \in Workers, AbandonCatch(w) PROVE Fine
  BY <1>0, <1>16, WithoutJobEffect DEF AbandonCatch, Reporting
<1>17. ASSUME NEW w \in Workers, Heartbeat(w) PROVE Fine
  BY <1>0, <1>17, HeartbeatEffect DEF Heartbeat
<1>18. ASSUME NEW w \in Workers, Stall(w) PROVE Fine
  BY <1>0, <1>18, HeartbeatEffect DEF Stall, Beating
<1>19. ASSUME NEW w \in Workers, Crash(w) PROVE Fine
  BY <1>0, <1>19, WithoutJobEffect DEF Crash, Reporting
<1> QED
  BY <1>0, <1>1, <1>2, <1>3, <1>4, <1>5, <1>6, <1>7, <1>8, <1>9, <1>10, <1>11, <1>12, <1>13, <1>14, <1>15, <1>16, <1>17, <1>18, <1>19
  DEF Next, ControlNext, WorkerNext, TimePasses, Enqueue, Cancel, Proceed, vars,
      tableVars, controlVars, processVars, SpendFault, CheckCampaign, CountProject, CountGlobal,
      Throttle, InsertRun, InsertJob,
      EnqueueDies, Pause, Resume, ReadRun, WriteCancel, DropJob, CancelDies,
      LeaseExpires, BackoffElapses

-----------------------------------------------------------------------------
(* Requests, campaigns and faults *)

LEMMA ControlTypeStep == ASSUME TypeOK, [Next]_vars PROVE ControlTypeOK'
<1> USE DEF TypeOK, ControlTypeOK
<1>1. ASSUME NEW r \in Runs,
             CheckCampaign(r) \/ CountProject(r) \/ CountGlobal(r) \/ Throttle(r)
      PROVE  ControlTypeOK'
  BY <1>1 DEF CheckCampaign, CountProject, CountGlobal, Throttle, RequestState
<1>2. ASSUME NEW r \in Runs, InsertRun(r) PROVE ControlTypeOK'
  BY <1>2 DEF InsertRun, RequestState
<1>3. ASSUME NEW r \in Runs, InsertJob(r) PROVE ControlTypeOK'
  BY <1>3 DEF InsertJob, RequestState
<1>4. ASSUME NEW r \in Runs, EnqueueDies(r) PROVE ControlTypeOK'
  BY <1>4 DEF EnqueueDies, RequestState
<1>5. ASSUME NEW k \in Calls, NEW r \in Runs, ReadRun(k, r) PROVE ControlTypeOK'
  BY <1>5 DEF ReadRun, CallState, NotCalled, Answered, Inflight
<1>6. ASSUME NEW k \in Calls, WriteCancel(k) PROVE ControlTypeOK'
  BY <1>6 DEF WriteCancel, CallState, NotCalled, Answered, Inflight
<1>7. ASSUME NEW k \in Calls, DropJob(k) PROVE ControlTypeOK'
  BY <1>7 DEF DropJob, CallState, NotCalled, Answered, Inflight
<1>8. ASSUME NEW k \in Calls, CancelDies(k) PROVE ControlTypeOK'
  BY <1>8 DEF CancelDies, CallState, NotCalled, Answered, Inflight
<1> QED
  BY <1>1, <1>2, <1>3, <1>4, <1>5, <1>6, <1>7, <1>8
  DEF Next, ControlNext, WorkerNext, TimePasses, Enqueue, Cancel, Proceed, vars,
      tableVars, controlVars, processVars, Pause, Resume, Claim, LoadContext,
      StartRun, Work, RecheckCancellation, CheckLease, Finalize, RecordEvidence,
      Complete, ReturnLeaseLost, ReadAttempts, Requeue, GiveUpJob, FailRun, Throw,
      AbandonCatch, Heartbeat, Stall, Crash, LeaseExpires, BackoffElapses

LifecycleOK == lifecycle \in [Campaigns -> {"active", "paused"}]
FaultsOK == faults \in 0..MaxFaults

LEMMA LifecycleTypeStep == ASSUME LifecycleOK, [Next]_vars PROVE LifecycleOK'
BY DEF LifecycleOK, Next, ControlNext, WorkerNext, TimePasses, Enqueue, Cancel,
       Proceed, vars, tableVars, controlVars, processVars,
      CheckCampaign, CountProject, CountGlobal, Throttle, InsertRun,
       InsertJob, EnqueueDies, Pause, Resume, ReadRun, WriteCancel, DropJob,
       CancelDies, Claim, LoadContext, StartRun, Work, RecheckCancellation,
       CheckLease, Finalize, RecordEvidence, Complete, ReturnLeaseLost,
       ReadAttempts, Requeue, GiveUpJob, FailRun, Throw, AbandonCatch, Heartbeat,
       Stall, Crash, LeaseExpires, BackoffElapses

LEMMA FaultsTypeStep == ASSUME FaultsOK, [Next]_vars PROVE FaultsOK'
<1>1. ASSUME SpendFault PROVE FaultsOK'
  BY <1>1, TablesAssumption DEF SpendFault, FaultsOK
<1> QED
  BY <1>1
  DEF FaultsOK, Next, ControlNext, WorkerNext, TimePasses, Enqueue, Cancel,
      Proceed, vars, tableVars, controlVars, processVars,
      CheckCampaign, CountProject, CountGlobal, Throttle, InsertRun,
      InsertJob, EnqueueDies, Pause, Resume, ReadRun, WriteCancel, DropJob,
      CancelDies, Claim, LoadContext, StartRun, Work, RecheckCancellation,
      CheckLease, Finalize, RecordEvidence, Complete, ReturnLeaseLost,
      ReadAttempts, Requeue, GiveUpJob, FailRun, Throw, AbandonCatch, Heartbeat,
      Stall, Crash, LeaseExpires, BackoffElapses

-----------------------------------------------------------------------------
(* Type correctness *)

TypeInv == TypeOK /\ HasOutcome

LEMMA TypeInit == Init => TypeInv
<1> SUFFICES ASSUME Init PROVE TypeInv OBVIOUS
<1>1. TablesTypeOK
  <2>1. NoRunRow \in RunRow BY DEF NoRunRow, RunRow, Summaries
  <2>2. NoJobRow \in JobRow BY DEF NoJobRow, JobRow
  <2> QED BY <2>1, <2>2, TablesAssumption DEF Init, TablesInit, TablesTypeOK
<1>2. ControlTypeOK BY DEF Init, ControlInit, ControlTypeOK, CallState, RequestState
<1>3. WorkerTypeOK BY DEF Init, WorkerInit, WorkerTypeOK, WorkerState
<1>4. HasOutcome BY DEF Init, WorkerInit, HasOutcome, At, WithoutJob
<1> QED BY <1>1, <1>2, <1>3, <1>4 DEF TypeInv, TypeOK

LEMMA TypeStep == TypeInv /\ [Next]_vars => TypeInv'
<1> SUFFICES ASSUME TypeInv, [Next]_vars PROVE TypeInv' OBVIOUS
<1> USE DEF TypeInv
<1>1. TablesTypeOK'
  BY RunTypeStep, JobTypeStep, LifecycleTypeStep, FaultsTypeStep
  DEF TypeOK, TablesTypeOK, RunsOK, JobsOK, LifecycleOK, FaultsOK
<1>2. ControlTypeOK' BY ControlTypeStep
<1>3. WorkerTypeOK' BY WorkerTypeStep DEF TypeOK
<1>4. HasOutcome' BY HasOutcomeStep
<1> QED BY <1>1, <1>2, <1>3, <1>4 DEF TypeOK

(* Rows, requests and workers keep the shapes the schema's check constraints  *)
(* and the locals of the handlers give them, and a worker that reaches the    *)
(* update that ends a run has a status to end it with (executeRunById).       *)
THEOREM TypeCorrect == Spec => []TypeInv
BY TypeInit, TypeStep, PTL DEF Spec

(* The part of it a run checks: the shapes alone.                            *)
THEOREM TypesHold == Spec => []TypeOK
<1>1. TypeInv => TypeOK BY DEF TypeInv
<1> QED BY TypeCorrect, <1>1, PTL

=============================================================================
