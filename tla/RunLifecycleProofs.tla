------------------------- MODULE RunLifecycleProofs -------------------------
(***************************************************************************)
(* The safety properties of RunLifecycle hold for every set of runs,       *)
(* workers and cancel calls and every bound: the inductive invariant, its  *)
(* steps, and the theorems about Spec.                                     *)
(***************************************************************************)
EXTENDS RunLifecycleTypes

(* The statuses a run has once a worker or a cancel call has answered it:    *)
(* no step leads from them back to queued or running.                        *)
Past == Terminal \cup {"cancelling"}

(* The states of a start request before it inserts a row. *)
Early == RequestState \ {"inserted", "done", "dead"}

(* Rows appear in the order enqueueCampaignRun inserts them. *)
RowsFollowRequest ==
  \A r \in Runs :
    /\ request[r] \in Early => run[r].status = "absent"
    /\ request[r] # "done" => job[r].status = "absent"

(* Whoever works on a run or cancels it found its rows there. *)
HandledRunsExist ==
  /\ \A w \in Workers : Busy(w) => /\ run[worker[w].run].status # "absent"
                                   /\ job[worker[w].run].status # "absent"
  /\ \A k \in Calls : call[k].pc \in {"write", "dropJob"}
                        => run[call[k].run].status # "absent"

(* What the code remembers as its position, of the run and the job it names. *)
PastIsBehind ==
  /\ \A w \in Workers : worker[w].pc \in {"finalized", "reported"}
       => run[worker[w].run].status \in Past
  /\ \A k \in Calls : call[k].pc = "dropJob" => run[call[k].run].status \in Past

(* The attempts a worker read are still those of the row if it owns the job. *)
RetryHasAttemptsLeft ==
  \A w \in Workers : At(w, "retry") /\ Owns(w, worker[w].run)
    => job[worker[w].run].attempts < MaxAttempts

GiveUpHasNoneLeft ==
  \A w \in Workers : At(w, "giveUp") => job[worker[w].run].attempts >= MaxAttempts

IInv ==
  /\ TypeInv
  /\ RowsFollowRequest
  /\ HandledRunsExist
  /\ LeaseColumnsAgree
  /\ HealthyWorkerKeepsItsJob
  /\ RetryHasAttemptsLeft
  /\ QueuedJobHasAttemptsLeft
  /\ GiveUpHasNoneLeft
  /\ PastIsBehind
  /\ NoRunLeftBehind

-----------------------------------------------------------------------------
(* What a step can do to the row of one run, and to the row of one job *)

RunMoves(r) ==
  \/ run'[r].status = run[r].status
  \/ InsertRun(r) /\ run'[r].status = "queued"
  \/ \E k \in Calls : /\ WriteCancel(k) /\ call[k].run = r
                      /\ run'[r].status \in {"cancelled", "cancelling"}
  \/ run[r].status = "queued" /\ run'[r].status = "running"
  \/ run[r].status \in Inflight /\ run'[r].status \in Terminal
  \/ \E w \in Workers : /\ FailRun(w) /\ worker[w].run = r
                        /\ run[r].status \notin Terminal /\ run'[r].status = "failed"

LEMMA RunMove == ASSUME TypeInv, [Next]_vars, NEW r \in Runs PROVE RunMoves(r)
<1> USE DEF TypeInv
<1> RunsOK BY DEF TypeOK, TablesTypeOK, RunsOK
<1>1. ASSUME NEW q \in Runs, InsertRun(q) PROVE RunMoves(r)
  BY <1>1, InsertRunEffect DEF RunBecomes, OtherRuns, RunMoves
<1>2. ASSUME NEW k \in Calls, WriteCancel(k) PROVE RunMoves(r)
  BY <1>2, WriteCancelEffect DEF RunBecomes, OtherRuns, RunMoves
<1>3. ASSUME NEW w \in Workers, StartRun(w) PROVE RunMoves(r)
  BY <1>3, StartRunEffect DEF RunBecomes, OtherRuns, RunMoves
<1>4. ASSUME NEW w \in Workers, Finalize(w) PROVE RunMoves(r)
  BY <1>4, FinalizeEffect DEF RunBecomes, OtherRuns, RunMoves, Finalizable
<1>5. ASSUME NEW w \in Workers, FailRun(w) PROVE RunMoves(r)
  BY <1>5, FailRunEffect DEF RunBecomes, OtherRuns, RunMoves
<1>6. run' = run => RunMoves(r) BY DEF RunMoves
<1> QED
  BY <1>1, <1>2, <1>3, <1>4, <1>5, <1>6
  DEF Next, ControlNext, WorkerNext, TimePasses, Enqueue, Cancel, Proceed, vars,
      tableVars, controlVars, processVars, SpendFault, CheckCampaign, CountProject, CountGlobal,
      Throttle, InsertJob,
      EnqueueDies, Pause, Resume, ReadRun, DropJob, CancelDies, Claim, LoadContext,
      Work, RecheckCancellation, CheckLease, RecordEvidence, Complete,
      ReturnLeaseLost, ReadAttempts, Requeue, GiveUpJob, Throw, AbandonCatch,
      Heartbeat, Stall, Crash, LeaseExpires, BackoffElapses

JobIs(r, status, owner, lease, attempts) ==
  /\ job'[r].status = status /\ job'[r].owner = owner
  /\ job'[r].lease = lease /\ job'[r].attempts = attempts

JobMoves(r) ==
  \/ JobIs(r, job[r].status, job[r].owner, job[r].lease, job[r].attempts)
  \/ InsertJob(r) /\ JobIs(r, "queued", NoWorker, "none", 0)
  \/ \E w \in Workers : /\ Claim(w, r) /\ worker'[w].pc = "claimed"
                        /\ JobIs(r, "running", w, "live", job[r].attempts + 1)
  \/ \E w \in Workers :
       /\ worker[w].run = r /\ Owns(w, r) /\ worker'[w].pc \in {"idle", "failRun"}
       /\ \/ Complete(w) /\ job'[r].status \in SettledStatuses
          \/ GiveUpJob(w) /\ job'[r].status = "failed"
          \/ Requeue(w) /\ job'[r].status = "queued"
       /\ JobIs(r, job'[r].status, NoWorker, "none", job[r].attempts)
  \/ \E k \in Calls :
       /\ DropJob(k) /\ call[k].run = r /\ job[r].status # "absent"
       /\ JobIs(r, "cancelled", NoWorker, "none", job[r].attempts)
  \/ \E w \in Workers :
       /\ Heartbeat(w) /\ worker[w].run = r /\ Extendable(r, w)
       /\ JobIs(r, "running", w, "live", job[r].attempts)
  \/ LeaseExpires(r) /\ JobIs(r, "running", job[r].owner, "expired", job[r].attempts)

LEMMA JobMove == ASSUME TypeInv, [Next]_vars, NEW r \in Runs PROVE JobMoves(r)
<1> USE DEF TypeInv, JobBecomes, OtherJobs, JobIs
<1> JobsOK BY DEF TypeOK, TablesTypeOK, JobsOK
<1>0. job'[r] = job[r] => JobMoves(r) BY DEF JobMoves
<1>1. ASSUME NEW q \in Runs, InsertJob(q) PROVE JobMoves(r)
  BY <1>0, <1>1, InsertJobEffect DEF JobMoves
<1>2. ASSUME NEW w \in Workers, NEW q \in Runs, Claim(w, q) PROVE JobMoves(r)
  BY <1>0, <1>2, ClaimJobEffect, ClaimWorkerEffect DEF JobMoves, TypeOK
<1>3. ASSUME NEW w \in Workers, Complete(w) PROVE JobMoves(r)
  <2>1. worker'[w].pc = "idle" BY <1>3, WithoutJobEffect DEF Complete, BeIdle, TypeOK
  <2> QED BY <1>0, <1>3, <2>1, CompleteEffect DEF JobMoves
<1>4. ASSUME NEW w \in Workers, GiveUpJob(w) PROVE JobMoves(r)
  <2>1. worker'[w].pc = "failRun"
    BY <1>4, AtBusy, GoToEffect DEF GiveUpJob, BusyPcs, TypeOK
  <2> QED BY <1>0, <1>4, <2>1, GiveUpEffect DEF JobMoves
<1>5. ASSUME NEW w \in Workers, Requeue(w) PROVE JobMoves(r)
  <2>1. worker'[w].pc = "idle" BY <1>5, WithoutJobEffect DEF Requeue, BeIdle, TypeOK
  <2> QED BY <1>0, <1>5, <2>1, RequeueActionEffect DEF JobMoves
<1>6. ASSUME NEW k \in Calls, DropJob(k) PROVE JobMoves(r)
  BY <1>0, <1>6, DropJobEffect DEF JobMoves
<1>7. ASSUME NEW w \in Workers, Heartbeat(w) PROVE JobMoves(r)
  BY <1>0, <1>7, HeartbeatJobEffect DEF JobMoves
<1>8. ASSUME NEW q \in Runs, LeaseExpires(q) PROVE JobMoves(r)
  BY <1>0, <1>8, LeaseExpiresEffect DEF JobMoves
<1>9. ASSUME NEW q \in Runs, BackoffElapses(q) PROVE JobMoves(r)
  <2>1. CASE q = r BY <1>9, <2>1, BackoffEffect DEF JobMoves, BackoffElapses
  <2>2. CASE q # r BY <1>0, <1>9, <2>2, BackoffEffect
  <2> QED BY <2>1, <2>2
<1> QED
  BY <1>0, <1>1, <1>2, <1>3, <1>4, <1>5, <1>6, <1>7, <1>8, <1>9
  DEF Next, ControlNext, WorkerNext, TimePasses, Enqueue, Cancel, Proceed, vars,
      tableVars, controlVars, processVars, SpendFault, CheckCampaign, CountProject, CountGlobal,
      Throttle, InsertRun,
      EnqueueDies, Pause, Resume, ReadRun, WriteCancel, CancelDies, LoadContext,
      StartRun, Work, RecheckCancellation, CheckLease, Finalize, RecordEvidence,
      ReturnLeaseLost, ReadAttempts, FailRun, Throw, AbandonCatch, Stall, Crash

(* ... and to one worker *)

SameJobAs(v) ==
  worker'[v].run = worker[v].run /\ worker'[v].heartbeat = worker[v].heartbeat

WorkerMoves(v) ==
  \/ worker'[v] = worker[v]
  \/ worker'[v].pc \in {"idle", "dead"}
  \/ \E r \in Runs : Claim(v, r) /\ worker'[v].pc = "claimed" /\ worker'[v].run = r
  \/ /\ Busy(v) /\ worker[v].pc # "failRun" /\ SameJobAs(v)
     /\ \/ worker'[v].pc \in {"loaded", "executing", "worked", "rechecked",
                              "owned", "caught"}
        \/ /\ worker'[v].pc = "reported"
           /\ worker[v].pc = "finalized" \/ run[worker[v].run].status = "cancelled"
        \/ worker'[v].pc = "finalized" /\ Finalize(v)
        \/ worker'[v].pc \in {"retry", "giveUp"} /\ ReadAttempts(v)
        \/ worker'[v].pc = "failRun"
  \/ /\ Heartbeat(v)
     /\ worker'[v].pc = worker[v].pc /\ worker'[v].run = worker[v].run
     /\ worker'[v].heartbeat = "beating" => Extendable(worker[v].run, v)
  \/ /\ Busy(v) /\ worker'[v].pc = worker[v].pc /\ worker'[v].run = worker[v].run
     /\ worker'[v].heartbeat = "stalled"

LEMMA WorkerMove == ASSUME TypeInv, [Next]_vars, NEW v \in Workers PROVE WorkerMoves(v)
<1> USE AtBusy, OutcomesAssumption DEF TypeInv, BusyPcs, BeIdle, Catch, OtherWorkers, SameJobAs
<1> WorkerTypeOK BY DEF TypeOK
<1>0. worker'[v] = worker[v] => WorkerMoves(v) BY DEF WorkerMoves
<1>1. ASSUME NEW w \in Workers, NEW r \in Runs, Claim(w, r) PROVE WorkerMoves(v)
  BY <1>0, <1>1, ClaimWorkerEffect DEF WorkerMoves
<1>2. ASSUME NEW w \in Workers, LoadContext(w) PROVE WorkerMoves(v)
  BY <1>0, <1>2, GoToEffect, GoToWithEffect DEF LoadContext, At, WorkerMoves, Terminal
<1>3. ASSUME NEW w \in Workers, StartRun(w) PROVE WorkerMoves(v)
  BY <1>0, <1>3, GoToEffect DEF StartRun, At, WorkerMoves
<1>4. ASSUME NEW w \in Workers, Work(w) PROVE WorkerMoves(v)
  BY <1>0, <1>4, GoToWithEffect DEF Work, At, WorkerMoves, Terminal
<1>5. ASSUME NEW w \in Workers, RecheckCancellation(w) PROVE WorkerMoves(v)
  BY <1>0, <1>5, GoToEffect, GoToWithEffect DEF RecheckCancellation, At, WorkerMoves, Terminal
<1>6. ASSUME NEW w \in Workers, CheckLease(w) PROVE WorkerMoves(v)
  BY <1>0, <1>6, GoToEffect, GoToWithEffect DEF CheckLease, At, WorkerMoves, Terminal
<1>7. ASSUME NEW w \in Workers, Finalize(w) PROVE WorkerMoves(v)
  <2>1. Busy(w) /\ worker[w].pc = "owned" /\ GoTo(w, "finalized")
    BY <1>7 DEF Finalize, At, Busy
  <2> QED BY <1>0, <1>7, <2>1, GoToEffect DEF WorkerMoves
<1>8. ASSUME NEW w \in Workers, RecordEvidence(w) PROVE WorkerMoves(v)
  BY <1>0, <1>8, GoToEffect DEF RecordEvidence, At, WorkerMoves
<1>9. ASSUME NEW w \in Workers, ReadAttempts(w) PROVE WorkerMoves(v)
  <2>1. Busy(w) /\ worker[w].pc = "caught" /\ (GoTo(w, "retry") \/ GoTo(w, "giveUp"))
    BY <1>9 DEF ReadAttempts, At, Busy
  <2> QED BY <1>0, <1>9, <2>1, GoToEffect DEF WorkerMoves
<1>10. ASSUME NEW w \in Workers, GiveUpJob(w) PROVE WorkerMoves(v)
  BY <1>0, <1>10, GoToEffect DEF GiveUpJob, At, WorkerMoves
<1>11. ASSUME NEW w \in Workers, Throw(w) PROVE WorkerMoves(v)
  BY <1>0, <1>11, GoToWithEffect DEF Throw, At, WorkerMoves, Terminal
<1>12. ASSUME NEW w \in Workers, Complete(w) PROVE WorkerMoves(v)
  BY <1>0, <1>12, WithoutJobEffect DEF Complete, WorkerMoves
<1>13. ASSUME NEW w \in Workers, ReturnLeaseLost(w) PROVE WorkerMoves(v)
  BY <1>0, <1>13, WithoutJobEffect DEF ReturnLeaseLost, WorkerMoves
<1>14. ASSUME NEW w \in Workers, Requeue(w) PROVE WorkerMoves(v)
  BY <1>0, <1>14, WithoutJobEffect DEF Requeue, WorkerMoves
<1>15. ASSUME NEW w \in Workers, FailRun(w) PROVE WorkerMoves(v)
  BY <1>0, <1>15, WithoutJobEffect DEF FailRun, WorkerMoves
<1>16. ASSUME NEW w \in Workers, AbandonCatch(w) PROVE WorkerMoves(v)
  BY <1>0, <1>16, WithoutJobEffect DEF AbandonCatch, WorkerMoves
<1>17. ASSUME NEW w \in Workers, Crash(w) PROVE WorkerMoves(v)
  BY <1>0, <1>17, WithoutJobEffect DEF Crash, WorkerMoves
<1>18. ASSUME NEW w \in Workers, Heartbeat(w) PROVE WorkerMoves(v)
  <2> DEFINE h == IF Extendable(worker[w].run, w) THEN "beating" ELSE "lost"
  <2>1. Busy(w) /\ worker' = [worker EXCEPT ![w].heartbeat = h] BY <1>18 DEF Heartbeat
  <2>2. h \in {"beating", "stalled", "lost"}
        /\ (h = "beating" => Extendable(worker[w].run, w)) OBVIOUS
  <2> HIDE DEF h
  <2> QED BY <1>0, <1>18, <2>1, <2>2, HeartbeatEffect DEF WorkerMoves
<1>19. ASSUME NEW w \in Workers, Stall(w) PROVE WorkerMoves(v)
  BY <1>0, <1>19, HeartbeatEffect DEF Stall, Beating, WorkerMoves
<1> QED
  BY <1>0, <1>1, <1>2, <1>3, <1>4, <1>5, <1>6, <1>7, <1>8, <1>9, <1>10, <1>11, <1>12, <1>13, <1>14, <1>15, <1>16, <1>17, <1>18, <1>19
  DEF Next, ControlNext, WorkerNext, TimePasses, Enqueue, Cancel, Proceed, vars,
      tableVars, controlVars, processVars, SpendFault, CheckCampaign, CountProject, CountGlobal,
      Throttle, InsertRun, InsertJob,
      EnqueueDies, Pause, Resume, ReadRun, WriteCancel, DropJob, CancelDies,
      LeaseExpires, BackoffElapses

-----------------------------------------------------------------------------
(* The steps of the inductive invariant *)

(* A request has no row until it inserts one. *)
RequestMoves(r) ==
  \/ request'[r] = request[r]
  \/ request[r] \in Early /\ request'[r] \in Early /\ UNCHANGED <<run, job>>
  \/ InsertRun(r) /\ request'[r] = "inserted" /\ request[r] = "admitted"
  \/ InsertJob(r) /\ request'[r] = "done"
  \/ request'[r] = "dead" /\ request[r] # "done" /\ UNCHANGED <<run, job>>

LEMMA RequestMove == ASSUME TypeInv, [Next]_vars, NEW r \in Runs PROVE RequestMoves(r)
<1> request \in [Runs -> RequestState] BY DEF TypeInv, TypeOK, ControlTypeOK
<1>0. request' = request => RequestMoves(r) BY DEF RequestMoves
<1>1. ASSUME NEW q \in Runs,
             CheckCampaign(q) \/ CountProject(q) \/ CountGlobal(q) \/ Throttle(q)
      PROVE  RequestMoves(r)
  <2>1. /\ request[q] \in Early /\ UNCHANGED <<run, job>>
        /\ \E s \in Early : request' = [request EXCEPT ![q] = s]
    BY <1>1 DEF CheckCampaign, CountProject, CountGlobal, Throttle, Early,
                RequestState, tableVars
  <2> QED BY <2>1 DEF RequestMoves
<1>2. ASSUME NEW q \in Runs, InsertRun(q) PROVE RequestMoves(r)
  BY <1>2 DEF InsertRun, RequestMoves
<1>3. ASSUME NEW q \in Runs, InsertJob(q) PROVE RequestMoves(r)
  BY <1>3 DEF InsertJob, RequestMoves
<1>4. ASSUME NEW q \in Runs, EnqueueDies(q) PROVE RequestMoves(r)
  BY <1>4 DEF EnqueueDies, RequestMoves
<1> QED
  BY <1>0, <1>1, <1>2, <1>3, <1>4
  DEF Next, ControlNext, WorkerNext, TimePasses, Enqueue, Cancel, Proceed, vars,
      tableVars, controlVars, processVars, Pause, Resume, ReadRun, WriteCancel,
      DropJob, CancelDies, Claim, LoadContext, StartRun, Work,
      RecheckCancellation, CheckLease, Finalize, RecordEvidence, Complete,
      ReturnLeaseLost, ReadAttempts, Requeue, GiveUpJob, FailRun, Throw,
      AbandonCatch, Heartbeat, Stall, Crash, LeaseExpires, BackoffElapses

LEMMA RowsFollowRequestStep ==
  ASSUME IInv, [Next]_vars PROVE RowsFollowRequest'
<1> SUFFICES ASSUME NEW r \in Runs
             PROVE  /\ request'[r] \in Early => run'[r].status = "absent"
                    /\ request'[r] # "done" => job'[r].status = "absent"
  BY DEF RowsFollowRequest
<1> USE DEF IInv
<1>1. /\ request[r] \in Early => run[r].status = "absent"
      /\ request[r] # "done" => job[r].status = "absent"
  BY DEF RowsFollowRequest
<1>2. RequestMoves(r) BY RequestMove
<1>3. request'[r] \in Early => run'[r].status = "absent"
  <2> SUFFICES ASSUME request'[r] \in Early
               PROVE  run'[r].status = "absent" OBVIOUS
  <2>1. request[r] \in Early BY <1>2 DEF RequestMoves, Early
  <2>2. run[r].status = "absent" BY <1>1, <2>1
  <2>3. ~InsertRun(r) BY <1>2 DEF RequestMoves, Early, InsertRun, TypeInv, TypeOK, ControlTypeOK
  <2>4. \A k \in Calls : ~(WriteCancel(k) /\ call[k].run = r)
    BY <2>2 DEF HandledRunsExist, WriteCancel
  <2>5. \A w \in Workers : ~(FailRun(w) /\ worker[w].run = r)
    BY <2>2 DEF HandledRunsExist, FailRun, At, Busy, BusyPcs
  <2> QED BY <2>2, <2>3, <2>4, <2>5, RunMove DEF RunMoves, Inflight
<1>4. request'[r] # "done" => job'[r].status = "absent"
  <2> SUFFICES ASSUME request'[r] # "done" PROVE job'[r].status = "absent" OBVIOUS
  <2>1. ~InsertJob(r) BY DEF InsertJob, TypeInv, TypeOK, ControlTypeOK
  <2>2. job[r].status = "absent" BY <1>1, <1>2 DEF RequestMoves, Early
  <2>3. job[r].owner = NoWorker BY <2>2 DEF LeaseColumnsAgree
  <2>4. \A w \in Workers : ~Owns(w, r) /\ ~Extendable(r, w) /\ ~Claim(w, r)
    BY <2>2, <2>3, TablesAssumption DEF Owns, Extendable, Claim, Claimable
  <2>5. ~LeaseExpires(r) BY <2>2 DEF LeaseExpires
  <2> QED BY <2>1, <2>2, <2>4, <2>5, JobMove DEF JobMoves, JobIs
<1> QED BY <1>3, <1>4

(* A row that is there stays. *)
LEMMA RowsStay ==
  ASSUME IInv, [Next]_vars, NEW r \in Runs
  PROVE  /\ run[r].status # "absent" => run'[r].status # "absent"
         /\ job[r].status # "absent" => job'[r].status # "absent"
<1>1. RunMoves(r) /\ JobMoves(r) BY RunMove, JobMove DEF IInv
<1>2. run[r].status # "absent" => run'[r].status # "absent"
  BY <1>1 DEF RunMoves, Terminal
<1>3. job[r].status # "absent" => job'[r].status # "absent"
  BY <1>1 DEF JobMoves, JobIs, SettledStatuses
<1> QED BY <1>2, <1>3

(* Where a cancel call goes: what it names was there, and is answered. *)
LEMMA CallMove ==
  ASSUME TypeInv, [Next]_vars, NEW k \in Calls
  PROVE  \/ call'[k] = call[k]
         \/ call'[k].pc \in {"ready", "done"}
         \/ /\ call'[k].pc = "write" /\ call'[k].run \in Runs
            /\ run[call'[k].run].status \in Inflight
         \/ /\ call'[k].pc = "dropJob" /\ call'[k].run = call[k].run
            /\ call[k].pc = "write" /\ WriteCancel(k)
<1> USE DEF TypeInv, TypeOK, ControlTypeOK
<1> DEFINE Moves == \/ call'[k] = call[k]
                    \/ call'[k].pc \in {"ready", "done"}
                    \/ /\ call'[k].pc = "write" /\ call'[k].run \in Runs
                       /\ run[call'[k].run].status \in Inflight
                    \/ /\ call'[k].pc = "dropJob" /\ call'[k].run = call[k].run
                       /\ call[k].pc = "write" /\ WriteCancel(k)
<1>1. ASSUME NEW c \in Calls, NEW r \in Runs, ReadRun(c, r) PROVE Moves
  BY <1>1 DEF ReadRun
<1>2. ASSUME NEW c \in Calls, WriteCancel(c) PROVE Moves
  <2>1. call[c].pc = "write" /\ call[c] \in [pc : {"write", "dropJob"}, run : Runs, seen : Inflight]
    BY <1>2 DEF WriteCancel, CallState, NotCalled, Answered
  <2>2. CASE c = k
    <3>1. CASE call[k].seen = "queued"
      <4>1. call'[k] = [call[k] EXCEPT !.pc = "dropJob"]
        BY <1>2, <2>2, <3>1 DEF WriteCancel
      <4> QED BY <1>2, <2>1, <2>2, <4>1
    <3>2. CASE call[k].seen # "queued"
      <4>1. call'[k] = Answered BY <1>2, <2>2, <3>2 DEF WriteCancel
      <4> QED BY <4>1 DEF Answered
    <3> QED BY <3>1, <3>2
  <2>3. CASE c # k BY <1>2, <2>3 DEF WriteCancel
  <2> QED BY <2>2, <2>3
<1>3. ASSUME NEW c \in Calls, DropJob(c) PROVE Moves
  BY <1>3 DEF DropJob, Answered
<1>4. ASSUME NEW c \in Calls, CancelDies(c) PROVE Moves
  BY <1>4 DEF CancelDies, NotCalled
<1> QED
  BY <1>1, <1>2, <1>3, <1>4
  DEF Next, ControlNext, WorkerNext, TimePasses, Enqueue, Cancel, Proceed, vars,
      tableVars, controlVars, processVars, SpendFault, CheckCampaign, CountProject, CountGlobal,
      Throttle, InsertRun, InsertJob,
      EnqueueDies, Pause, Resume, Claim, LoadContext, StartRun, Work,
      RecheckCancellation, CheckLease, Finalize, RecordEvidence, Complete,
      ReturnLeaseLost, ReadAttempts, Requeue, GiveUpJob, FailRun, Throw,
      AbandonCatch, Heartbeat, Stall, Crash, LeaseExpires, BackoffElapses

LEMMA HandledRunsExistStep ==
  ASSUME IInv, [Next]_vars PROVE HandledRunsExist'
<1> USE DEF IInv
<1>1. ASSUME NEW w \in Workers, Busy(w)'
      PROVE  /\ run'[worker'[w].run].status # "absent"
             /\ job'[worker'[w].run].status # "absent"
  <2> DEFINE r == worker'[w].run
  <2>1. r \in Runs /\ run[r].status # "absent" /\ job[r].status # "absent"
    <3>1. CASE Busy(w) /\ worker'[w].run = worker[w].run
      BY <3>1, BusyWorker DEF HandledRunsExist, TypeInv, TypeOK
    <3>2. CASE \E q \in Runs : Claim(w, q) /\ worker'[w].run = q
      BY <3>2 DEF Claim, Claimable, Inflight
    <3>3. \/ Busy(w) /\ worker'[w].run = worker[w].run
          \/ \E q \in Runs : Claim(w, q) /\ worker'[w].run = q
      BY <1>1, WorkerMove DEF WorkerMoves, Busy, BusyPcs, SameJobAs, Heartbeat
    <3> QED BY <3>1, <3>2, <3>3
  <2> QED BY <2>1, RowsStay
<1>2. ASSUME NEW k \in Calls, call'[k].pc \in {"write", "dropJob"}
      PROVE  run'[call'[k].run].status # "absent"
  <2> DEFINE r == call'[k].run
  <2>1. r \in Runs /\ run[r].status # "absent"
    <3>1. call[k].pc \in {"write", "dropJob"} => call[k].run \in Runs
      BY DEF TypeInv, TypeOK, ControlTypeOK, CallState, NotCalled, Answered
    <3> QED BY <1>2, <3>1, CallMove DEF HandledRunsExist, Inflight
  <2> QED BY <2>1, RowsStay
<1> QED BY <1>1, <1>2 DEF HandledRunsExist

LEMMA LeaseColumnsAgreeStep ==
  ASSUME IInv, [Next]_vars PROVE LeaseColumnsAgree'
<1> SUFFICES ASSUME NEW r \in Runs
             PROVE  /\ job'[r].status = "running" <=> job'[r].owner # NoWorker
                    /\ job'[r].lease # "none" <=> job'[r].owner # NoWorker
  BY DEF LeaseColumnsAgree
<1>1. JobMoves(r) BY JobMove DEF IInv
<1>2. /\ job[r].status = "running" <=> job[r].owner # NoWorker
      /\ job[r].lease # "none" <=> job[r].owner # NoWorker
  BY DEF IInv, LeaseColumnsAgree
<1> QED
  BY <1>1, <1>2, TablesAssumption
  DEF JobMoves, JobIs, SettledStatuses, LeaseExpires

LEMMA HealthyWorkerKeepsItsJobStep ==
  ASSUME IInv, [Next]_vars PROVE HealthyWorkerKeepsItsJob'
<1> USE DEF IInv
<1> DEFINE Keeps(w, row) == \/ row.status = "cancelled"
                            \/ row.status = "running" /\ row.owner = w /\ row.lease = "live"
<1> SUFFICES ASSUME NEW v \in Workers, Holding(v)'
             PROVE  Keeps(v, job'[worker'[v].run])
  BY DEF HealthyWorkerKeepsItsJob
<1>1. /\ worker'[v].pc \in BusyPcs /\ worker'[v].pc # "failRun"
      /\ worker'[v].heartbeat = "beating"
  BY DEF Holding, Beating, Busy
<1>2. CASE \E r \in Runs : Claim(v, r) /\ worker'[v].run = r
  BY <1>2, ClaimJobEffect DEF JobBecomes, TypeInv, TypeOK, TablesTypeOK, JobsOK
<1>3. CASE Heartbeat(v) /\ worker'[v].run = worker[v].run /\ Extendable(worker[v].run, v)
  BY <1>3, HeartbeatJobEffect DEF JobBecomes, TypeInv
<1>4. CASE Holding(v) /\ worker'[v].run = worker[v].run
  <2> DEFINE r == worker[v].run
  <2>1. r \in Runs BY <1>4, BusyWorker DEF Holding, Beating, TypeInv, TypeOK
  <2>2. Keeps(v, job[r]) BY <1>4 DEF HealthyWorkerKeepsItsJob
  <2>3. ~InsertJob(r)
    BY <2>1, <2>2 DEF InsertJob, RowsFollowRequest
  <2>4. \A w \in Workers : ~Claim(w, r)
    BY <2>2 DEF Claim, Claimable
  <2>5. \A w \in Workers : Owns(w, r) => w = v /\ job[r].status = "running"
    BY <2>1, <2>2, TablesAssumption DEF Owns, LeaseColumnsAgree
  <2>6. ~LeaseExpires(r)
    <3>1. LeaseExpires(r) => Owns(v, r) BY <2>2 DEF LeaseExpires, Owns
    <3> QED BY <3>1, <1>4 DEF LeaseExpires, Holding
  <2>7. JobMoves(r) BY <2>1, JobMove
  <2>8. \/ /\ job'[r].status = job[r].status /\ job'[r].owner = job[r].owner
           /\ job'[r].lease = job[r].lease
        \/ job'[r].status = "cancelled"
        \/ \E w \in Workers : /\ Extendable(r, w) /\ job'[r].status = "running"
                              /\ job'[r].owner = w /\ job'[r].lease = "live"
    <3> HIDE DEF r
    <3> QED BY <1>1, <2>3, <2>4, <2>5, <2>6, <2>7 DEF JobMoves, JobIs, BusyPcs
  <2>9. \A w \in Workers : Extendable(r, w) => w = v
    BY <2>5 DEF Extendable, Owns
  <2> QED BY <1>4, <2>2, <2>8, <2>9
<1>5. \/ \E r \in Runs : Claim(v, r) /\ worker'[v].run = r
      \/ Heartbeat(v) /\ worker'[v].run = worker[v].run /\ Extendable(worker[v].run, v)
      \/ Holding(v) /\ worker'[v].run = worker[v].run
  BY <1>1, WorkerMove
  DEF WorkerMoves, SameJobAs, Holding, Beating, Busy, BusyPcs
<1> QED BY <1>2, <1>3, <1>4, <1>5

LEMMA RetryHasAttemptsLeftStep ==
  ASSUME IInv, [Next]_vars PROVE RetryHasAttemptsLeft'
<1> USE DEF IInv
<1> SUFFICES ASSUME NEW v \in Workers, worker'[v].pc = "retry",
                    job'[worker'[v].run].owner = v
             PROVE  job'[worker'[v].run].attempts < MaxAttempts
  BY DEF RetryHasAttemptsLeft, At, Owns
<1> DEFINE r == worker[v].run
<1>1. /\ Busy(v) /\ worker'[v].run = r
      /\ ReadAttempts(v) \/ worker[v].pc = "retry"
  BY WorkerMove DEF WorkerMoves, SameJobAs, Busy, BusyPcs, Heartbeat
<1>2. r \in Runs BY <1>1, BusyWorker DEF TypeInv, TypeOK
<1>3. CASE ReadAttempts(v)
  <2>1. job[r].attempts < MaxAttempts
    <3>1. CASE job[r].attempts < MaxAttempts BY <3>1
    <3>2. CASE ~(job[r].attempts < MaxAttempts)
      <4>1. GoTo(v, "giveUp") BY <1>3, <3>2 DEF ReadAttempts
      <4>2. worker'[v].pc = "giveUp"
        BY <1>1, <4>1, GoToEffect DEF BusyPcs, TypeInv, TypeOK
      <4> QED BY <4>2
    <3> QED BY <3>1, <3>2
  <2>2. job' = job BY <1>3 DEF ReadAttempts, tableVars
  <2> QED BY <1>1, <2>1, <2>2
<1>4. CASE worker[v].pc = "retry"
  <2>1. JobMoves(r) BY <1>2, JobMove
  <2>2. ~Claim(v, r) BY <1>4 DEF Claim, At
  <2>3. job'[r].owner = v BY <1>1
  <2>4. job'[r].attempts = job[r].attempts /\ job[r].owner = v
    <3> HIDE DEF r
    <3> QED BY <2>1, <2>2, <2>3, TablesAssumption DEF JobMoves, JobIs, Extendable
  <2>5. job[r].attempts < MaxAttempts BY <1>4, <2>4 DEF RetryHasAttemptsLeft, At, Owns
  <2> QED BY <1>1, <2>4, <2>5
<1> QED BY <1>1, <1>3, <1>4

LEMMA QueuedJobHasAttemptsLeftStep ==
  ASSUME IInv, [Next]_vars PROVE QueuedJobHasAttemptsLeft'
<1> USE DEF IInv
<1> SUFFICES ASSUME NEW r \in Runs, job'[r].status = "queued"
             PROVE  job'[r].attempts < MaxAttempts
  BY DEF QueuedJobHasAttemptsLeft
<1>1. \A w \in Workers : Requeue(w) /\ worker[w].run = r /\ Owns(w, r)
        => job[r].attempts < MaxAttempts
  BY DEF Requeue, RetryHasAttemptsLeft
<1>2. job[r].status = "queued" => job[r].attempts < MaxAttempts
  BY DEF QueuedJobHasAttemptsLeft
<1>3. 0 < MaxAttempts BY TablesAssumption
<1> QED BY <1>1, <1>2, <1>3, JobMove DEF JobMoves, JobIs, SettledStatuses

(* Once inserted, a job's attempts only grow. *)
LEMMA AttemptsGrow ==
  ASSUME IInv, [Next]_vars, NEW r \in Runs, job[r].status # "absent"
  PROVE  job'[r].attempts >= job[r].attempts
<1>1. JobMoves(r) BY JobMove DEF IInv
<1>2. ~InsertJob(r) BY DEF InsertJob, IInv, RowsFollowRequest
<1>3. job[r].attempts \in Nat
  BY DEF IInv, TypeInv, TypeOK, TablesTypeOK, JobRow
<1> QED BY <1>1, <1>2, <1>3 DEF JobMoves, JobIs

LEMMA GiveUpHasNoneLeftStep ==
  ASSUME IInv, [Next]_vars PROVE GiveUpHasNoneLeft'
<1> USE DEF IInv
<1> SUFFICES ASSUME NEW v \in Workers, worker'[v].pc = "giveUp"
             PROVE  job'[worker'[v].run].attempts >= MaxAttempts
  BY DEF GiveUpHasNoneLeft, At
<1> DEFINE r == worker[v].run
<1>1. /\ Busy(v) /\ worker'[v].run = r
      /\ ReadAttempts(v) \/ worker[v].pc = "giveUp"
  BY WorkerMove DEF WorkerMoves, SameJobAs, Busy, BusyPcs, Heartbeat
<1>2. r \in Runs BY <1>1, BusyWorker DEF TypeInv, TypeOK
<1>3. job[r].attempts \in Nat /\ job'[r].attempts \in Nat
  BY <1>2, TypeStep DEF TypeInv, TypeOK, TablesTypeOK, JobRow
<1>4. CASE ReadAttempts(v)
  <2>1. job[r].attempts >= MaxAttempts
    <3>1. CASE job[r].attempts < MaxAttempts
      <4>1. GoTo(v, "retry") BY <1>4, <3>1 DEF ReadAttempts
      <4>2. worker'[v].pc = "retry"
        BY <1>1, <4>1, GoToEffect DEF BusyPcs, TypeInv, TypeOK
      <4> QED BY <4>2
    <3> QED BY <3>1, <1>3, TablesAssumption
  <2>2. job' = job BY <1>4 DEF ReadAttempts, tableVars
  <2> QED BY <1>1, <2>1, <2>2
<1>5. CASE worker[v].pc = "giveUp"
  <2>1. job[r].attempts >= MaxAttempts BY <1>5 DEF GiveUpHasNoneLeft, At
  <2>2. job[r].status # "absent" BY <1>1 DEF HandledRunsExist
  <2>3. job'[r].attempts >= job[r].attempts BY <1>2, <2>2, AttemptsGrow
  <2> QED BY <1>1, <1>3, <2>1, <2>3, TablesAssumption
<1> QED BY <1>1, <1>4, <1>5

(* No step takes a run back from the statuses that are behind a worker. *)
LEMMA PastStays ==
  ASSUME IInv, [Next]_vars, NEW r \in Runs, run[r].status \in Past
  PROVE  run'[r].status \in Past
<1>1. RunMoves(r) BY RunMove DEF IInv
<1>2. ~InsertRun(r)
  BY DEF InsertRun, IInv, RowsFollowRequest, Early, RequestState, Past, Terminal
<1> QED BY <1>1, <1>2 DEF RunMoves, Past, Terminal

LEMMA PastIsBehindStep ==
  ASSUME IInv, [Next]_vars PROVE PastIsBehind'
<1> USE DEF IInv
<1>1. ASSUME NEW v \in Workers, worker'[v].pc \in {"finalized", "reported"}
      PROVE  run'[worker'[v].run].status \in Past
  <2> DEFINE r == worker[v].run
  <2>1. /\ Busy(v) /\ worker'[v].run = r
        /\ \/ worker[v].pc \in {"finalized", "reported"}
           \/ run[r].status = "cancelled"
           \/ Finalize(v)
    BY <1>1, WorkerMove DEF WorkerMoves, SameJobAs, Busy, BusyPcs, Heartbeat
  <2>2. r \in Runs BY <2>1, BusyWorker DEF TypeInv, TypeOK
  <2>3. CASE run[r].status \in Past BY <2>1, <2>2, <2>3, PastStays
  <2>4. CASE Finalize(v)
    <3>1. run[r].status \in Inflight \cup Terminal
      BY <2>1, <2>2 DEF HandledRunsExist, TypeInv, TypeOK, TablesTypeOK, RunRow
    <3>2. \/ run[r].status \notin Inflight /\ run' = run
          \/ run'[r].status \in Terminal
      BY <2>4, FinalizeEffect DEF RunBecomes, TypeInv, Finalizable
    <3> QED BY <2>1, <3>1, <3>2 DEF Past
  <2>5. worker[v].pc \in {"finalized", "reported"} => run[r].status \in Past
    BY DEF PastIsBehind
  <2> QED BY <2>1, <2>3, <2>4, <2>5 DEF Past, Terminal
<1>2. ASSUME NEW k \in Calls, call'[k].pc = "dropJob"
      PROVE  run'[call'[k].run].status \in Past
  <2>1. CASE WriteCancel(k) /\ call'[k].run = call[k].run
    BY <2>1, WriteCancelEffect DEF RunBecomes, Past, Terminal, TypeInv
  <2>2. CASE call'[k] = call[k]
    <3>1. call[k].run \in Runs
      BY <1>2, <2>2 DEF TypeInv, TypeOK, ControlTypeOK, CallState, NotCalled, Answered
    <3>2. run[call[k].run].status \in Past BY <1>2, <2>2 DEF PastIsBehind
    <3> QED BY <2>2, <3>1, <3>2, PastStays
  <2> QED BY <1>2, <2>1, <2>2, CallMove
<1> QED BY <1>1, <1>2 DEF PastIsBehind

LEMMA NoRunLeftBehindStep ==
  ASSUME IInv, [Next]_vars PROVE NoRunLeftBehind'
<1> USE DEF IInv
<1> SUFFICES ASSUME NEW r \in Runs, job'[r].status \in SettledStatuses
             PROVE  \/ run'[r].status \notin {"queued", "running"}
                    \/ job'[r].status = "failed" /\ job'[r].attempts >= MaxAttempts
  BY DEF NoRunLeftBehind
<1>1. RunMoves(r) /\ JobMoves(r) BY RunMove, JobMove
<1>2. run[r].status \in Past => run'[r].status \notin {"queued", "running"}
  BY PastStays DEF Past, Terminal
(* a run whose rows are both there moves to queued or running only from there *)
<1>3. job[r].status # "absent" /\ run'[r].status \in {"queued", "running"}
        => run[r].status \in {"queued", "running"}
  <2>1. job[r].status # "absent" => ~InsertRun(r)
    BY DEF InsertRun, RowsFollowRequest, Early, RequestState
  <2> QED BY <1>1, <2>1 DEF RunMoves, Terminal
<1>4. CASE job[r].status \in SettledStatuses
  <2>1. \/ JobIs(r, job[r].status, job[r].owner, job[r].lease, job[r].attempts)
        \/ job'[r].status = "cancelled" /\ run[r].status \in Past
    <3>1. job[r].owner = NoWorker BY <1>4 DEF LeaseColumnsAgree, SettledStatuses
    <3>2. ~InsertJob(r) /\ ~LeaseExpires(r)
      BY <1>4 DEF InsertJob, RowsFollowRequest, LeaseExpires, SettledStatuses
    <3>3. \A w \in Workers : ~Owns(w, r) /\ ~Extendable(r, w) /\ ~Claim(w, r)
      BY <1>4, <3>1, TablesAssumption
      DEF Owns, Extendable, Claim, Claimable, SettledStatuses
    <3>4. \A k \in Calls : DropJob(k) /\ call[k].run = r => run[r].status \in Past
      BY DEF DropJob, PastIsBehind
    <3>5. JobMoves(r) BY <1>1
    <3> QED BY <3>2, <3>3, <3>4, <3>5 DEF JobMoves, JobIs
  <2>2. \/ run[r].status \notin {"queued", "running"}
        \/ job[r].status = "failed" /\ job[r].attempts >= MaxAttempts
    BY <1>4 DEF NoRunLeftBehind
  <2>3. job[r].status # "absent" BY <1>4 DEF SettledStatuses
  <2> QED BY <1>2, <1>3, <2>1, <2>2, <2>3 DEF JobIs
<1>5. CASE job[r].status \notin SettledStatuses
  <2>1. \/ \E w \in Workers : Complete(w) /\ worker[w].run = r
        \/ \E k \in Calls : DropJob(k) /\ call[k].run = r
        \/ \E w \in Workers : /\ GiveUpJob(w) /\ worker[w].run = r
                              /\ job'[r].status = "failed"
                              /\ job'[r].attempts = job[r].attempts
    BY <1>1, <1>5 DEF JobMoves, JobIs, SettledStatuses
  <2>2. (\E w \in Workers : Complete(w) /\ worker[w].run = r) => run[r].status \in Past
    BY DEF Complete, At, PastIsBehind
  <2>3. (\E k \in Calls : DropJob(k) /\ call[k].run = r) => run[r].status \in Past
    BY DEF DropJob, PastIsBehind
  <2>4. (\E w \in Workers : GiveUpJob(w) /\ worker[w].run = r)
          => job[r].attempts >= MaxAttempts
    BY DEF GiveUpJob, GiveUpHasNoneLeft
  <2> QED BY <1>2, <2>1, <2>2, <2>3, <2>4
<1> QED BY <1>4, <1>5

-----------------------------------------------------------------------------
(* The theorems *)

LEMMA IInvInit == Init => IInv
<1> SUFFICES ASSUME Init PROVE IInv OBVIOUS
<1> USE DEF Init, TablesInit, ControlInit, WorkerInit
<1>1. TypeInv BY TypeInit
<1>2. RowsFollowRequest BY DEF RowsFollowRequest, Early, RequestState, NoRunRow, NoJobRow
<1>3. \A w \in Workers : ~Busy(w) /\ worker[w].pc = "idle"
  BY DEF Busy, BusyPcs, WithoutJob
<1>4. \A k \in Calls : call[k].pc = "ready" BY DEF NotCalled
<1>5. HandledRunsExist /\ PastIsBehind BY <1>3, <1>4 DEF HandledRunsExist, PastIsBehind
<1>6. HealthyWorkerKeepsItsJob /\ RetryHasAttemptsLeft /\ GiveUpHasNoneLeft
  BY <1>3 DEF HealthyWorkerKeepsItsJob, Holding, Beating, RetryHasAttemptsLeft,
              GiveUpHasNoneLeft, At
<1>7. LeaseColumnsAgree /\ QueuedJobHasAttemptsLeft /\ NoRunLeftBehind
  BY DEF LeaseColumnsAgree, QueuedJobHasAttemptsLeft, NoRunLeftBehind, NoJobRow,
         SettledStatuses
<1> QED BY <1>1, <1>2, <1>5, <1>6, <1>7 DEF IInv

LEMMA IInvStep == IInv /\ [Next]_vars => IInv'
<1> SUFFICES ASSUME IInv, [Next]_vars PROVE IInv' OBVIOUS
<1>1. TypeInv' BY TypeStep DEF IInv
<1> QED
  BY <1>1, RowsFollowRequestStep, HandledRunsExistStep, LeaseColumnsAgreeStep,
     HealthyWorkerKeepsItsJobStep, RetryHasAttemptsLeftStep,
     QueuedJobHasAttemptsLeftStep, GiveUpHasNoneLeftStep, PastIsBehindStep,
     NoRunLeftBehindStep
  DEF IInv

(* The inductive invariant the safety theorems below rest on: no statement of *)
(* the queue, the workers or the control plane's run endpoints breaks it.     *)
THEOREM Invariance == Spec => []IInv
BY IInvInit, IInvStep, PTL DEF Spec

(* The lease columns of run_jobs agree with its status, whatever statement of *)
(* run-queue.ts or of cancelRun wrote the row last.                           *)
THEOREM LeasesAgree == Spec => []LeaseColumnsAgree
<1>1. IInv => LeaseColumnsAgree BY DEF IInv
<1> QED BY Invariance, <1>1, PTL

(* A worker whose heartbeats get through is the only one to hold its job      *)
(* (run-worker.ts 169-191), with any number of workers, runs and faults.      *)
THEOREM HealthyWorkersKeepTheirJobs == Spec => []HealthyWorkerKeepsItsJob
<1>1. IInv => HealthyWorkerKeepsItsJob BY DEF IInv
<1> QED BY Invariance, <1>1, PTL

(* executeClaimedJob's retry path never requeues a job that has used its      *)
(* attempts up (run-worker.ts 258-301).                                       *)
THEOREM QueuedJobsHaveAttemptsLeft == Spec => []QueuedJobHasAttemptsLeft
<1>1. IInv => QueuedJobHasAttemptsLeft BY DEF IInv
<1> QED BY Invariance, <1>1, PTL

(* A settled job leaves no run waiting for a worker, but the one whose        *)
(* attempts are used up (run-worker.ts 194-333, workflow-service.ts 1089).    *)
THEOREM NoRunIsLeftBehind == Spec => []NoRunLeftBehind
<1>1. IInv => NoRunLeftBehind BY DEF IInv
<1> QED BY Invariance, <1>1, PTL

LEMMA TerminalStep ==
  ASSUME IInv, [Next]_vars, NEW r \in Runs, run[r].status \in Terminal,
         run'[r].status # run[r].status
  PROVE  LateCancelOf(r)
<1>1. RunMoves(r) BY RunMove DEF IInv
<1>2. ~InsertRun(r) BY DEF InsertRun, IInv, RowsFollowRequest, Early, RequestState, Terminal
<1>3. PICK k \in Calls : WriteCancel(k) /\ call[k].run = r
  BY <1>1, <1>2 DEF RunMoves, Terminal, Inflight
<1>4. call[k].pc = "write" BY <1>3 DEF WriteCancel
<1>5. call'[k].pc # "write"
  <2>1. call[k] \in [pc : {"write", "dropJob"}, run : Runs, seen : Inflight]
    BY <1>4 DEF IInv, TypeInv, TypeOK, ControlTypeOK, CallState, NotCalled, Answered
  <2>2. CASE call[k].seen = "queued"
    <3>1. call'[k] = [call[k] EXCEPT !.pc = "dropJob"]
      BY <1>3, <2>2 DEF WriteCancel, IInv, TypeInv, TypeOK, ControlTypeOK
    <3> QED BY <2>1, <3>1
  <2>3. CASE call[k].seen # "queued"
    <3>1. call'[k] = Answered
      BY <1>3, <2>3 DEF WriteCancel, IInv, TypeInv, TypeOK, ControlTypeOK
    <3> QED BY <3>1 DEF Answered
  <2> QED BY <2>2, <2>3
<1> QED BY <1>3, <1>4, <1>5 DEF LateCancelOf

(* Only the write of a cancel call that read the run before it ended takes a  *)
(* run out of a terminal status: the guards of executeRunById's final update  *)
(* and of the retry_exhausted one hold against every interleaving.            *)
THEOREM OnlyLateCancelsReopen == Spec => OnlyLateCancelReopens
<1>1. IInv /\ [Next]_vars =>
        [\A r \in Runs : run[r].status \in Terminal /\ run'[r].status # run[r].status
                           => LateCancelOf(r)]_vars
  BY TerminalStep
<1> QED BY Invariance, <1>1, PTL DEF Spec, OnlyLateCancelReopens
=============================================================================
