-------------------------- MODULE RunPromiseProofs --------------------------
(***************************************************************************)
(* RunLifecycle implements RunPromise, for every set of runs, workers and  *)
(* cancel calls.                                                           *)
(***************************************************************************)
EXTENDS RunLifecycleProofs

Executing == {"executing", "worked", "rechecked", "owned"}

(* A worker past its start of a run has the run's queued status behind it. *)
BegunIsBehind ==
  \A w \in Workers : worker[w].pc \in Executing => run[worker[w].run].status # "queued"

(* A worker that will end a run as cancelled saw the request for it. *)
CancelWasAsked ==
  \A w \in Workers : worker[w].pc \in Reporting /\ worker[w].outcome = "cancelled"
    => run[worker[w].run].status \in Past

(* Two workers whose heartbeats get through are not at work on one run. *)
HoldersAreAlone ==
  \A v, w \in Workers : Holding(v) /\ Holding(w) /\ worker[v].run = worker[w].run => v = w

PInv == IInv /\ BegunIsBehind /\ CancelWasAsked /\ HoldersAreAlone

-----------------------------------------------------------------------------
(* What a step does to a worker that executes a run *)

(* v goes on with the same run and the same outcome. *)
KeepsOn(v) == worker'[v].run = worker[v].run /\ worker'[v].outcome = worker[v].outcome

ExecutionMoves(v) ==
  worker'[v].pc \in Executing =>
    \/ KeepsOn(v) /\ worker'[v].pc = worker[v].pc
    \/ /\ LoadContext(v) /\ worker'[v].pc = "executing" /\ KeepsOn(v)
       /\ run[worker[v].run].status # "queued"
    \/ StartRun(v) /\ worker'[v].pc = "executing" /\ KeepsOn(v)
    \/ /\ worker[v].pc \in Executing /\ worker'[v].run = worker[v].run
       /\ worker'[v].pc # "executing"
       /\ \/ worker[v].pc \in Reporting /\ worker'[v].outcome = worker[v].outcome
          \/ worker'[v].outcome = "cancelled" => run[worker[v].run].status \in CancelRequested

LEMMA ExecutionMove ==
  ASSUME TypeInv, [Next]_vars, NEW v \in Workers PROVE ExecutionMoves(v)
<1> USE AtBusy, OutcomesAssumption
    DEF TypeInv, BusyPcs, BeIdle, Catch, OtherWorkers, Executing, Reporting, KeepsOn
<1> WorkerTypeOK BY DEF TypeOK
<1>0. worker'[v] = worker[v] => ExecutionMoves(v) BY DEF ExecutionMoves
<1>1. ASSUME NEW w \in Workers, NEW r \in Runs, Claim(w, r) PROVE ExecutionMoves(v)
  BY <1>0, <1>1, ClaimWorkerEffect DEF ExecutionMoves
<1>2. ASSUME NEW w \in Workers, LoadContext(w) PROVE ExecutionMoves(v)
  BY <1>0, <1>2, GoToEffect, GoToWithEffect DEF LoadContext, ExecutionMoves, Terminal
<1>3. ASSUME NEW w \in Workers, StartRun(w) PROVE ExecutionMoves(v)
  BY <1>0, <1>3, GoToEffect DEF StartRun, ExecutionMoves
<1>4. ASSUME NEW w \in Workers, Work(w) PROVE ExecutionMoves(v)
  <2>1. Busy(w) /\ worker[w].pc = "executing" BY <1>4 DEF Work, At
  <2>2. PICK o \in Outcomes \cup {"cancelled"} :
          /\ o = "cancelled" => run[worker[w].run].status \in CancelRequested
          /\ GoToWith(w, "worked", o)
    BY <1>4 DEF Work
  <2>3. o \in Terminal \cup {"none"} BY <2>2 DEF Terminal
  <2> QED BY <1>0, <2>1, <2>2, <2>3, GoToWithEffect DEF ExecutionMoves
<1>5. ASSUME NEW w \in Workers, RecheckCancellation(w) PROVE ExecutionMoves(v)
  <2>1. Busy(w) /\ worker[w].pc = "worked" BY <1>5 DEF RecheckCancellation, At
  <2>2. CASE run[worker[w].run].status \in CancelRequested
    <3>1. GoToWith(w, "rechecked", "cancelled") BY <1>5, <2>2 DEF RecheckCancellation
    <3> QED BY <1>0, <2>1, <2>2, <3>1, GoToWithEffect DEF ExecutionMoves, Terminal
  <2>3. CASE run[worker[w].run].status \notin CancelRequested
    <3>1. GoTo(w, "rechecked") BY <1>5, <2>3 DEF RecheckCancellation
    <3> QED BY <1>0, <2>1, <3>1, GoToEffect DEF ExecutionMoves
  <2> QED BY <2>2, <2>3
<1>6. ASSUME NEW w \in Workers, CheckLease(w) PROVE ExecutionMoves(v)
  BY <1>0, <1>6, GoToEffect, GoToWithEffect DEF CheckLease, At, ExecutionMoves, Terminal
<1>7. ASSUME NEW w \in Workers, Finalize(w) PROVE ExecutionMoves(v)
  BY <1>0, <1>7, GoToEffect DEF Finalize, ExecutionMoves
<1>8. ASSUME NEW w \in Workers, RecordEvidence(w) PROVE ExecutionMoves(v)
  BY <1>0, <1>8, GoToEffect DEF RecordEvidence, ExecutionMoves
<1>9. ASSUME NEW w \in Workers, ReadAttempts(w) PROVE ExecutionMoves(v)
  BY <1>0, <1>9, GoToEffect DEF ReadAttempts, ExecutionMoves
<1>10. ASSUME NEW w \in Workers, GiveUpJob(w) PROVE ExecutionMoves(v)
  BY <1>0, <1>10, GoToEffect DEF GiveUpJob, ExecutionMoves
<1>11. ASSUME NEW w \in Workers, Throw(w) PROVE ExecutionMoves(v)
  BY <1>0, <1>11, GoToWithEffect DEF Throw, ExecutionMoves, Terminal
<1>12. ASSUME NEW w \in Workers,
              Complete(w) \/ ReturnLeaseLost(w) \/ Requeue(w) \/ FailRun(w)
              \/ AbandonCatch(w) \/ Crash(w)
       PROVE  ExecutionMoves(v)
  BY <1>0, <1>12, WithoutJobEffect
  DEF Complete, ReturnLeaseLost, Requeue, FailRun, AbandonCatch, Crash, ExecutionMoves
<1>13. ASSUME NEW w \in Workers, Heartbeat(w) PROVE ExecutionMoves(v)
  <2>1. /\ worker'[w].pc = worker[w].pc /\ worker'[w].run = worker[w].run
        /\ worker'[w].outcome = worker[w].outcome /\ OtherWorkers(w)
    BY <1>13, HeartbeatEffect DEF Heartbeat
  <2> QED BY <1>0, <2>1 DEF ExecutionMoves
<1>14. ASSUME NEW w \in Workers, Stall(w) PROVE ExecutionMoves(v)
  BY <1>0, <1>14, HeartbeatEffect DEF Stall, Beating, ExecutionMoves
<1> QED
  BY <1>0, <1>1, <1>2, <1>3, <1>4, <1>5, <1>6, <1>7, <1>8, <1>9, <1>10, <1>11, <1>12, <1>13, <1>14
  DEF Next, ControlNext, WorkerNext, TimePasses, Enqueue, Cancel, Proceed, vars,
      tableVars, controlVars, processVars, SpendFault, CheckCampaign, CountProject,
      CountGlobal, Throttle, InsertRun, InsertJob, EnqueueDies, Pause, Resume,
      ReadRun, WriteCancel, DropJob, CancelDies, LeaseExpires, BackoffElapses

(* A run does not go back to queued. *)
LEMMA QueuedIsPast ==
  ASSUME IInv, [Next]_vars, NEW r \in Runs, run[r].status \notin {"absent", "queued"}
  PROVE  run'[r].status # "queued"
<1>1. RunMoves(r) BY RunMove DEF IInv
<1>2. ~InsertRun(r) BY DEF InsertRun, IInv, RowsFollowRequest, Early, RequestState
<1> QED BY <1>1, <1>2 DEF RunMoves, Terminal

LEMMA BegunIsBehindStep ==
  ASSUME PInv, [Next]_vars PROVE BegunIsBehind'
<1> USE DEF PInv, IInv
<1> SUFFICES ASSUME NEW v \in Workers, worker'[v].pc \in Executing
             PROVE  run'[worker'[v].run].status # "queued"
  BY DEF BegunIsBehind
<1> DEFINE r == worker[v].run
<1>1. /\ Busy(v) /\ worker'[v].run = r
      /\ \/ worker[v].pc \in Executing
         \/ run[r].status # "queued"
         \/ StartRun(v)
  BY ExecutionMove
  DEF ExecutionMoves, KeepsOn, Executing, LoadContext, StartRun, At, Busy, BusyPcs
<1>2. r \in Runs /\ run[r].status # "absent"
  BY <1>1, BusyWorker DEF TypeInv, TypeOK, HandledRunsExist
<1>3. CASE run[r].status # "queued" BY <1>1, <1>2, <1>3, QueuedIsPast
<1>4. CASE StartRun(v)
  BY <1>1, <1>3, <1>4, StartRunEffect DEF TypeInv, RunBecomes
<1> QED BY <1>1, <1>3, <1>4 DEF BegunIsBehind

LEMMA CancelWasAskedStep ==
  ASSUME PInv, [Next]_vars PROVE CancelWasAsked'
<1> USE DEF PInv, IInv
<1> SUFFICES ASSUME NEW v \in Workers, worker'[v].pc \in Reporting,
                    worker'[v].outcome = "cancelled"
             PROVE  run'[worker'[v].run].status \in Past
  BY DEF CancelWasAsked
<1> DEFINE r == worker[v].run
<1>1. /\ Busy(v) /\ worker'[v].run = r
      /\ \/ worker[v].pc \in Reporting /\ worker[v].outcome = "cancelled"
         \/ run[r].status \in CancelRequested
  BY ExecutionMove
  DEF ExecutionMoves, KeepsOn, Executing, Reporting, Busy, BusyPcs
<1>2. r \in Runs BY <1>1, BusyWorker DEF TypeInv, TypeOK
<1>3. run[r].status \in Past
  BY <1>1 DEF CancelWasAsked, CancelRequested, Past, Terminal
<1> QED BY <1>1, <1>2, <1>3, PastStays

(* A worker comes to be at work on a run by a claim or a heartbeat. *)
LEMMA HolderMove ==
  ASSUME TypeInv, [Next]_vars, NEW v \in Workers, Holding(v)'
  PROVE  \/ \E r \in Runs : Claim(v, r) /\ worker'[v].run = r
         \/ Heartbeat(v) /\ worker'[v].run = worker[v].run /\ Extendable(worker[v].run, v)
         \/ Holding(v) /\ worker'[v].run = worker[v].run
<1>1. /\ worker'[v].pc \in BusyPcs /\ worker'[v].pc # "failRun"
      /\ worker'[v].heartbeat = "beating"
  BY DEF Holding, Beating, Busy
<1> QED BY <1>1, WorkerMove
  DEF WorkerMoves, SameJobAs, Holding, Beating, Busy, BusyPcs

LEMMA HoldersAreAloneStep ==
  ASSUME PInv, [Next]_vars PROVE HoldersAreAlone'
<1> USE DEF PInv, IInv
<1>1. ASSUME NEW v \in Workers, NEW w \in Workers, v # w, Holding(w)',
             worker'[v].run = worker'[w].run,
             \/ \E r \in Runs : Claim(v, r) /\ worker'[v].run = r
             \/ Heartbeat(v) /\ worker'[v].run = worker[v].run
                /\ Extendable(worker[v].run, v)
      PROVE  FALSE
  <2>1. worker'[w] = worker[w]
    <3>1. CASE \E r \in Runs : Claim(v, r)
      BY <1>1, <3>1, ClaimWorkerEffect DEF OtherWorkers, TypeInv, TypeOK
    <3>2. CASE Heartbeat(v)
      <4>1. OtherWorkers(v)
        BY <3>2, HeartbeatEffect DEF Heartbeat, TypeInv, TypeOK
      <4> QED BY <1>1, <4>1 DEF OtherWorkers
    <3> QED BY <1>1, <3>1, <3>2
  <2>2. Holding(w) /\ worker'[w].run = worker[w].run
    BY <1>1, <2>1 DEF Holding, Beating, Busy
  <2> DEFINE row == job[worker[w].run]
  <2>3. \/ row.status = "cancelled"
        \/ row.status = "running" /\ row.owner = w /\ row.lease = "live"
    BY <2>2 DEF HealthyWorkerKeepsItsJob
  <2>4. CASE \E r \in Runs : Claim(v, r) /\ worker'[v].run = r
    BY <1>1, <2>2, <2>3, <2>4 DEF Claim, Claimable
  <2>5. CASE Heartbeat(v) /\ worker'[v].run = worker[v].run /\ Extendable(worker[v].run, v)
    BY <1>1, <2>2, <2>3, <2>5 DEF Extendable
  <2> QED BY <1>1, <2>4, <2>5
<1>2. ASSUME NEW v \in Workers, NEW w \in Workers, Holding(v)', Holding(w)',
             worker'[v].run = worker'[w].run, v # w
      PROVE  FALSE
  <2>1. CASE Holding(v) /\ worker'[v].run = worker[v].run
             /\ Holding(w) /\ worker'[w].run = worker[w].run
    BY <1>2, <2>1 DEF HoldersAreAlone
  <2> QED BY <1>1, <1>2, <2>1, HolderMove
<1> QED BY <1>2 DEF HoldersAreAlone

LEMMA PInvInit == Init => PInv
<1> SUFFICES ASSUME Init PROVE PInv OBVIOUS
<1>1. \A w \in Workers : worker[w].pc = "idle" BY DEF Init, WorkerInit, WithoutJob
<1> QED BY <1>1, IInvInit
  DEF PInv, BegunIsBehind, Executing, CancelWasAsked, Reporting, HoldersAreAlone,
      Holding, Beating, Busy, BusyPcs

LEMMA PInvStep == PInv /\ [Next]_vars => PInv'
BY IInvStep, BegunIsBehindStep, CancelWasAskedStep, HoldersAreAloneStep DEF PInv

-----------------------------------------------------------------------------
(* Every step is one the promise allows *)

LEMMA StatusBecomes ==
  ASSUME NEW r \in Runs, NEW s, OtherRuns(r), run'[r].status = s
  PROVE  StatusOf' = [StatusOf EXCEPT ![r] = s]
BY DEF StatusOf, OtherRuns

(* A step of w on the run it works on, that does not stop or revive its       *)
(* heartbeats, is none that doing sees.                                      *)
LEMMA DoingStays ==
  ASSUME NEW w \in Workers, OtherWorkers(w), worker'[w].run = worker[w].run,
         Holding(w)' <=> Holding(w)
  PROVE  DoingOf' = DoingOf
BY DEF DoingOf, OtherWorkers, Holding, Beating, Busy

LEMMA OneWorkerMoves ==
  ASSUME WorkerTypeOK, [Next]_vars
  PROVE  worker' = worker \/ \E w \in Workers : OtherWorkers(w)
<1> DEFINE One == worker' = worker \/ \E w \in Workers : OtherWorkers(w)
<1>1. ASSUME NEW w \in Workers, \E state : worker' = [worker EXCEPT ![w] = state]
      PROVE  One
  BY <1>1 DEF OtherWorkers, WorkerTypeOK
<1>2. ASSUME NEW w \in Workers, NEW r \in Runs, Claim(w, r) PROVE One
  BY <1>1, <1>2 DEF Claim
<1>3. ASSUME NEW w \in Workers, Proceed(w) \/ Throw(w) \/ AbandonCatch(w)
             \/ Heartbeat(w) \/ Stall(w) \/ Crash(w)
      PROVE  One
  BY <1>1, <1>3
  DEF Proceed, LoadContext, StartRun, Work, RecheckCancellation, CheckLease,
      Finalize, RecordEvidence, Complete, ReturnLeaseLost, ReadAttempts, Requeue,
      GiveUpJob, FailRun, Throw, AbandonCatch, Heartbeat, Stall, Crash, GoTo,
      GoToWith, BeIdle, Catch
<1> HIDE DEF One
<1>4. worker' = worker => One BY DEF One
<1>5. One
  BY <1>2, <1>3, <1>4
  DEF Next, ControlNext, WorkerNext, TimePasses, Enqueue, Cancel, vars, processVars,
      CheckCampaign, CountProject, CountGlobal, Throttle, InsertRun, InsertJob,
      EnqueueDies, Pause, Resume, ReadRun, WriteCancel, DropJob, CancelDies,
      LeaseExpires, BackoffElapses
<1> QED BY <1>5 DEF One

(* A step that touches neither runs nor cancel calls takes a run up that      *)
(* nobody was at work on, puts one down, or shows nothing.                    *)
LEMMA DoingStep ==
  ASSUME PInv, PInv', [Next]_vars, UNCHANGED <<StatusOf, AskedOf>>
  PROVE  [Promise!Next]_(Promise!promiseVars)
<1> USE DEF PInv, IInv
<1>1. DoingOf' = DoingOf => [Promise!Next]_(Promise!promiseVars)
  BY DEF Promise!promiseVars
<1>2. worker' = worker => DoingOf' = DoingOf
  BY DEF DoingOf, Holding, Beating, Busy
<1>3. ASSUME NEW w \in Workers, OtherWorkers(w)
      PROVE  [Promise!Next]_(Promise!promiseVars)
  <2>1. CASE Holding(w)' /\ ~Holding(w)
    <3> DEFINE r == worker'[w].run
    <3>1. r \in Runs
      <4>1. Busy(w)' BY <2>1 DEF Holding, Beating
      <4>2. worker'[w] \in WorkerState BY TypeStep DEF TypeInv, TypeOK, WorkerTypeOK
      <4>3. worker'[w].pc \in BusyPcs BY <4>1 DEF Busy
      <4> QED BY <4>2, <4>3 DEF WorkerState, WithoutJob, BusyPcs
    <3>2. \A v \in Workers \ {w} : Holding(v)' = Holding(v) /\ worker'[v] = worker[v]
      BY <1>3 DEF OtherWorkers, Holding, Beating, Busy
    <3>3. DoingOf[r] = {}
      BY <2>1, <3>1, <3>2 DEF DoingOf, HoldersAreAlone
    <3>4. DoingOf' = [DoingOf EXCEPT ![r] = {w}]
      <4>1. \A q \in Runs : q # r => DoingOf'[q] = DoingOf[q]
        BY <2>1, <3>2 DEF DoingOf
      <4>2. DoingOf'[r] = {w}
        <5>1. DoingOf'[r] = {v \in Workers : Holding(v)' /\ worker'[v].run = r}
          BY <3>1 DEF DoingOf
        <5>2. \A v \in Workers : Holding(v)' /\ worker'[v].run = r => v = w
          BY <2>1 DEF HoldersAreAlone
        <5> QED BY <2>1, <5>1, <5>2
      <4>3. DoingOf \in [Runs -> SUBSET Workers] /\ DoingOf' \in [Runs -> SUBSET Workers]
        BY DEF DoingOf
      <4> HIDE DEF r
      <4> QED BY <3>1, <4>1, <4>2, <4>3
    <3> HIDE DEF r
    <3>5. Promise!TakeUp(w, r) BY <3>3, <3>4 DEF Promise!TakeUp
    <3> QED BY <3>1, <3>5 DEF Promise!Next
  <2>2. CASE ~Holding(w)' /\ Holding(w)
    <3> DEFINE r == worker[w].run
    <3>1. r \in Runs BY <2>2, BusyWorker DEF Holding, Beating, TypeInv, TypeOK
    <3>2. \A v \in Workers \ {w} : Holding(v)' = Holding(v) /\ worker'[v] = worker[v]
      BY <1>3 DEF OtherWorkers, Holding, Beating, Busy
    <3>3. w \in DoingOf[r] BY <2>2, <3>1 DEF DoingOf
    <3>4. DoingOf' = [DoingOf EXCEPT ![r] = @ \ {w}]
      <4>1. \A q \in Runs : q # r => DoingOf'[q] = DoingOf[q]
        BY <2>2, <3>2 DEF DoingOf
      <4>2. DoingOf'[r] = DoingOf[r] \ {w} BY <2>2, <3>1, <3>2 DEF DoingOf
      <4>3. DoingOf \in [Runs -> SUBSET Workers] /\ DoingOf' \in [Runs -> SUBSET Workers]
        BY DEF DoingOf
      <4> HIDE DEF r
      <4> QED BY <3>1, <4>1, <4>2, <4>3
    <3> HIDE DEF r
    <3>5. Promise!PutDown(w, r) BY <3>3, <3>4 DEF Promise!PutDown
    <3> QED BY <3>1, <3>5 DEF Promise!Next
  <2>3. CASE Holding(w)' /\ Holding(w)
    <3>1. worker[w].pc # "idle" BY <2>3 DEF Holding, Beating, Busy, BusyPcs
    <3>2. worker'[w].run = worker[w].run
      BY <2>3, <3>1, HolderMove DEF Claim, At
    <3> QED BY <1>1, <1>3, <2>3, <3>2, DoingStays
  <2>4. CASE ~Holding(w)' /\ ~Holding(w)
    <3>1. \A v \in Workers \ {w} : Holding(v)' = Holding(v) /\ worker'[v] = worker[v]
      BY <1>3 DEF OtherWorkers, Holding, Beating, Busy
    <3>2. DoingOf' = DoingOf BY <2>4, <3>1 DEF DoingOf
    <3> QED BY <1>1, <3>2
  <2> QED BY <2>1, <2>2, <2>3, <2>4
<1> QED BY <1>1, <1>2, <1>3, OneWorkerMoves DEF TypeInv, TypeOK

(* The steps that change the status of a run. *)

LEMMA InsertRunStep ==
  ASSUME PInv, NEW r \in Runs, InsertRun(r) PROVE Promise!Queue(r)
<1> USE DEF PInv, IInv
<1>1. StatusOf[r] = "absent"
  BY DEF InsertRun, RowsFollowRequest, Early, RequestState, StatusOf
<1>2. StatusOf' = [StatusOf EXCEPT ![r] = "queued"]
  BY InsertRunEffect, StatusBecomes DEF RunBecomes, TypeInv, TypeOK, TablesTypeOK, RunsOK
<1>3. AskedOf' = AskedOf /\ DoingOf' = DoingOf
  BY DEF InsertRun, AskedOf, DoingOf, Holding, Beating, Busy
<1> QED BY <1>1, <1>2, <1>3 DEF Promise!Queue, Promise!Moves

LEMMA StartRunStep ==
  ASSUME PInv, NEW w \in Workers, StartRun(w)
  PROVE  [Promise!Next]_(Promise!promiseVars)
<1> USE DEF PInv, IInv, TypeInv
<1> DEFINE r == worker[w].run
<1>1. AskedOf' = AskedOf BY DEF StartRun, controlVars, AskedOf
<1>2. DoingOf' = DoingOf
  <2>1. Busy(w) /\ worker[w].pc = "loaded" BY DEF StartRun, At, Busy, BusyPcs
  <2>2. /\ OtherWorkers(w) /\ worker'[w].pc = "executing"
        /\ worker'[w].run = worker[w].run /\ worker'[w].heartbeat = worker[w].heartbeat
    BY <2>1, GoToEffect DEF StartRun, BusyPcs, TypeOK
  <2>3. Holding(w)' <=> Holding(w)
    BY <2>1, <2>2 DEF Holding, Beating, Busy, BusyPcs
  <2> QED BY <2>2, <2>3, DoingStays
<1>3. r \in Runs BY StartRunEffect
<1>4. CASE run' = run
  <2>1. StatusOf' = StatusOf BY <1>4 DEF StatusOf
  <2> QED BY <1>1, <1>2, <2>1 DEF Promise!promiseVars
<1>5. CASE run[r].status = "queued" /\ RunBecomes(r, "running", run[r].summary)
  <2>1. StatusOf' = [StatusOf EXCEPT ![r] = "running"] /\ StatusOf[r] = "queued"
    BY <1>3, <1>5, StatusBecomes DEF RunBecomes, StatusOf
  <2> HIDE DEF r
  <2>2. Promise!Begin(r) BY <1>1, <1>2, <2>1 DEF Promise!Begin, Promise!Moves
  <2> QED BY <1>3, <2>2 DEF Promise!Next
<1> QED BY <1>4, <1>5, StartRunEffect

LEMMA FinalizeStep ==
  ASSUME PInv, NEW w \in Workers, Finalize(w)
  PROVE  [Promise!Next]_(Promise!promiseVars)
<1> USE DEF PInv, IInv, TypeInv
<1> DEFINE r == worker[w].run
           o == worker[w].outcome
<1>1. AskedOf' = AskedOf BY DEF Finalize, controlVars, AskedOf
<1>2. Busy(w) /\ worker[w].pc = "owned" BY DEF Finalize, At, Busy, BusyPcs
<1>3. DoingOf' = DoingOf
  <2>1. GoTo(w, "finalized") BY DEF Finalize
  <2>2. /\ OtherWorkers(w) /\ worker'[w].pc = "finalized"
        /\ worker'[w].run = worker[w].run /\ worker'[w].heartbeat = worker[w].heartbeat
    BY <1>2, <2>1, GoToEffect DEF BusyPcs, TypeOK
  <2>3. Holding(w)' <=> Holding(w)
    BY <1>2, <2>2 DEF Holding, Beating, Busy, BusyPcs
  <2> QED BY <2>2, <2>3, DoingStays
<1>4. r \in Runs BY FinalizeEffect
<1>5. CASE StatusOf' = StatusOf
  BY <1>1, <1>3, <1>5 DEF Promise!promiseVars
<1>6. CASE run' = run BY <1>5, <1>6 DEF StatusOf
<1>7. CASE /\ Finalizable(run[r].status, o) /\ o \in Terminal
           /\ RunBecomes(r, o, "outcome")
  <2>1. StatusOf' = [StatusOf EXCEPT ![r] = o] /\ StatusOf[r] = run[r].status
    BY <1>4, <1>7, StatusBecomes DEF RunBecomes, StatusOf
  <2>2. run[r].status # "queued" BY <1>2 DEF BegunIsBehind, Executing
  <2>3. CASE run[r].status \in Inflight
    <3>1. run[r].status \in {"running", "cancelling"} BY <2>2, <2>3 DEF Inflight
    <3>2. o = "cancelled" => run[r].status = "cancelling"
      BY <1>2, <3>1 DEF CancelWasAsked, Reporting, Past, Terminal
    <3> HIDE DEF r, o
    <3>3. \/ StatusOf[r] \in {"running", "cancelling"} /\ o \in Promise!Ended \ {"cancelled"}
          \/ StatusOf[r] = "cancelling" /\ o = "cancelled"
      BY <1>7, <2>1, <3>1, <3>2 DEF Promise!Ended, Terminal
    <3>4. Promise!End(r)
      BY <1>1, <1>3, <2>1, <3>3 DEF Promise!End, Promise!Moves
    <3> QED BY <1>4, <3>4 DEF Promise!Next
  <2>4. CASE run[r].status = "cancelled" /\ o = "cancelled"
    <3>1. StatusOf' = StatusOf BY <1>4, <2>1, <2>4 DEF StatusOf
    <3> QED BY <1>5, <3>1
  <2> QED BY <1>7, <2>3, <2>4 DEF Finalizable
<1> QED BY <1>6, <1>7, FinalizeEffect

LEMMA FailRunStep ==
  ASSUME PInv, NEW w \in Workers, FailRun(w)
  PROVE  [Promise!Next]_(Promise!promiseVars)
<1> USE DEF PInv, IInv, TypeInv
<1> DEFINE r == worker[w].run
<1>1. AskedOf' = AskedOf BY DEF FailRun, controlVars, AskedOf
<1>2. Busy(w) /\ worker[w].pc = "failRun" BY DEF FailRun, At, Busy, BusyPcs
<1>3. DoingOf' = DoingOf
  <2>1. OtherWorkers(w) /\ worker'[w].pc = "idle"
    BY WithoutJobEffect DEF FailRun, BeIdle, TypeOK
  <2>2. ~Holding(w)' /\ ~Holding(w)
    BY <1>2, <2>1 DEF Holding, Beating, Busy, BusyPcs
  <2>3. \A v \in Workers \ {w} : Holding(v)' = Holding(v) /\ worker'[v] = worker[v]
    BY <2>1 DEF OtherWorkers, Holding, Beating, Busy
  <2> QED BY <2>2, <2>3 DEF DoingOf
<1>4. r \in Runs BY FailRunEffect
<1>5. CASE StatusOf' = StatusOf
  BY <1>1, <1>3, <1>5 DEF Promise!promiseVars
<1>6. CASE OtherRuns(r) /\ run'[r].status = run[r].status
  <2>1. StatusOf' = StatusOf BY <1>4, <1>6 DEF StatusOf, OtherRuns
  <2> QED BY <1>5, <2>1
<1>7. CASE /\ run[r].status \notin Terminal \ {"failed"}
           /\ RunBecomes(r, "failed", "exhausted")
  <2>1. CASE run[r].status = "failed" BY <1>6, <1>7, <2>1 DEF RunBecomes
  <2>2. CASE run[r].status # "failed"
    <3>1. run[r].status \in Inflight
      BY <1>2, <1>4, <1>7, <2>2
      DEF HandledRunsExist, TypeOK, TablesTypeOK, RunRow
    <3>2. StatusOf' = [StatusOf EXCEPT ![r] = "failed"] /\ StatusOf[r] = run[r].status
      BY <1>4, <1>7, StatusBecomes DEF RunBecomes, StatusOf
    <3> HIDE DEF r
    <3>3. Promise!Exhaust(r)
      BY <1>1, <1>3, <3>1, <3>2 DEF Promise!Exhaust, Promise!Moves, Promise!Going, Inflight
    <3> QED BY <1>4, <3>3 DEF Promise!Next
  <2> QED BY <2>1, <2>2
<1> QED BY <1>6, <1>7, FailRunEffect DEF RunBecomes

(* The steps of a cancel call. *)

LEMMA DoingUntouched ==
  ASSUME UNCHANGED worker PROVE DoingOf' = DoingOf
BY DEF DoingOf, Holding, Beating, Busy

LEMMA AskedBecomes ==
  ASSUME NEW k \in Calls, \A c \in Calls \ {k} : call'[c] = call[c],
         NEW a, a = IF call'[k].pc = "write"
                    THEN [run |-> call'[k].run, saw |-> call'[k].seen]
                    ELSE [run |-> "none", saw |-> "absent"]
  PROVE  AskedOf' = [AskedOf EXCEPT ![k] = a]
BY DEF AskedOf

LEMMA ReadRunStep ==
  ASSUME PInv, NEW k \in Calls, NEW r \in Runs, ReadRun(k, r)
  PROVE  Promise!Ask(k, r)
<1> USE DEF PInv, IInv, TypeInv, TypeOK, ControlTypeOK
<1>1. AskedOf[k] = Promise!Nothing
  BY DEF ReadRun, NotCalled, AskedOf, Promise!Nothing
<1>2. StatusOf[r] \in Promise!Going BY DEF ReadRun, StatusOf, Promise!Going, Inflight
<1>3. AskedOf' = [AskedOf EXCEPT ![k] = [run |-> r, saw |-> StatusOf[r]]]
  <2> DEFINE new == [pc |-> "write", run |-> r, seen |-> run[r].status]
  <2>1. call'[k] = new /\ \A c \in Calls \ {k} : call'[c] = call[c] BY DEF ReadRun
  <2>2. call'[k].pc = "write" /\ call'[k].run = r /\ call'[k].seen = StatusOf[r]
    BY <2>1 DEF StatusOf
  <2> QED BY <2>1, <2>2, AskedBecomes
<1>4. StatusOf' = StatusOf /\ DoingOf' = DoingOf
  BY DoingUntouched DEF ReadRun, tableVars, StatusOf
<1> QED BY <1>1, <1>2, <1>3, <1>4 DEF Promise!Ask

LEMMA WritingCall ==
  ASSUME ControlTypeOK, NEW k \in Calls, call[k].pc = "write"
  PROVE  /\ call[k].run \in Runs /\ call[k].seen \in Inflight
         /\ AskedOf[k].run = call[k].run /\ AskedOf[k].saw = call[k].seen
         /\ AskedOf[k] # Promise!Nothing
<1>1. call[k] \in [pc : {"write", "dropJob"}, run : Runs, seen : Inflight]
  BY DEF ControlTypeOK, CallState, NotCalled, Answered
<1>2. AskedOf[k] = [run |-> call[k].run, saw |-> call[k].seen] BY DEF AskedOf
<1>3. AskedOf[k].saw # "absent" BY <1>1, <1>2 DEF Inflight
<1> QED BY <1>1, <1>2, <1>3 DEF Promise!Nothing

LEMMA WriteCancelStep ==
  ASSUME PInv, NEW k \in Calls, WriteCancel(k) PROVE Promise!Cancel(k)
<1> USE DEF PInv, IInv, TypeInv, TypeOK
<1> DEFINE r == call[k].run
           s == IF call[k].seen = "queued" THEN "cancelled" ELSE "cancelling"
<1>1. /\ r \in Runs /\ AskedOf[k] # Promise!Nothing
      /\ AskedOf[k].run = r /\ AskedOf[k].saw = call[k].seen
  <2>1. call[k].pc = "write" BY DEF WriteCancel
  <2> QED BY <2>1, WritingCall
<1>2. StatusOf' = [StatusOf EXCEPT ![r] = s]
  <2>1. OtherRuns(r) /\ run'[r].status = s
    BY WriteCancelEffect DEF RunBecomes
  <2> HIDE DEF r, s
  <2> QED BY <1>1, <2>1, StatusBecomes
<1>3. AskedOf' = [AskedOf EXCEPT ![k] = Promise!Nothing]
  <2>1. \A c \in Calls \ {k} : call'[c] = call[c]
    BY DEF WriteCancel, ControlTypeOK
  <2>2. call'[k].pc # "write"
    <3>1. call[k] \in [pc : {"write", "dropJob"}, run : Runs, seen : Inflight]
      BY DEF WriteCancel, ControlTypeOK, CallState, NotCalled, Answered
    <3>2. CASE call[k].seen = "queued"
      <4>1. call'[k] = [call[k] EXCEPT !.pc = "dropJob"]
        BY <3>2 DEF WriteCancel, ControlTypeOK
      <4> QED BY <3>1, <4>1
    <3>3. CASE call[k].seen # "queued"
      <4>1. call'[k] = Answered BY <3>3 DEF WriteCancel, ControlTypeOK
      <4> QED BY <4>1 DEF Answered
    <3> QED BY <3>2, <3>3
  <2> QED BY <2>1, <2>2, AskedBecomes DEF Promise!Nothing
<1>4. DoingOf' = DoingOf BY DoingUntouched DEF WriteCancel
<1> HIDE DEF r
<1> QED BY <1>1, <1>2, <1>3, <1>4 DEF Promise!Cancel

LEMMA DropJobStep ==
  ASSUME PInv, NEW k \in Calls, DropJob(k) PROVE UNCHANGED <<StatusOf, AskedOf, DoingOf>>
<1>1. call' = [call EXCEPT ![k] = Answered] /\ call[k].pc = "dropJob" BY DEF DropJob
<1>2. AskedOf' = AskedOf
  BY <1>1 DEF AskedOf, Answered, PInv, IInv, TypeInv, TypeOK, ControlTypeOK
<1> QED BY <1>2, DoingUntouched DEF DropJob, StatusOf

LEMMA CancelDiesStep ==
  ASSUME PInv, NEW k \in Calls, CancelDies(k)
  PROVE  [Promise!Next]_(Promise!promiseVars)
<1> USE DEF PInv, IInv, TypeInv, TypeOK, ControlTypeOK
<1>1. call' = [call EXCEPT ![k] = NotCalled] /\ call[k].pc \in {"write", "dropJob"}
  BY DEF CancelDies
<1>2. StatusOf' = StatusOf /\ DoingOf' = DoingOf
  BY DoingUntouched DEF CancelDies, StatusOf
<1>3. CASE call[k].pc = "write"
  <2>1. call'[k] = NotCalled /\ \A c \in Calls \ {k} : call'[c] = call[c] BY <1>1
  <2>2. AskedOf' = [AskedOf EXCEPT ![k] = Promise!Nothing]
    <3>1. call'[k].pc # "write" BY <2>1 DEF NotCalled
    <3> QED BY <2>1, <3>1, AskedBecomes DEF Promise!Nothing
  <2>3. Promise!Forget(k) BY <1>2, <1>3, <2>2, WritingCall DEF Promise!Forget
  <2> QED BY <2>3 DEF Promise!Next
<1>4. CASE call[k].pc = "dropJob"
  <2>1. AskedOf' = AskedOf BY <1>1, <1>4 DEF AskedOf, NotCalled
  <2> QED BY <1>2, <2>1 DEF Promise!promiseVars
<1> QED BY <1>1, <1>3, <1>4

-----------------------------------------------------------------------------

LEMMA PromiseInit == Init => Promise!Init
BY DEF Init, TablesInit, ControlInit, WorkerInit, NoRunRow, NotCalled, WithoutJob,
       Promise!Init, Promise!Nothing, StatusOf, AskedOf, DoingOf, Holding, Beating,
       Busy, BusyPcs

LEMMA PromiseStep ==
  PInv /\ PInv' /\ [Next]_vars => [Promise!Next]_(Promise!promiseVars)
<1> SUFFICES ASSUME PInv, PInv', [Next]_vars
             PROVE  [Promise!Next]_(Promise!promiseVars)
  OBVIOUS
<1>1. ASSUME NEW r \in Runs, InsertRun(r) PROVE [Promise!Next]_(Promise!promiseVars)
  BY <1>1, InsertRunStep DEF Promise!Next
<1>2. ASSUME NEW w \in Workers, StartRun(w) \/ Finalize(w) \/ FailRun(w)
      PROVE  [Promise!Next]_(Promise!promiseVars)
  BY <1>2, StartRunStep, FinalizeStep, FailRunStep
<1>3. ASSUME NEW k \in Calls, NEW r \in Runs, ReadRun(k, r)
      PROVE  [Promise!Next]_(Promise!promiseVars)
  BY <1>3, ReadRunStep DEF Promise!Next
<1>4. ASSUME NEW k \in Calls, WriteCancel(k) PROVE [Promise!Next]_(Promise!promiseVars)
  BY <1>4, WriteCancelStep DEF Promise!Next
<1>5. ASSUME NEW k \in Calls, DropJob(k) PROVE [Promise!Next]_(Promise!promiseVars)
  BY <1>5, DropJobStep DEF Promise!promiseVars
<1>6. ASSUME NEW k \in Calls, CancelDies(k) PROVE [Promise!Next]_(Promise!promiseVars)
  BY <1>6, CancelDiesStep
<1>7. ASSUME UNCHANGED <<run, call>> PROVE [Promise!Next]_(Promise!promiseVars)
  <2>1. UNCHANGED <<StatusOf, AskedOf>> BY <1>7 DEF StatusOf, AskedOf
  <2> QED BY <2>1, DoingStep
<1> QED
  BY <1>1, <1>2, <1>3, <1>4, <1>5, <1>6, <1>7
  DEF Next, ControlNext, WorkerNext, TimePasses, Enqueue, Cancel, Proceed, vars,
      tableVars, controlVars, processVars, CheckCampaign, CountProject, CountGlobal,
      Throttle, InsertJob, EnqueueDies, Pause, Resume, Claim, LoadContext, Work,
      RecheckCancellation, CheckLease, RecordEvidence, Complete, ReturnLeaseLost,
      ReadAttempts, Requeue, GiveUpJob, Throw, AbandonCatch, Heartbeat, Stall,
      Crash, LeaseExpires, BackoffElapses

(* The API and the workers keep the promise of RunPromise: whatever            *)
(* interleaves, crashes, stalls or fails, the status of a run moves as the     *)
(* promise lets it, and no two healthy workers are at work on one run          *)
(* (workflow-service.ts 981-1254, 1883-1965; run-worker.ts 131-350).           *)
THEOREM PromiseKept == Spec => KeepsPromise
<1>1. PInv /\ [Next]_vars => PInv' BY PInvStep
<1> QED
  BY PInvInit, <1>1, PromiseInit, PromiseStep, PTL
  DEF Spec, KeepsPromise, Promise!Spec
=============================================================================
