----------------------------- MODULE RunPromise -----------------------------
(***************************************************************************)
(* What the API and the workers promise together about runs, without jobs, *)
(* leases, attempts and faults: how the status of a run moves, what a      *)
(* cancel request may do to it, and that at most one worker in good health *)
(* is at work on it.  RunLifecycle implements it.                          *)
(***************************************************************************)
CONSTANTS
  Runs,
  Workers,
  Requests   \* requests to cancel a run

VARIABLES
  status,    \* status[r]: what GET /runs/:id shows; "absent" before it starts
  asked,     \* asked[q]: the run request q will cancel and the status it saw
  doing      \* doing[r]: the workers in good health at work on run r

promiseVars == <<status, asked, doing>>

Ended == {"completed", "needs_review", "blocked", "failed", "cancelled"}
Going == {"queued", "running", "cancelling"}
Nothing == [run |-> "none", saw |-> "absent"]

Init ==
  /\ status = [r \in Runs |-> "absent"]
  /\ asked = [q \in Requests |-> Nothing]
  /\ doing = [r \in Runs |-> {}]

Moves(r, from, to) ==
  /\ status[r] \in from
  /\ \E s \in to : status' = [status EXCEPT ![r] = s]
  /\ UNCHANGED <<asked, doing>>

Queue(r) == Moves(r, {"absent"}, {"queued"})
Begin(r) == Moves(r, {"queued"}, {"running"})

(* A run that began ends with its outcome; cancelled if that was asked for,   *)
(* or in spite of it if the request came too late to be seen.                 *)
End(r) ==
  \/ Moves(r, {"running", "cancelling"}, Ended \ {"cancelled"})
  \/ Moves(r, {"cancelling"}, {"cancelled"})

(* Its attempts are used up. *)
Exhaust(r) == Moves(r, Going, {"failed"})

(* A cancel request acts on the status it saw, whatever the run does between. *)
Ask(q, r) ==
  /\ asked[q] = Nothing
  /\ status[r] \in Going
  /\ asked' = [asked EXCEPT ![q] = [run |-> r, saw |-> status[r]]]
  /\ UNCHANGED <<status, doing>>

Cancel(q) ==
  /\ asked[q] # Nothing
  /\ status' = [status EXCEPT
       ![asked[q].run] = IF asked[q].saw = "queued" THEN "cancelled" ELSE "cancelling"]
  /\ asked' = [asked EXCEPT ![q] = Nothing]
  /\ UNCHANGED doing

Forget(q) ==
  /\ asked[q] # Nothing
  /\ asked' = [asked EXCEPT ![q] = Nothing]
  /\ UNCHANGED <<status, doing>>

(* Nobody takes up a run that another is at work on. *)
TakeUp(w, r) ==
  /\ doing[r] = {}
  /\ doing' = [doing EXCEPT ![r] = {w}]
  /\ UNCHANGED <<status, asked>>

PutDown(w, r) ==
  /\ w \in doing[r]
  /\ doing' = [doing EXCEPT ![r] = @ \ {w}]
  /\ UNCHANGED <<status, asked>>

Next ==
  \/ \E r \in Runs : Queue(r) \/ Begin(r) \/ End(r) \/ Exhaust(r)
  \/ \E q \in Requests : (\E r \in Runs : Ask(q, r)) \/ Cancel(q) \/ Forget(q)
  \/ \E w \in Workers, r \in Runs : TakeUp(w, r) \/ PutDown(w, r)

Spec == Init /\ [][Next]_promiseVars
=============================================================================
