---------------------------- MODULE PullRequests ----------------------------
(***************************************************************************)
(* The pull requests of the runs: the part of executeRunById that opens    *)
(* one, chooses a keeper among those open for the same project and base    *)
(* branch and closes the others (apps/api/src/workflow-service.ts          *)
(* 1546-1795, apps/api/src/pr-keeper.ts), the poller that copies what      *)
(* GitHub says into the rows (apps/api/src/pr-poller-worker.ts), and       *)
(* GitHub with the people who use it.                                      *)
(*                                                                         *)
(* Runs are numbered in the order of started_at.  Every statement and      *)
(* every call to GitHub that another process can come between is a step.   *)
(* summary.keeperCandidate and summary.keeperChosen are always written     *)
(* together, with one value: `chosen`.                                     *)
(***************************************************************************)
EXTENDS Integers, FiniteSets

CONSTANTS
  NumRuns,      \* runs that are started
  Target,       \* Target[r]: project and base branch of a run
  Size,         \* Size[r]: changed files and lines, as the comparison orders them
  AutoMerge,    \* runs strict-safe enough for auto-merge under their policy
  MaxExecuting, \* runs executed at the same time (the in-flight limits)
  BatchSize,    \* PR_POLL_BATCH_SIZE
  Outcomes,     \* outcomes of the workflow of a run that opens a pull request
  MaxFaults     \* bound on failing statements and calls, crashes, cancels, and
                \*   pull requests that people settle

Runs == 1..NumRuns

ASSUME PullRequestsAssumption ==
  /\ NumRuns \in Nat
  /\ Size \in [Runs -> Nat]
  /\ AutoMerge \subseteq Runs
  /\ Outcomes \subseteq {"needs_review", "completed", "blocked"}
  /\ MaxExecuting \in Nat /\ BatchSize \in Nat /\ MaxFaults \in Nat

VARIABLES
  pull,    \* pull[r]: the pull request of run r on GitHub
  byHuman, \* pull requests that a person merged or closed
  row,     \* row[r]: what runs says of it
  keeper,  \* keeper[r]: the execution of run r
  poller,  \* the loop of PrLifecyclePollerWorker
  faults   \* faults still to happen

vars == <<pull, byHuman, row, keeper, poller, faults>>

PullStates == {"none", "open", "closed", "merged"}

Ended == {"needs_review", "completed"} \cup {"failed", "blocked", "cancelled"}

(* STATUS_RANK of pr-keeper.ts. *)
StatusRank(status) ==
  CASE status = "completed" -> 5
    [] status = "needs_review" -> 4
    [] status = "blocked" -> 3
    [] status = "failed" -> 2
    [] status = "cancelled" -> 1
    [] OTHER -> 0

(* runs.summary.  intact: it is the one the workflow made, with the merge     *)
(* checklist and the size of the change, not the one left by the catch block. *)
Summary == [pr : PullStates, chosen : BOOLEAN, keeperMerged : BOOLEAN, intact : BOOLEAN]
NoSummary == [pr |-> "none", chosen |-> FALSE, keeperMerged |-> FALSE, intact |-> FALSE]

(* place: how many rows were recorded before, the order of finished_at. *)
Row == [status : Ended \cup {"running"}, pr : PullStates, place : 0..NumRuns,
        summary : Summary]

Recorded == {r \in Runs : row[r].status \in Ended}

-----------------------------------------------------------------------------
(* pr-keeper.ts *)

(* toKeeperCandidate and inferChecklist of a row that was loaded: its summary *)
(* has the checklist, which it passed to open a pull request at all, and the  *)
(* size of its change.                                                        *)
CandidateOfRow(r) ==
  [run |-> r, passed |-> row[r].summary.intact, rank |-> StatusRank(row[r].status),
   size |-> Size[r], time |-> 2 * row[r].place + 1]

(* The candidate executeRunById makes of its own run; finishedAt is when the  *)
(* workflow ended, between the rows recorded before and after.                *)
CandidateOfSelf(r) ==
  [run |-> r, passed |-> TRUE, rank |-> StatusRank(keeper[r].status), size |-> Size[r],
   time |-> 2 * keeper[r].place]

(* compareKeeperCandidates: passed checklist, status, smaller change, newer. *)
Preferred(a, b) ==
  \/ a.passed /\ ~b.passed
  \/ /\ a.passed = b.passed
     /\ \/ a.rank > b.rank
        \/ a.rank = b.rank /\ a.size < b.size
        \/ a.rank = b.rank /\ a.size = b.size /\ a.time > b.time

(* chooseKeeperCandidate: a candidate to which none is preferred. *)
Choices(candidates) ==
  {a.run : a \in {c \in candidates : \A b \in candidates : ~Preferred(b, c)}}

(* Mutant of OpenRecorded: rows whose pull request is settled are loaded too. *)
OpenRecordedAny(r) ==
  {c \in Recorded \ {r} :
     row[c].pr # "none" /\ row[c].summary.intact /\ Target[c] = Target[r]}

(* loadOpenKeeperCandidates: the rows of the target with an open pull request. *)
(* The base branch is read from summary.workspace, which the summary of the   *)
(* catch block lacks: a failed run's open pull request is not among them.     *)
OpenRecorded(r) ==
  {c \in Recorded \ {r} :
     row[c].pr = "open" /\ row[c].summary.intact /\ Target[c] = Target[r]}

-----------------------------------------------------------------------------
(* GitHub *)

(* Mutant of AfterClose: the superseded comment is posted, the close is not. *)
AfterCommentOnly(c) == pull

(* A close has an effect on an open pull request only; GitHub may accept or   *)
(* refuse to close one that is settled.                                       *)
AfterClose(c) == [pull EXCEPT ![c] = IF @ = "open" THEN "closed" ELSE @]

(* A bounded disturbance: a call or statement fails, a process dies, a person *)
(* acts.                                                                      *)
SpendFault == faults > 0 /\ faults' = faults - 1

(* People merge and close pull requests at any time. *)
HumanSettles(r) ==
  /\ pull[r] = "open"
  /\ SpendFault
  /\ \E to \in {"closed", "merged"} : pull' = [pull EXCEPT ![r] = to]
  /\ byHuman' = byHuman \cup {r}
  /\ UNCHANGED <<row, keeper, poller>>

-----------------------------------------------------------------------------
(* The execution of a run, from the end of its workflow on. *)

(* Where it is.  "waiting": no execution got that far yet; "mark...": the     *)
(* three statements of markSupersededRun; "merge...": mergePullRequest and    *)
(* the three of markKeeperMergedRun; the other pairs read and write a summary *)
(* for incrementKeeperSupersededClosedCount and setKeeperMergeReady.          *)
Steps == {"waiting", "create", "choose", "close", "mark", "markWrite", "markRow",
          "closeOwn", "count", "countWrite", "label", "ready", "readyWrite", "merge",
          "merged", "mergedWrite", "mergedRow", "record", "done"}

(* best: the keeper chosen, 0 before; todo: candidates still to close; at: the *)
(* one in hand; read: the summary updateRunSummary read.                       *)
Execution == [pc : Steps, status : Ended \cup {"running"}, pr : PullStates,
              place : 0..NumRuns, intact : BOOLEAN, best : 0..NumRuns,
              todo : SUBSET Runs, at : 0..NumRuns, read : Summary,
              closedAny : BOOLEAN]

NotStarted == [pc |-> "waiting", status |-> "running", pr |-> "none", place |-> 0,
               intact |-> FALSE, best |-> 0, todo |-> {}, at |-> 0,
               read |-> NoSummary, closedAny |-> FALSE]

At(r, pc) == keeper[r].pc = pc
Goto(r, pc) == keeper' = [keeper EXCEPT ![r].pc = pc]
Executing == {r \in Runs : ~At(r, "waiting") /\ ~At(r, "done")}

(* executeWorkflow and the checklist end with a change worth a pull request. *)
EndWorkflow(r) ==
  /\ At(r, "waiting")
  /\ Cardinality(Executing) < MaxExecuting
  /\ \E s \in Outcomes :
       keeper' = [keeper EXCEPT ![r] = [@ EXCEPT !.pc = "create", !.status = s, !.intact = TRUE,
                                                 !.place = Cardinality(Recorded)]]
  /\ UNCHANGED <<pull, byHuman, row, poller, faults>>

(* createPullRequest: push the branch, which is named for the run, and open.  *)
CreatePull(r) ==
  /\ At(r, "create")
  /\ pull[r] = "none"
  /\ pull' = [pull EXCEPT ![r] = "open"]
  /\ keeper' = [keeper EXCEPT ![r].pc = "choose", ![r].pr = "open"]
  /\ UNCHANGED <<byHuman, row, poller, faults>>

(* The push is refused, which it is when an earlier execution of the run      *)
(* pushed its commit there; RepoOperationError maps to blocked.               *)
CreateFails(r) ==
  /\ At(r, "create")
  /\ IF pull[r] = "none" THEN SpendFault ELSE UNCHANGED faults
  /\ keeper' = [keeper EXCEPT ![r] = [@ EXCEPT !.pc = "record", !.status = "blocked",
                                               !.intact = FALSE]]
  /\ UNCHANGED <<pull, byHuman, row, poller>>

ChooseKeeper(r) ==
  /\ At(r, "choose")
  /\ LET others == OpenRecorded(r)
         candidates == {CandidateOfRow(c) : c \in others} \cup {CandidateOfSelf(r)}
     IN \E best \in Choices(candidates) :
          keeper' = [keeper EXCEPT ![r] = [@ EXCEPT !.pc = "close", !.best = best,
                                                    !.todo = others \ {best}]]
  /\ UNCHANGED <<pull, byHuman, row, poller, faults>>

(* closePullRequest of a candidate that is not the keeper. *)
CloseOther(r) ==
  /\ At(r, "close")
  /\ \E c \in keeper[r].todo :
       /\ pull' = AfterClose(c)
       /\ keeper' = [keeper EXCEPT ![r] = [@ EXCEPT !.pc = "mark", !.at = c,
                                                    !.todo = keeper[r].todo \ {c}]]
  /\ UNCHANGED <<byHuman, row, poller, faults>>

(* GitHub refuses the comment or the close: a warning, and the next one. *)
CloseOtherFails(r) ==
  /\ At(r, "close")
  /\ \E c \in keeper[r].todo :
       /\ IF pull[c] = "open" THEN SpendFault ELSE UNCHANGED faults
       /\ keeper' = [keeper EXCEPT ![r].todo = @ \ {c}]
  /\ UNCHANGED <<pull, byHuman, row, poller>>

(* The read of updateRunSummary, of the run in hand or of the keeper. *)
ReadSummaryOf(r, c, from, to) ==
  /\ At(r, from)
  /\ keeper' = [keeper EXCEPT ![r] = [@ EXCEPT !.pc = to, !.read = row[c].summary]]
  /\ UNCHANGED <<pull, byHuman, row, poller, faults>>

(* Its write: the whole summary as it was read, with some fields changed. *)
WriteSummaryOf(r, c, summary, from, to) ==
  /\ At(r, from)
  /\ row' = [row EXCEPT ![c].summary = summary]
  /\ keeper' = [keeper EXCEPT ![r] = [@ EXCEPT !.pc = to, !.read = NoSummary]]
  /\ UNCHANGED <<pull, byHuman, poller, faults>>

MarkSupersededRun(r) ==
  LET read == keeper[r].read IN
    \/ ReadSummaryOf(r, keeper[r].at, "mark", "markWrite")
    \/ WriteSummaryOf(r, keeper[r].at, [read EXCEPT !.pr = "closed", !.chosen = FALSE],
                      "markWrite", "markRow")
    \/ /\ At(r, "markRow")
       /\ row' = [row EXCEPT ![keeper[r].at].pr = "closed"]
       /\ keeper' = [keeper EXCEPT ![r] = [@ EXCEPT !.pc = "close", !.at = 0,
                                                    !.closedAny = TRUE]]
       /\ UNCHANGED <<pull, byHuman, poller, faults>>

(* One of its statements fails: a warning, and the next candidate. *)
MarkFails(r) ==
  /\ keeper[r].pc \in {"mark", "markWrite", "markRow"}
  /\ SpendFault
  /\ keeper' = [keeper EXCEPT ![r] = [@ EXCEPT !.pc = "close", !.at = 0, !.read = NoSummary]]
  /\ UNCHANGED <<pull, byHuman, row, poller>>

(* After the other candidates: the run's own pull request, if it lost. *)
AfterClosing(r, closedAny) == IF keeper[r].best # r /\ closedAny THEN "count" ELSE "label"

OthersClosed(r) ==
  /\ At(r, "close")
  /\ keeper[r].todo = {}
  /\ IF keeper[r].best = r THEN Goto(r, "label") ELSE Goto(r, "closeOwn")
  /\ UNCHANGED <<pull, byHuman, row, poller, faults>>

CloseOwn(r) ==
  /\ At(r, "closeOwn")
  /\ pull' = AfterClose(r)
  /\ keeper' = [keeper EXCEPT ![r] = [@ EXCEPT !.pc = AfterClosing(r, TRUE), !.pr = "closed"]]
  /\ UNCHANGED <<byHuman, row, poller, faults>>

CloseOwnFails(r) ==
  /\ At(r, "closeOwn")
  /\ IF pull[r] = "open" THEN SpendFault ELSE UNCHANGED faults
  /\ Goto(r, AfterClosing(r, keeper[r].closedAny))
  /\ UNCHANGED <<pull, byHuman, row, poller>>

(* incrementKeeperSupersededClosedCount and setKeeperMergeReady of a keeper   *)
(* that is another run.                                                       *)
PromoteKeeper(r) ==
  LET read == keeper[r].read
      best == keeper[r].best
  IN \/ ReadSummaryOf(r, best, "count", "countWrite")
     \/ WriteSummaryOf(r, best, [read EXCEPT !.chosen = TRUE], "countWrite", "label")
     \/ ReadSummaryOf(r, best, "ready", "readyWrite")
     \/ WriteSummaryOf(r, best, [read EXCEPT !.chosen = TRUE], "readyWrite", "merge")

(* addLabelsToPullRequest, or its failure, after which nothing is merged.  The *)
(* keeper has passed its checklist, for it is not worse than the run itself.  *)
LabelKeeper(r) ==
  /\ At(r, "label")
  /\ \/ UNCHANGED faults /\ Goto(r, IF keeper[r].best = r THEN "merge" ELSE "ready")
     \/ SpendFault /\ Goto(r, "record")
  /\ UNCHANGED <<pull, byHuman, row, poller>>

(* isStrictSafeAutoMergeEligible, on the status it had when it was chosen. *)
MayMerge(r) ==
  LET best == keeper[r].best IN
    /\ best \in AutoMerge
    /\ (IF best = r THEN keeper[r].status ELSE row[best].status) = "completed"

(* mergePullRequest: GitHub merges an open pull request only. *)
MergeKeeper(r) ==
  LET best == keeper[r].best IN
    /\ At(r, "merge")
    /\ MayMerge(r)
    /\ pull[best] = "open"
    /\ pull' = [pull EXCEPT ![best] = "merged"]
    /\ IF best = r
         THEN keeper' = [keeper EXCEPT ![r].pc = "record", ![r].pr = "merged"]
         ELSE Goto(r, "merged")
    /\ UNCHANGED <<byHuman, row, poller, faults>>

(* It may not be merged, or GitHub refuses: its checks are pending, it is       *)
(* settled; a warning.                                                        *)
MergeSkipped(r) ==
  /\ At(r, "merge")
  /\ Goto(r, "record")
  /\ UNCHANGED <<pull, byHuman, row, poller, faults>>

MarkKeeperMergedRun(r) ==
  LET read == keeper[r].read
      best == keeper[r].best
  IN \/ ReadSummaryOf(r, best, "merged", "mergedWrite")
     \/ WriteSummaryOf(r, best, [read EXCEPT !.pr = "merged", !.chosen = TRUE,
                                            !.keeperMerged = TRUE],
                       "mergedWrite", "mergedRow")
     \/ /\ At(r, "mergedRow")
        /\ row' = [row EXCEPT ![best].pr = "merged"]
        /\ Goto(r, "record")
        /\ UNCHANGED <<pull, byHuman, poller, faults>>

MarkMergedFails(r) ==
  /\ keeper[r].pc \in {"merged", "mergedWrite", "mergedRow"}
  /\ SpendFault
  /\ keeper' = [keeper EXCEPT ![r] = [@ EXCEPT !.pc = "record", !.read = NoSummary]]
  /\ UNCHANGED <<pull, byHuman, row, poller>>

(* A statement outside the inner try blocks fails: the catch block makes the  *)
(* run failed, with the summary the row has, but keeps the pull request.      *)
Throw(r) ==
  /\ keeper[r].pc \in {"choose", "count", "countWrite", "ready", "readyWrite", "record"}
  /\ keeper[r].intact
  /\ SpendFault
  /\ keeper' = [keeper EXCEPT ![r] = [@ EXCEPT !.pc = "record", !.status = "failed",
                                               !.intact = FALSE, !.best = 0,
                                               !.read = NoSummary]]
  /\ UNCHANGED <<pull, byHuman, row, poller>>

(* The process dies or loses its lease: another execution starts over.  *)
Crash(r) ==
  /\ r \in Executing
  /\ SpendFault
  /\ keeper' = [keeper EXCEPT ![r] = NotStarted]
  /\ UNCHANGED <<pull, byHuman, row, poller>>

(* The finalizing update, as the outcome or as cancelled if that was asked. *)
Record(r) ==
  /\ At(r, "record")
  /\ \E s \in {keeper[r].status, "cancelled"} :
     /\ IF s = keeper[r].status THEN UNCHANGED faults ELSE SpendFault
     /\ row' = [row EXCEPT ![r] =
                 [status |-> s, pr |-> keeper[r].pr, place |-> Cardinality(Recorded),
                  summary |-> IF keeper[r].intact
                                THEN [pr |-> keeper[r].pr, chosen |-> keeper[r].best = r,
                                      keeperMerged |-> keeper[r].pr = "merged", intact |-> TRUE]
                                ELSE NoSummary]]
  /\ keeper' = [keeper EXCEPT ![r] = [NotStarted EXCEPT !.pc = "done"]]
  /\ UNCHANGED <<pull, byHuman, poller>>

-----------------------------------------------------------------------------
(* pollOnce of the poller *)

(* Mutant of Idle: an answer GitHub does not give. *)
IdleUnknown == [batch |-> {}, at |-> 0, answer |-> "unknown"]

(* batch: candidates still to ask for; at: the one GitHub was asked for, with *)
(* its answer; 0 before.                                                      *)
Idle == [batch |-> {}, at |-> 0, answer |-> "none"]

(* The rows the candidates' query is about. *)
OpenRows == {r \in Recorded : row[r].pr = "open"}

(* Mutant of Batch: the newest first, `order by started_at desc`. *)
BatchOfNewest == {r \in OpenRows : Cardinality({c \in OpenRows : c > r}) < BatchSize}

(* `order by started_at asc limit batchSize`: the oldest ones, every time. *)
Batch == {r \in OpenRows : Cardinality({c \in OpenRows : c < r}) < BatchSize}

PollBegins ==
  /\ poller = Idle
  /\ poller' = [poller EXCEPT !.batch = Batch]
  /\ UNCHANGED <<pull, byHuman, row, keeper, faults>>

NextInBatch(r) == r \in poller.batch /\ \A c \in poller.batch : r <= c

PollAsks ==
  /\ poller.at = 0
  /\ \E r \in Runs :
       /\ NextInBatch(r)
       /\ poller' = [batch |-> poller.batch \ {r}, at |-> r, answer |-> pull[r]]
  /\ UNCHANGED <<pull, byHuman, row, keeper, faults>>

(* The update: state and summary in one statement, by id only. *)
PollWrites ==
  LET c == poller.at
      s == row[c].summary
  IN /\ c # 0
     /\ row' = [row EXCEPT ![c].pr = poller.answer,
                           ![c].summary = [s EXCEPT !.pr = poller.answer,
                              !.keeperMerged = s.keeperMerged \/ (poller.answer = "merged" /\ s.chosen)]]
     /\ poller' = [poller EXCEPT !.at = 0, !.answer = "none"]
     /\ UNCHANGED <<pull, byHuman, keeper, faults>>

(* A request times out or is refused, or the update fails: next row. *)
PollFails ==
  /\ \/ poller.at # 0 /\ poller' = [poller EXCEPT !.at = 0, !.answer = "none"]
     \/ /\ poller.at = 0
        /\ \E r \in Runs : NextInBatch(r) /\ poller' = [poller EXCEPT !.batch = @ \ {r}]
  /\ SpendFault
  /\ UNCHANGED <<pull, byHuman, row, keeper>>

-----------------------------------------------------------------------------
Init ==
  /\ pull = [r \in Runs |-> "none"]
  /\ byHuman = {}
  /\ row = [r \in Runs |-> [status |-> "running", pr |-> "none", place |-> 0,
                            summary |-> NoSummary]]
  /\ keeper = [r \in Runs |-> NotStarted]
  /\ poller = Idle
  /\ faults = MaxFaults

(* The steps of an execution that goes on. *)
Execute(r) ==
  \/ EndWorkflow(r) \/ CreatePull(r) \/ CreateFails(r) \/ ChooseKeeper(r)
  \/ CloseOther(r) \/ CloseOtherFails(r) \/ MarkSupersededRun(r) \/ OthersClosed(r)
  \/ CloseOwn(r) \/ CloseOwnFails(r) \/ PromoteKeeper(r) \/ LabelKeeper(r)
  \/ MergeKeeper(r) \/ MergeSkipped(r) \/ MarkKeeperMergedRun(r) \/ Record(r)

Disturb(r) == MarkFails(r) \/ MarkMergedFails(r) \/ Throw(r) \/ Crash(r) \/ HumanSettles(r)

Poll == PollBegins \/ PollAsks \/ PollWrites

Next == (\E r \in Runs : Execute(r) \/ Disturb(r)) \/ Poll \/ PollFails

Spec == Init /\ [][Next]_vars

(* The poller's loop goes on; GitHub answers in the end, as faults are        *)
(* bounded.  Nothing is asked of the executions.                              *)
FairSpec == Spec /\ WF_vars(Poll)

-----------------------------------------------------------------------------
TypeOK ==
  /\ pull \in [Runs -> PullStates]
  /\ byHuman \subseteq Runs
  /\ row \in [Runs -> Row]
  /\ keeper \in [Runs -> Execution]
  /\ poller \in [batch : SUBSET Runs, at : 0..NumRuns, answer : PullStates]
  /\ faults \in 0..MaxFaults

(* What a pull request state written down in one place says of GitHub. *)
NotAhead(state, r) ==
  /\ state = "merged" => pull[r] = "merged"
  /\ state = "closed" => pull[r] \in {"closed", "merged"}

(* No row and no summary is ahead of GitHub, for all the stale answers of the *)
(* poller and the lost updates of summaries: what is recorded as merged is    *)
(* merged, what is recorded as closed is not open (workflow-service.ts        *)
(* 378-505, 1598-1773, pr-poller-worker.ts 195-240).                          *)
RecordsAreTrue ==
  \A r \in Runs :
    /\ NotAhead(row[r].pr, r)
    /\ NotAhead(row[r].summary.pr, r)
    /\ row[r].summary.keeperMerged => pull[r] = "merged"

(* Keeper automation never closes the last pull request of a target: each run *)
(* that closes others leaves the one it prefers, whatever the executions that *)
(* race with it see.  That a person, a cancel or an error took part in it is  *)
(* excluded: a run cancelled after it closed the others is worth less than    *)
(* they were, and one of them that a stale answer of the poller reopened in   *)
(* its row is then preferred to it (workflow-service.ts 1598-1673,            *)
(* pr-keeper.ts 61-90).                                                       *)
KeeperSurvives ==
  \A r \in Runs :
    LET same == {c \in Runs : Target[c] = Target[r] /\ pull[c] # "none"} IN
      /\ pull[r] # "none"
      /\ same \cap byHuman = {}
      /\ \A c \in same \cap Recorded : row[c].status \in Outcomes
      => \E c \in same : pull[c] \in {"open", "merged"}

(* Older open pull requests fill the batch before r's turn comes. *)
Crowded(r) ==
  Cardinality({c \in OpenRows : c < r /\ pull[c] = "open"}) >= BatchSize

(* A row that says open of a pull request settled on GitHub.  *)
Stale(r) == row[r].pr = "open" /\ pull[r] # "open"

(* A stale row is put right: the poller asks for it again until the row says  *)
(* what GitHub says, unless as many older pull requests as one batch holds    *)
(* stay open for good, for it asks for the oldest rows every time             *)
(* (pr-poller-worker.ts 122-240).                                             *)
RowsCatchUp ==
  \A r \in Runs : Stale(r) ~> (row[r].pr \in {"closed", "merged"} \/ []Crowded(r))

(* apps/api/test/integration.spec.ts:3127: "keeps only one open keeper PR per *)
(* project/base branch and closes superseded PRs": once executions are over.  *)
OneOpenKeeper ==
  Executing = {} =>
    \A r, c \in Runs :
      Target[r] = Target[c] /\ row[r].pr = "open" /\ row[c].pr = "open"
        /\ pull[r] = "open" /\ pull[c] = "open" => r = c
=============================================================================
