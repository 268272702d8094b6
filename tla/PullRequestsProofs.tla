------------------------- MODULE PullRequestsProofs -------------------------
(***************************************************************************)
(* For every number of runs, executions and faults: the types of           *)
(* PullRequests, that no row is ahead of GitHub, and that keeper           *)
(* automation leaves a pull request for every target.                      *)
(***************************************************************************)
EXTENDS PullRequests, FiniteSetTheorems, TLAPS

(* What was read or answered of r's pull request, and what a summary says of  *)
(* it, agree with the pull requests p.                                        *)
SeenIn(p, state, r) ==
  /\ state = "merged" => p[r] = "merged"
  /\ state = "closed" => p[r] \in {"closed", "merged"}
  /\ state = "open" => p[r] # "none"

SummaryIn(p, s, r) == SeenIn(p, s.pr, r) /\ (s.keeperMerged => p[r] = "merged")
RowIn(p, w, r) == SeenIn(p, w.pr, r) /\ SummaryIn(p, w.summary, r)

(* The steps of an execution that marks a run it closed, that marks the       *)
(* keeper merged, that writes back the keeper's summary, that has chosen a    *)
(* keeper, and that has opened its pull request.                              *)
Marking == {"mark", "markWrite", "markRow"}
MarkingMerged == {"merged", "mergedWrite", "mergedRow"}
WritingBest == {"countWrite", "readyWrite", "mergedWrite"}
Chosen == {"close", "closeOwn", "count", "countWrite", "label", "ready", "readyWrite", "merge"}
            \cup Marking \cup MarkingMerged
Opened == {"choose"} \cup Chosen

(* What the execution k of r holds in its local variables agrees with the     *)
(* pull requests p: its own, those it will close, the one in hand, the        *)
(* keeper's, and the summary it is about to write back.                       *)
KeeperIn(p, k, r) ==
  /\ SeenIn(p, k.pr, r)
  /\ k.pc \in Opened => p[r] # "none"
  /\ \A c \in k.todo : p[c] # "none"
  /\ k.pc \in Marking => k.at \in Runs /\ p[k.at] \in {"closed", "merged"}
  /\ k.pc \in Chosen => k.best \in Runs
  /\ k.pc \in MarkingMerged => p[k.best] = "merged"
  /\ k.pc = "markWrite" => SummaryIn(p, k.read, k.at)
  /\ k.pc \in WritingBest => SummaryIn(p, k.read, k.best)

PollerIn(p, l) == l.at # 0 => SeenIn(p, l.answer, l.at)

AllIn(p) ==
  /\ \A r \in Runs : RowIn(p, row[r], r)
  /\ \A r \in Runs : KeeperIn(p, keeper[r], r)
  /\ PollerIn(p, poller)

IInv == TypeOK /\ AllIn(pull)

(* A pull request goes from none to open and from open to closed or merged,  *)
(* and stays there.                                                          *)
Advance(p, q) ==
  \A r \in Runs :
    \/ q[r] = p[r]
    \/ p[r] = "none" /\ q[r] = "open"
    \/ p[r] = "open" /\ q[r] \in {"closed", "merged"}

-----------------------------------------------------------------------------
LEMMA RunsAreNat == Runs \subseteq Nat /\ 0 \notin Runs /\ Runs \subseteq 0..NumRuns
BY PullRequestsAssumption DEF Runs

LEMMA NothingRead ==
  /\ NoSummary \in Summary /\ 0 \in 0..NumRuns
  /\ "none" \in PullStates
BY PullRequestsAssumption DEF NoSummary, Summary, PullStates

LEMMA RecordedInRange == Cardinality(Recorded) \in 0..NumRuns
<1>1. IsFiniteSet(Runs) /\ Cardinality(Runs) = NumRuns
  BY PullRequestsAssumption, FS_Interval DEF Runs
<1>2. Recorded \subseteq Runs BY DEF Recorded
<1> QED BY <1>1, <1>2, FS_Subset, FS_CardinalityType

(* What was true of the pull requests stays true as they advance.  *)
LEMMA SeenStays ==
  ASSUME NEW p, NEW q, Advance(p, q), NEW r \in Runs, NEW state, SeenIn(p, state, r)
  PROVE  SeenIn(q, state, r)
BY DEF Advance, SeenIn

LEMMA SummaryStays ==
  ASSUME NEW p, NEW q, Advance(p, q), NEW r \in Runs, NEW s, SummaryIn(p, s, r)
  PROVE  SummaryIn(q, s, r)
<1>1. p[r] = "merged" => q[r] = "merged" BY DEF Advance
<1> QED BY <1>1, SeenStays DEF SummaryIn

LEMMA RowStays ==
  ASSUME NEW p, NEW q, Advance(p, q), NEW r \in Runs, NEW w, RowIn(p, w, r)
  PROVE  RowIn(q, w, r)
BY SeenStays, SummaryStays DEF RowIn

LEMMA KeeperStays ==
  ASSUME NEW p, NEW q, Advance(p, q), NEW r \in Runs, NEW k \in Execution, KeeperIn(p, k, r)
  PROVE  KeeperIn(q, k, r)
<1> k.todo \subseteq Runs BY DEF Execution
<1>1. SeenIn(q, k.pr, r) BY SeenStays DEF KeeperIn
<1>2. \A c \in Runs : p[c] # "none" => q[c] # "none" BY DEF Advance
<1>3. \A c \in Runs : p[c] \in {"closed", "merged"} => q[c] = p[c] BY DEF Advance
<1>4. k.pc = "markWrite" => SummaryIn(q, k.read, k.at)
  BY SummaryStays DEF KeeperIn, Marking
<1>5. k.pc \in WritingBest => SummaryIn(q, k.read, k.best)
  <2>1. WritingBest \subseteq Chosen BY DEF WritingBest, Chosen, MarkingMerged, Marking
  <2> QED BY <2>1, SummaryStays DEF KeeperIn
<1>6. k.pc \in MarkingMerged => q[k.best] = "merged"
  <2>1. MarkingMerged \subseteq Chosen BY DEF Chosen
  <2> QED BY <2>1, <1>3 DEF KeeperIn
<1> QED BY <1>1, <1>2, <1>3, <1>4, <1>5, <1>6 DEF KeeperIn

LEMMA AllStay ==
  ASSUME TypeOK, NEW q, Advance(pull, q), AllIn(pull)
  PROVE  AllIn(q)
<1>1. \A r \in Runs : keeper[r] \in Execution BY DEF TypeOK
<1>2. PollerIn(q, poller)
  <2>1. poller.at # 0 => poller.at \in Runs
    BY PullRequestsAssumption DEF TypeOK, Runs
  <2> QED BY <2>1, SeenStays DEF AllIn, PollerIn
<1> QED BY <1>1, <1>2, RowStays, KeeperStays DEF AllIn

-----------------------------------------------------------------------------
(* What no step of anyone does: GitHub never goes back, and only people and   *)
(* faults change the rest.                                                    *)
LEMMA Frame ==
  ASSUME IInv, Next
  PROVE  /\ pull' \in [Runs -> PullStates] /\ Advance(pull, pull')
         /\ byHuman' \subseteq Runs
         /\ faults' \in 0..MaxFaults
<1> USE RunsAreNat, PullRequestsAssumption DEF SpendFault
<1>0. TypeOK /\ AllIn(pull) BY DEF IInv
<1>1. faults \in 0..MaxFaults /\ byHuman \subseteq Runs /\ pull \in [Runs -> PullStates]
  BY <1>0 DEF TypeOK
<1>2. Advance(pull, pull) BY DEF Advance
<1>3. ASSUME NEW c \in Runs, pull' = AfterClose(c)
      PROVE  pull' \in [Runs -> PullStates] /\ Advance(pull, pull')
  BY <1>1, <1>3 DEF AfterClose, Advance, PullStates
<1>4. CASE Poll \/ PollFails
  BY <1>1, <1>2, <1>4 DEF Poll, PollBegins, PollAsks, PollWrites, PollFails
<1>5. ASSUME NEW r \in Runs, Execute(r)
      PROVE  /\ pull' \in [Runs -> PullStates] /\ Advance(pull, pull')
             /\ byHuman' \subseteq Runs
             /\ faults' \in 0..MaxFaults
  <2>0. keeper[r] \in Execution BY <1>0 DEF TypeOK
  <2>1. CASE EndWorkflow(r) BY <1>1, <1>2, <2>1 DEF EndWorkflow
  <2>2. CASE CreatePull(r) BY <1>1, <2>2 DEF CreatePull, Advance, PullStates
  <2>3. CASE CreateFails(r) BY <1>1, <1>2, <2>3 DEF CreateFails
  <2>4. CASE ChooseKeeper(r) BY <1>1, <1>2, <2>4 DEF ChooseKeeper
  <2>5. CASE CloseOther(r)
    <3>1. keeper[r].todo \subseteq Runs BY <2>0 DEF Execution
    <3> QED BY <1>1, <1>3, <2>5, <3>1 DEF CloseOther
  <2>6. CASE CloseOtherFails(r) BY <1>1, <1>2, <2>6 DEF CloseOtherFails
  <2>7. CASE MarkSupersededRun(r)
    BY <1>1, <1>2, <2>7 DEF MarkSupersededRun, ReadSummaryOf, WriteSummaryOf
  <2>8. CASE OthersClosed(r) BY <1>1, <1>2, <2>8 DEF OthersClosed
  <2>9. CASE CloseOwn(r) BY <1>1, <1>3, <2>9 DEF CloseOwn
  <2>10. CASE CloseOwnFails(r) BY <1>1, <1>2, <2>10 DEF CloseOwnFails
  <2>11. CASE PromoteKeeper(r)
    BY <1>1, <1>2, <2>11 DEF PromoteKeeper, ReadSummaryOf, WriteSummaryOf
  <2>12. CASE LabelKeeper(r) BY <1>1, <1>2, <2>12 DEF LabelKeeper
  <2>13. CASE MergeKeeper(r)
    <3>1. keeper[r].best \in Runs
      BY <1>0, <2>13 DEF AllIn, KeeperIn, Chosen, MergeKeeper, At
    <3> QED BY <1>1, <2>13, <3>1 DEF MergeKeeper, Advance, PullStates
  <2>14. CASE MergeSkipped(r) BY <1>1, <1>2, <2>14 DEF MergeSkipped
  <2>15. CASE MarkKeeperMergedRun(r)
    BY <1>1, <1>2, <2>15 DEF MarkKeeperMergedRun, ReadSummaryOf, WriteSummaryOf
  <2>16. CASE Record(r) BY <1>1, <1>2, <2>16 DEF Record
  <2> QED
    BY <1>5, <2>1, <2>2, <2>3, <2>4, <2>5, <2>6, <2>7, <2>8, <2>9, <2>10, <2>11, <2>12,
       <2>13, <2>14, <2>15, <2>16 DEF Execute
<1>6. ASSUME NEW r \in Runs, Disturb(r)
      PROVE  /\ pull' \in [Runs -> PullStates] /\ Advance(pull, pull')
             /\ byHuman' \subseteq Runs
             /\ faults' \in 0..MaxFaults
  <2>1. CASE HumanSettles(r) BY <1>1, <2>1 DEF HumanSettles, Advance, PullStates
  <2>2. CASE MarkFails(r) BY <1>1, <1>2, <2>2 DEF MarkFails
  <2>3. CASE MarkMergedFails(r) BY <1>1, <1>2, <2>3 DEF MarkMergedFails
  <2>4. CASE Throw(r) BY <1>1, <1>2, <2>4 DEF Throw
  <2>5. CASE Crash(r) BY <1>1, <1>2, <2>5 DEF Crash
  <2> QED BY <1>6, <2>1, <2>2, <2>3, <2>4, <2>5 DEF Disturb
<1> QED BY <1>4, <1>5, <1>6 DEF Next

-----------------------------------------------------------------------------
(* A step that changes one execution, and one that changes a row with it.  *)
LEMMA KeeperStep ==
  ASSUME IInv, Next, NEW r \in Runs, NEW e \in Execution,
         keeper' = [keeper EXCEPT ![r] = e], KeeperIn(pull', e, r),
         UNCHANGED <<row, poller>>
  PROVE  IInv'
<1>1. TypeOK /\ AllIn(pull) BY DEF IInv
<1>2. Advance(pull, pull') BY Frame
<1>3. TypeOK' BY <1>1, Frame DEF TypeOK
<1>4. \A c \in Runs : KeeperIn(pull', keeper[c], c)
  BY <1>1, <1>2, AllStay DEF AllIn
<1>5. \A c \in Runs : KeeperIn(pull', keeper'[c], c)
  BY <1>1, <1>4 DEF TypeOK
<1>6. (\A c \in Runs : RowIn(pull', row[c], c)) /\ PollerIn(pull', poller)
  BY <1>1, <1>2, AllStay DEF AllIn
<1> QED BY <1>3, <1>5, <1>6 DEF IInv, AllIn

LEMMA RowStep ==
  ASSUME IInv, Next, NEW r \in Runs, NEW e \in Execution,
         keeper' = [keeper EXCEPT ![r] = e], KeeperIn(pull', e, r),
         NEW c \in Runs, NEW w \in Row,
         row' = [row EXCEPT ![c] = w], RowIn(pull', w, c),
         UNCHANGED poller
  PROVE  IInv'
<1>1. TypeOK /\ AllIn(pull) BY DEF IInv
<1>2. Advance(pull, pull') BY Frame
<1>3. TypeOK' BY <1>1, Frame DEF TypeOK
<1>4. (\A d \in Runs : KeeperIn(pull', keeper[d], d)) /\ PollerIn(pull', poller)
      /\ \A d \in Runs : RowIn(pull', row[d], d)
  BY <1>1, <1>2, AllStay DEF AllIn
<1>5. \A d \in Runs : KeeperIn(pull', keeper'[d], d)
  BY <1>1, <1>4 DEF TypeOK
<1>6. \A d \in Runs : RowIn(pull', row'[d], d)
  BY <1>1, <1>4 DEF TypeOK
<1> QED BY <1>3, <1>4, <1>5, <1>6 DEF IInv, AllIn

-----------------------------------------------------------------------------
(* What an execution holds as it goes on.  *)
LEMMA Holding ==
  ASSUME IInv, Next, NEW r \in Runs
  PROVE  /\ keeper \in [Runs -> Execution] /\ keeper[r] \in Execution
         /\ row \in [Runs -> Row]
         /\ KeeperIn(pull', keeper[r], r)
         /\ \A c \in Runs : RowIn(pull', row[c], c)
<1>1. TypeOK /\ AllIn(pull) BY DEF IInv
<1>2. AllIn(pull') BY <1>1, Frame, AllStay
<1> QED BY <1>1, <1>2 DEF TypeOK, AllIn

LEMMA OpeningKeeps ==
  ASSUME IInv, Next, NEW r \in Runs,
         EndWorkflow(r) \/ CreatePull(r) \/ CreateFails(r) \/ ChooseKeeper(r)
  PROVE  IInv'
<1> DEFINE k == keeper[r]
<1> USE RunsAreNat
<1>0. k \in Execution /\ KeeperIn(pull', k, r) /\ keeper \in [Runs -> Execution]
  BY Holding
<1>1. CASE EndWorkflow(r)
  <2>1. PICK s \in Outcomes :
          keeper' = [keeper EXCEPT ![r] = [k EXCEPT !.pc = "create", !.status = s,
                                            !.intact = TRUE, !.place = Cardinality(Recorded)]]
    BY <1>1 DEF EndWorkflow
  <2> DEFINE e == [k EXCEPT !.pc = "create", !.status = s,
                            !.intact = TRUE, !.place = Cardinality(Recorded)]
  <2>2. e \in Execution
    BY <1>0, RecordedInRange, PullRequestsAssumption DEF Execution, Steps, Ended
  <2>3. KeeperIn(pull', e, r)
    BY <1>0 DEF KeeperIn, Opened, Chosen, Marking, MarkingMerged, WritingBest, Execution
  <2>4. UNCHANGED <<row, poller>> BY <1>1 DEF EndWorkflow
  <2> HIDE DEF e
  <2>5. keeper' = [keeper EXCEPT ![r] = e] BY <2>1 DEF e
  <2> QED BY <2>2, <2>3, <2>4, <2>5, KeeperStep
<1>2. CASE CreatePull(r)
  <2> DEFINE e == [k EXCEPT !.pc = "choose", !.pr = "open"]
  <2>1. keeper' = [keeper EXCEPT ![r] = e] /\ UNCHANGED <<row, poller>>
    BY <1>0, <1>2 DEF CreatePull
  <2>2. e \in Execution BY <1>0 DEF Execution, Steps, PullStates
  <2>3. pull'[r] # "none" BY <1>2 DEF CreatePull, IInv, TypeOK
  <2>4. KeeperIn(pull', e, r)
    BY <1>0, <2>3
    DEF KeeperIn, SeenIn, Opened, Chosen, Marking, MarkingMerged, WritingBest, Execution
  <2> HIDE DEF e
  <2> QED BY <2>1, <2>2, <2>4, KeeperStep
<1>3. CASE CreateFails(r)
  <2> DEFINE e == [k EXCEPT !.pc = "record", !.status = "blocked", !.intact = FALSE]
  <2>1. keeper' = [keeper EXCEPT ![r] = e] /\ UNCHANGED <<row, poller>>
    BY <1>0, <1>3 DEF CreateFails
  <2>2. e \in Execution BY <1>0 DEF Execution, Steps, Ended
  <2>3. KeeperIn(pull', e, r)
    BY <1>0
    DEF KeeperIn, SeenIn, Opened, Chosen, Marking, MarkingMerged, WritingBest, Execution
  <2> HIDE DEF e
  <2> QED BY <2>1, <2>2, <2>3, KeeperStep
<1>4. CASE ChooseKeeper(r)
  <2> DEFINE others == OpenRecorded(r)
             candidates == {CandidateOfRow(c) : c \in others} \cup {CandidateOfSelf(r)}
  <2>1. PICK best \in Choices(candidates) :
          keeper' = [keeper EXCEPT ![r] = [k EXCEPT !.pc = "close", !.best = best,
                                                    !.todo = others \ {best}]]
    BY <1>4 DEF ChooseKeeper
  <2>2. others \subseteq Runs /\ \A c \in others : row[c].pr = "open"
    BY DEF OpenRecorded, Recorded
  <2>3. best \in Runs
    BY <2>2 DEF Choices, CandidateOfRow, CandidateOfSelf
  <2> HIDE DEF others, candidates
  <2> DEFINE e == [k EXCEPT !.pc = "close", !.best = best, !.todo = others \ {best}]
  <2>4. e \in Execution BY <1>0, <2>2, <2>3 DEF Execution, Steps
  <2>5. \A c \in others : pull'[c] # "none"
    BY <2>2, Holding DEF RowIn, SeenIn
  <2>6. KeeperIn(pull', e, r)
    BY <1>0, <1>4, <2>3, <2>5
   
   DEF ChooseKeeper, At, KeeperIn, SeenIn, Opened, Chosen, Marking, MarkingMerged, WritingBest,
        Execution
  <2>7. UNCHANGED <<row, poller>> BY <1>4 DEF ChooseKeeper
  <2> HIDE DEF e
  <2>8. keeper' = [keeper EXCEPT ![r] = e] BY <2>1 DEF e
  <2> QED BY <2>4, <2>6, <2>7, <2>8, KeeperStep
<1> QED BY <1>1, <1>2, <1>3, <1>4

LEMMA ClosingKeeps ==
  ASSUME IInv, Next, NEW r \in Runs,
         \/ CloseOther(r) \/ CloseOtherFails(r) \/ OthersClosed(r)
         \/ CloseOwn(r) \/ CloseOwnFails(r) \/ LabelKeeper(r)
  PROVE  IInv'
<1> DEFINE k == keeper[r]
<1> USE RunsAreNat
<1>0. k \in Execution /\ KeeperIn(pull', k, r) /\ keeper \in [Runs -> Execution]
      /\ KeeperIn(pull, k, r) /\ pull \in [Runs -> PullStates]
  BY Holding DEF IInv, TypeOK, AllIn
<1>1. CASE CloseOther(r)
  <2>1. PICK c \in k.todo :
          /\ pull' = AfterClose(c)
          /\ keeper' = [keeper EXCEPT ![r] = [k EXCEPT !.pc = "mark", !.at = c,
                                                    !.todo = k.todo \ {c}]]
    BY <1>1 DEF CloseOther
  <2> DEFINE e == [k EXCEPT !.pc = "mark", !.at = c, !.todo = k.todo \ {c}]
  <2>2. c \in Runs /\ k.pc = "close" BY <1>0, <1>1 DEF Execution, CloseOther, At
  <2>3. pull'[c] \in {"closed", "merged"}
    BY <1>0, <2>1, <2>2 DEF AfterClose, KeeperIn, PullStates
  <2>4. e \in Execution BY <1>0, <2>2 DEF Execution, Steps
  <2>5. KeeperIn(pull', e, r)
    BY <1>0, <2>2, <2>3
    DEF KeeperIn, SeenIn, Opened, Chosen, Marking, MarkingMerged, WritingBest, Execution
  <2>6. UNCHANGED <<row, poller>> BY <1>1 DEF CloseOther
  <2> HIDE DEF e
  <2>7. keeper' = [keeper EXCEPT ![r] = e] BY <2>1 DEF e
  <2> QED BY <2>4, <2>5, <2>6, <2>7, KeeperStep
<1>2. CASE CloseOtherFails(r)
  <2>1. PICK c \in k.todo : keeper' = [keeper EXCEPT ![r] = [k EXCEPT !.todo = @ \ {c}]]
    BY <1>2 DEF CloseOtherFails
  <2> DEFINE e == [k EXCEPT !.todo = @ \ {c}]
  <2>2. e \in Execution BY <1>0 DEF Execution
  <2>3. KeeperIn(pull', e, r)
    BY <1>0
    DEF KeeperIn, SeenIn, Opened, Chosen, Marking, MarkingMerged, WritingBest, Execution
  <2>4. UNCHANGED <<row, poller>> BY <1>2 DEF CloseOtherFails
  <2> HIDE DEF e
  <2>5. keeper' = [keeper EXCEPT ![r] = e] BY <2>1 DEF e
  <2> QED BY <2>2, <2>3, <2>4, <2>5, KeeperStep
<1>3. CASE OthersClosed(r)
  <2>1. PICK to \in {"label", "closeOwn"} : Goto(r, to)
    BY <1>3 DEF OthersClosed
  <2> DEFINE e == [k EXCEPT !.pc = to]
  <2>2. keeper' = [keeper EXCEPT ![r] = e] /\ UNCHANGED <<row, poller>> /\ k.pc = "close"
    BY <1>0, <1>3, <2>1 DEF OthersClosed, At, Goto
  <2>3. e \in Execution BY <1>0 DEF Execution, Steps
  <2>4. KeeperIn(pull', e, r)
    BY <1>0, <2>2
    DEF KeeperIn, SeenIn, Opened, Chosen, Marking, MarkingMerged, WritingBest, Execution
  <2> HIDE DEF e
  <2> QED BY <2>2, <2>3, <2>4, KeeperStep
<1>4. CASE CloseOwn(r)
  <2> DEFINE e == [k EXCEPT !.pc = AfterClosing(r, TRUE), !.pr = "closed"]
  <2>1. /\ keeper' = [keeper EXCEPT ![r] = e] /\ UNCHANGED <<row, poller>>
        /\ k.pc = "closeOwn" /\ pull' = AfterClose(r)
    BY <1>0, <1>4 DEF CloseOwn, At
  <2>2. AfterClosing(r, TRUE) \in {"count", "label"} BY DEF AfterClosing
  <2>3. pull'[r] \in {"closed", "merged"}
    BY <1>0, <2>1 DEF AfterClose, KeeperIn, Opened, Chosen, PullStates
  <2>4. e \in Execution BY <1>0, <2>1, <2>2 DEF Execution, Steps, PullStates
  <2>5. KeeperIn(pull', e, r)
    BY <1>0, <2>1, <2>2, <2>3
    DEF KeeperIn, SeenIn, Opened, Chosen, Marking, MarkingMerged, WritingBest, Execution
  <2> HIDE DEF e
  <2> QED BY <2>1, <2>4, <2>5, KeeperStep
<1>5. CASE CloseOwnFails(r)
  <2> DEFINE to == AfterClosing(r, k.closedAny)
             e == [k EXCEPT !.pc = to]
  <2>1. keeper' = [keeper EXCEPT ![r] = e] /\ UNCHANGED <<row, poller>> /\ k.pc = "closeOwn"
    BY <1>0, <1>5 DEF CloseOwnFails, At, Goto
  <2>2. to \in {"count", "label"} BY DEF AfterClosing
  <2> HIDE DEF to
  <2>3. e \in Execution BY <1>0, <2>2 DEF Execution, Steps
  <2>4. KeeperIn(pull', e, r)
    BY <1>0, <2>1, <2>2
    DEF KeeperIn, SeenIn, Opened, Chosen, Marking, MarkingMerged, WritingBest, Execution
  <2> HIDE DEF e
  <2> QED BY <2>1, <2>3, <2>4, KeeperStep
<1>6. CASE LabelKeeper(r)
  <2>1. PICK to \in {"merge", "ready", "record"} : Goto(r, to)
    BY <1>6 DEF LabelKeeper
  <2> DEFINE e == [k EXCEPT !.pc = to]
  <2>2. keeper' = [keeper EXCEPT ![r] = e] /\ UNCHANGED <<row, poller>> /\ k.pc = "label"
    BY <1>0, <1>6, <2>1 DEF LabelKeeper, At, Goto
  <2>3. e \in Execution BY <1>0 DEF Execution, Steps
  <2>4. KeeperIn(pull', e, r)
    BY <1>0, <2>2
    DEF KeeperIn, SeenIn, Opened, Chosen, Marking, MarkingMerged, WritingBest, Execution
  <2> HIDE DEF e
  <2> QED BY <2>2, <2>3, <2>4, KeeperStep
<1> QED BY <1>1, <1>2, <1>3, <1>4, <1>5, <1>6

(* The three statements of markSupersededRun, the two updates of the keeper's *)
(* summary and the three of markKeeperMergedRun are reads and writes of one    *)
(* kind.                                                                      *)
LEMMA ReadKeeps ==
  ASSUME IInv, Next, NEW r \in Runs, NEW c \in Runs, NEW from, NEW to \in Steps,
         ReadSummaryOf(r, c, from, to),
         \/ from = "mark" /\ to = "markWrite" /\ c = keeper[r].at
         \/ from = "count" /\ to = "countWrite" /\ c = keeper[r].best
         \/ from = "ready" /\ to = "readyWrite" /\ c = keeper[r].best
         \/ from = "merged" /\ to = "mergedWrite" /\ c = keeper[r].best
  PROVE  IInv'
<1> DEFINE k == keeper[r]
           e == [k EXCEPT !.pc = to, !.read = row[c].summary]
<1>0. /\ k \in Execution /\ KeeperIn(pull', k, r) /\ keeper \in [Runs -> Execution]
      /\ row[c] \in Row /\ RowIn(pull', row[c], c)
  BY Holding
<1>1. keeper' = [keeper EXCEPT ![r] = e] /\ UNCHANGED <<row, poller>> /\ k.pc = from
  BY <1>0 DEF ReadSummaryOf, At
<1>2. e \in Execution BY <1>0 DEF Execution, Row
<1>3. SummaryIn(pull', row[c].summary, c) BY <1>0 DEF RowIn
<1>4. KeeperIn(pull', e, r)
  BY <1>0, <1>1, <1>3
  DEF KeeperIn, Opened, Chosen, Marking, MarkingMerged, WritingBest, Execution
<1> HIDE DEF e
<1> QED BY <1>1, <1>2, <1>4, KeeperStep

LEMMA WriteKeeps ==
  ASSUME IInv, Next, NEW r \in Runs, NEW c \in Runs, NEW s \in Summary,
         NEW from, NEW to \in Steps,
         WriteSummaryOf(r, c, s, from, to), SummaryIn(pull', s, c),
         \/ from = "markWrite" /\ to = "markRow"
         \/ from = "countWrite" /\ to = "label"
         \/ from = "readyWrite" /\ to = "merge"
         \/ from = "mergedWrite" /\ to = "mergedRow"
  PROVE  IInv'
<1> DEFINE k == keeper[r]
           e == [k EXCEPT !.pc = to, !.read = NoSummary]
           w == [row[c] EXCEPT !.summary = s]
<1>0. /\ k \in Execution /\ KeeperIn(pull', k, r) /\ keeper \in [Runs -> Execution]
      /\ row \in [Runs -> Row] /\ row[c] \in Row /\ RowIn(pull', row[c], c)
  BY Holding
<1>1. /\ keeper' = [keeper EXCEPT ![r] = e] /\ row' = [row EXCEPT ![c] = w]
      /\ UNCHANGED poller /\ k.pc = from
  BY <1>0 DEF WriteSummaryOf, At
<1>2. e \in Execution /\ w \in Row BY <1>0, NothingRead DEF Execution, Row
<1>3. RowIn(pull', w, c) BY <1>0 DEF RowIn, Row
<1>4. KeeperIn(pull', e, r)
  BY <1>0, <1>1
  DEF KeeperIn, Opened, Chosen, Marking, MarkingMerged, WritingBest, Execution
<1> HIDE DEF e, w
<1> QED BY <1>1, <1>2, <1>3, <1>4, RowStep

LEMMA SummariesKeep ==
  ASSUME IInv, Next, NEW r \in Runs,
         MarkSupersededRun(r) \/ PromoteKeeper(r) \/ MarkKeeperMergedRun(r)
  PROVE  IInv'
<1> DEFINE k == keeper[r]
           best == k.best
           read == k.read
<1> USE RunsAreNat
<1>0. /\ k \in Execution /\ KeeperIn(pull', k, r) /\ keeper \in [Runs -> Execution]
      /\ row \in [Runs -> Row] /\ \A c \in Runs : RowIn(pull', row[c], c)
  BY Holding
<1>1. read \in Summary BY <1>0 DEF Execution
<1>2. {"mark", "markWrite", "markRow", "count", "countWrite", "label", "ready", "readyWrite",
       "merge", "merged", "mergedWrite", "mergedRow", "close", "record"} \subseteq Steps
  BY DEF Steps
<1>3. CASE MarkSupersededRun(r)
  <2> DEFINE s == [read EXCEPT !.pr = "closed", !.chosen = FALSE]
  <2>1. k.pc \in Marking
    BY <1>3
    DEF MarkSupersededRun, ReadSummaryOf, WriteSummaryOf, At, Marking
  <2>2. k.at \in Runs /\ pull'[k.at] \in {"closed", "merged"} BY <1>0, <2>1 DEF KeeperIn
  <2>3. CASE ReadSummaryOf(r, k.at, "mark", "markWrite")
    BY <1>2, <2>2, <2>3, ReadKeeps
  <2>4. CASE WriteSummaryOf(r, k.at, s, "markWrite", "markRow")
    <3>1. k.pc = "markWrite" BY <2>4 DEF WriteSummaryOf, At
    <3>2. SummaryIn(pull', s, k.at)
      BY <1>0, <1>1, <2>2, <3>1 DEF KeeperIn, SummaryIn, SeenIn, Summary
    <3>3. s \in Summary BY <1>1 DEF Summary, PullStates
    <3> QED BY <1>2, <2>2, <2>4, <3>2, <3>3, WriteKeeps
  <2>5. CASE /\ At(r, "markRow")
             /\ row' = [row EXCEPT ![k.at].pr = "closed"]
             /\ keeper' = [keeper EXCEPT ![r] = [k EXCEPT !.pc = "close", !.at = 0,
                                                        !.closedAny = TRUE]]
             /\ UNCHANGED <<pull, byHuman, poller, faults>>
    <3> DEFINE e == [k EXCEPT !.pc = "close", !.at = 0, !.closedAny = TRUE]
               w == [row[k.at] EXCEPT !.pr = "closed"]
    <3>1. /\ keeper' = [keeper EXCEPT ![r] = e] /\ row' = [row EXCEPT ![k.at] = w]
          /\ UNCHANGED poller
      BY <1>0, <2>2, <2>5
    <3>2. e \in Execution /\ w \in Row
      <4>1. e \in Execution BY <1>0, <1>2, NothingRead DEF Execution
      <4>2. row[k.at] \in Row BY <1>0, <2>2
      <4>3. w \in Row BY <4>2 DEF Row, PullStates
      <4> QED BY <4>1, <4>3
    <3>3. RowIn(pull', w, k.at) BY <1>0, <2>2 DEF RowIn, SeenIn, Row
    <3>4. KeeperIn(pull', e, r)
      BY <1>0, <2>1
      DEF KeeperIn, Opened, Chosen, Marking, MarkingMerged, WritingBest, Execution
    <3> HIDE DEF e, w
    <3> QED BY <2>2, <3>1, <3>2, <3>3, <3>4, RowStep
  <2> QED BY <1>3, <2>3, <2>4, <2>5 DEF MarkSupersededRun
<1>4. CASE PromoteKeeper(r)
  <2> DEFINE s == [read EXCEPT !.chosen = TRUE]
  <2>1. k.pc \in Chosen
    BY <1>4
    DEF PromoteKeeper, ReadSummaryOf, WriteSummaryOf, At, Chosen
  <2>2. best \in Runs BY <1>0, <2>1 DEF KeeperIn
  <2>3. s \in Summary BY <1>1 DEF Summary
  <2>4. k.pc \in WritingBest => SummaryIn(pull', s, best)
    BY <1>0, <1>1 DEF KeeperIn, SummaryIn, Summary
  <2>5. CASE ReadSummaryOf(r, best, "count", "countWrite")
    BY <1>2, <2>2, <2>5, ReadKeeps
  <2>6. CASE WriteSummaryOf(r, best, s, "countWrite", "label")
    <3>1. k.pc \in WritingBest BY <2>6 DEF WriteSummaryOf, At, WritingBest
    <3> QED BY <1>2, <2>2, <2>3, <2>4, <2>6, <3>1, WriteKeeps
  <2>7. CASE ReadSummaryOf(r, best, "ready", "readyWrite")
    BY <1>2, <2>2, <2>7, ReadKeeps
  <2>8. CASE WriteSummaryOf(r, best, s, "readyWrite", "merge")
    <3>1. k.pc \in WritingBest BY <2>8 DEF WriteSummaryOf, At, WritingBest
    <3> QED BY <1>2, <2>2, <2>3, <2>4, <2>8, <3>1, WriteKeeps
  <2> QED BY <1>4, <2>5, <2>6, <2>7, <2>8 DEF PromoteKeeper
<1>5. CASE MarkKeeperMergedRun(r)
  <2> DEFINE s == [read EXCEPT !.pr = "merged", !.chosen = TRUE, !.keeperMerged = TRUE]
  <2>1. k.pc \in MarkingMerged
    BY <1>5 DEF MarkKeeperMergedRun, ReadSummaryOf, WriteSummaryOf, At, MarkingMerged
  <2>2. best \in Runs /\ pull'[best] = "merged"
    BY <1>0, <2>1 DEF KeeperIn, Chosen
  <2>3. CASE ReadSummaryOf(r, best, "merged", "mergedWrite")
    BY <1>2, <2>2, <2>3, ReadKeeps
  <2>4. CASE WriteSummaryOf(r, best, s, "mergedWrite", "mergedRow")
    <3>1. SummaryIn(pull', s, best) BY <1>1, <2>2 DEF SummaryIn, SeenIn, Summary
    <3>2. s \in Summary BY <1>1 DEF Summary, PullStates
    <3> QED BY <1>2, <2>2, <2>4, <3>1, <3>2, WriteKeeps
  <2>5. CASE /\ At(r, "mergedRow")
             /\ row' = [row EXCEPT ![best].pr = "merged"]
             /\ Goto(r, "record")
             /\ UNCHANGED <<pull, byHuman, poller, faults>>
    <3> DEFINE e == [k EXCEPT !.pc = "record"]
               w == [row[best] EXCEPT !.pr = "merged"]
    <3>1. /\ keeper' = [keeper EXCEPT ![r] = e] /\ row' = [row EXCEPT ![best] = w]
          /\ UNCHANGED poller
      BY <1>0, <2>2, <2>5 DEF Goto
    <3>2. e \in Execution /\ w \in Row
      BY <1>0, <1>2, <2>2 DEF Execution, Row, PullStates
    <3>3. RowIn(pull', w, best) BY <1>0, <2>2 DEF RowIn, SeenIn, Row
    <3>4. KeeperIn(pull', e, r)
      BY <1>0, <2>1
      DEF KeeperIn, Opened, Chosen, Marking, MarkingMerged, WritingBest, Execution
    <3> HIDE DEF e, w
    <3> QED BY <2>2, <3>1, <3>2, <3>3, <3>4, RowStep
  <2> QED BY <1>5, <2>3, <2>4, <2>5 DEF MarkKeeperMergedRun
<1> QED BY <1>3, <1>4, <1>5

LEMMA MergingKeeps ==
  ASSUME IInv, Next, NEW r \in Runs, MergeKeeper(r) \/ MergeSkipped(r)
  PROVE  IInv'
<1> DEFINE k == keeper[r]
<1> USE RunsAreNat
<1>0. k \in Execution /\ KeeperIn(pull', k, r) /\ keeper \in [Runs -> Execution]
      /\ pull \in [Runs -> PullStates]
  BY Holding DEF IInv, TypeOK
<1>1. CASE MergeKeeper(r)
  <2>1. k.pc = "merge" /\ UNCHANGED <<row, poller>> BY <1>1 DEF MergeKeeper, At
  <2>2. k.best \in Runs BY <1>0, <2>1 DEF KeeperIn, Chosen
  <2>3. pull'[k.best] = "merged" BY <1>0, <1>1, <2>2 DEF MergeKeeper
  <2>4. CASE k.best = r
    <3> DEFINE e == [k EXCEPT !.pc = "record", !.pr = "merged"]
    <3>1. keeper' = [keeper EXCEPT ![r] = e] BY <1>0, <1>1, <2>4 DEF MergeKeeper
    <3>2. e \in Execution BY <1>0 DEF Execution, Steps, PullStates
    <3>3. KeeperIn(pull', e, r)
      BY <1>0, <2>1, <2>3, <2>4
      DEF KeeperIn, SeenIn, Opened, Chosen, Marking, MarkingMerged, WritingBest, Execution
    <3> HIDE DEF e
    <3> QED BY <2>1, <3>1, <3>2, <3>3, KeeperStep
  <2>5. CASE k.best # r
    <3> DEFINE e == [k EXCEPT !.pc = "merged"]
    <3>1. keeper' = [keeper EXCEPT ![r] = e] BY <1>0, <1>1, <2>5 DEF MergeKeeper, Goto
    <3>2. e \in Execution BY <1>0 DEF Execution, Steps
    <3>3. KeeperIn(pull', e, r)
      BY <1>0, <2>1, <2>3
      DEF KeeperIn, SeenIn, Opened, Chosen, Marking, MarkingMerged, WritingBest, Execution
    <3> HIDE DEF e
    <3> QED BY <2>1, <3>1, <3>2, <3>3, KeeperStep
  <2> QED BY <2>4, <2>5
<1>2. CASE MergeSkipped(r)
  <2> DEFINE e == [k EXCEPT !.pc = "record"]
  <2>1. keeper' = [keeper EXCEPT ![r] = e] /\ UNCHANGED <<row, poller>> /\ k.pc = "merge"
    BY <1>0, <1>2 DEF MergeSkipped, At, Goto
  <2>2. e \in Execution BY <1>0 DEF Execution, Steps
  <2>3. KeeperIn(pull', e, r)
    BY <1>0, <2>1
    DEF KeeperIn, SeenIn, Opened, Chosen, Marking, MarkingMerged, WritingBest, Execution
  <2> HIDE DEF e
  <2> QED BY <2>1, <2>2, <2>3, KeeperStep
<1> QED BY <1>1, <1>2

LEMMA NotStartedHoldsNothing ==
  ASSUME NEW p, NEW r \in Runs
  PROVE  /\ NotStarted \in Execution /\ KeeperIn(p, NotStarted, r)
         /\ [NotStarted EXCEPT !.pc = "done"] \in Execution
         /\ KeeperIn(p, [NotStarted EXCEPT !.pc = "done"], r)
<1>1. 0 \in 0..NumRuns BY PullRequestsAssumption
<1>2. NotStarted \in Execution /\ [NotStarted EXCEPT !.pc = "done"] \in Execution
  BY <1>1 DEF NotStarted, Execution, Steps, Ended, Summary, NoSummary, PullStates
<1> QED
  BY <1>2
  DEF NotStarted, KeeperIn, SeenIn, Opened, Chosen, Marking, MarkingMerged, WritingBest

LEMMA RecordKeeps ==
  ASSUME IInv, Next, NEW r \in Runs, Record(r)
  PROVE  IInv'
<1> DEFINE k == keeper[r]
           e == [NotStarted EXCEPT !.pc = "done"]
           own == [pr |-> k.pr, chosen |-> k.best = r,
                   keeperMerged |-> k.pr = "merged", intact |-> TRUE]
           summary == IF k.intact THEN own ELSE NoSummary
<1>0. k \in Execution /\ KeeperIn(pull', k, r) /\ row \in [Runs -> Row]
  BY Holding
<1>1. PICK s \in {k.status, "cancelled"} :
        row' = [row EXCEPT ![r] = [status |-> s, pr |-> k.pr, place |-> Cardinality(Recorded),
                                   summary |-> summary]]
  BY DEF Record
<1> DEFINE w == [status |-> s, pr |-> k.pr, place |-> Cardinality(Recorded),
                 summary |-> summary]
<1>2. keeper' = [keeper EXCEPT ![r] = e] /\ UNCHANGED poller BY DEF Record
<1>3. e \in Execution /\ KeeperIn(pull', e, r) BY NotStartedHoldsNothing
<1>4. k.pr \in PullStates /\ s \in Ended \cup {"running"} /\ k.intact \in BOOLEAN
  BY <1>0 DEF Execution, Ended
<1>5. SeenIn(pull', k.pr, r) BY <1>0 DEF KeeperIn
<1>6. summary \in Summary
  <2>1. own \in Summary BY <1>4 DEF Summary
  <2>2. NoSummary \in Summary BY DEF NoSummary, Summary, PullStates
  <2> QED BY <2>1, <2>2
<1>7. SummaryIn(pull', summary, r)
  <2>1. SummaryIn(pull', own, r) BY <1>5 DEF SummaryIn, SeenIn
  <2>2. SummaryIn(pull', NoSummary, r) BY DEF SummaryIn, SeenIn, NoSummary
  <2> QED BY <2>1, <2>2
<1> HIDE DEF summary
<1>8. w \in Row BY <1>4, <1>6, RecordedInRange DEF Row
<1>9. RowIn(pull', w, r) BY <1>5, <1>7 DEF RowIn
<1> HIDE DEF w, e
<1>10. row' = [row EXCEPT ![r] = w] BY <1>1 DEF w
<1> QED BY <1>2, <1>3, <1>8, <1>9, <1>10, RowStep

(* A failure, a crash or a person loses what was in hand and nothing else.  *)
LEMMA DisturbKeeps ==
  ASSUME IInv, Next, NEW r \in Runs, Disturb(r)
  PROVE  IInv'
<1> DEFINE k == keeper[r]
<1>0. /\ k \in Execution /\ KeeperIn(pull', k, r) /\ keeper \in [Runs -> Execution]
  BY Holding
<1>1. CASE HumanSettles(r)
  <2>1. keeper' = [keeper EXCEPT ![r] = k] /\ UNCHANGED <<row, poller>>
    BY <1>0, <1>1 DEF HumanSettles
  <2> QED BY <1>0, <2>1, KeeperStep
<1>2. CASE MarkFails(r)
  <2> DEFINE e == [k EXCEPT !.pc = "close", !.at = 0, !.read = NoSummary]
  <2>1. keeper' = [keeper EXCEPT ![r] = e] /\ UNCHANGED <<row, poller>> /\ k.pc \in Marking
    BY <1>0, <1>2 DEF MarkFails, Marking
  <2>2. e \in Execution BY <1>0, NothingRead DEF Execution, Steps
  <2>3. KeeperIn(pull', e, r)
    BY <1>0, <2>1
    DEF KeeperIn, SeenIn, Opened, Chosen, Marking, MarkingMerged, WritingBest, Execution
  <2> HIDE DEF e
  <2> QED BY <2>1, <2>2, <2>3, KeeperStep
<1>3. CASE MarkMergedFails(r)
  <2> DEFINE e == [k EXCEPT !.pc = "record", !.read = NoSummary]
  <2>1. keeper' = [keeper EXCEPT ![r] = e] /\ UNCHANGED <<row, poller>>
    BY <1>0, <1>3 DEF MarkMergedFails
  <2>2. e \in Execution BY <1>0, NothingRead DEF Execution, Steps
  <2>3. KeeperIn(pull', e, r)
    BY <1>0
    DEF KeeperIn, SeenIn, Opened, Chosen, Marking, MarkingMerged, WritingBest, Execution
  <2> HIDE DEF e
  <2> QED BY <2>1, <2>2, <2>3, KeeperStep
<1>4. CASE Throw(r)
  <2> DEFINE e == [k EXCEPT !.pc = "record", !.status = "failed", !.intact = FALSE,
                            !.best = 0, !.read = NoSummary]
  <2>1. keeper' = [keeper EXCEPT ![r] = e] /\ UNCHANGED <<row, poller>>
    BY <1>0, <1>4 DEF Throw
  <2>2. e \in Execution BY <1>0, NothingRead DEF Execution, Steps, Ended
  <2>3. KeeperIn(pull', e, r)
    BY <1>0
    DEF KeeperIn, SeenIn, Opened, Chosen, Marking, MarkingMerged, WritingBest, Execution
  <2> HIDE DEF e
  <2> QED BY <2>1, <2>2, <2>3, KeeperStep
<1>5. CASE Crash(r)
  <2>1. keeper' = [keeper EXCEPT ![r] = NotStarted] /\ UNCHANGED <<row, poller>>
    BY <1>5 DEF Crash
  <2> QED BY <2>1, NotStartedHoldsNothing, KeeperStep
<1> QED BY <1>1, <1>2, <1>3, <1>4, <1>5 DEF Disturb

-----------------------------------------------------------------------------
(* The poller writes what GitHub answered some time ago: it is still true.  *)
LEMMA PollKeeps ==
  ASSUME IInv, Next, Poll \/ PollFails
  PROVE  IInv'
<1> USE RunsAreNat
<1>0. /\ TypeOK /\ pull' \in [Runs -> PullStates] /\ Advance(pull, pull')
      /\ byHuman' \subseteq Runs /\ faults' \in 0..MaxFaults
  BY Frame DEF IInv
<1>1. AllIn(pull') BY <1>0, AllStay DEF IInv
<1>2. UNCHANGED <<pull, keeper>>
  BY DEF Poll, PollBegins, PollAsks, PollWrites, PollFails
<1> DEFINE L == [batch : SUBSET Runs, at : 0..NumRuns, answer : PullStates]
<1>3. poller \in L BY <1>0 DEF TypeOK
<1>4. ASSUME row' = row, poller' \in L, PollerIn(pull', poller')
      PROVE  IInv'
  BY <1>0, <1>1, <1>2, <1>4 DEF IInv, TypeOK, AllIn
<1>5. CASE PollBegins
  <2>1. Batch \subseteq Runs BY DEF Batch, OpenRows, Recorded
  <2>2. poller' \in L BY <1>3, <1>5, <2>1 DEF PollBegins
  <2>3. PollerIn(pull', poller') BY <1>3, <1>5 DEF PollBegins, PollerIn, Idle
  <2> QED BY <1>4, <1>5, <2>2, <2>3 DEF PollBegins
<1>6. CASE PollAsks
  <2>1. PICK r \in Runs : poller' = [batch |-> poller.batch \ {r}, at |-> r, answer |-> pull[r]]
    BY <1>6 DEF PollAsks
  <2>2. poller' \in L BY <1>0, <1>3, <2>1 DEF TypeOK
  <2>3. PollerIn(pull', poller') BY <1>2, <2>1 DEF PollerIn, SeenIn
  <2> QED BY <1>4, <1>6, <2>2, <2>3 DEF PollAsks
<1>7. CASE PollWrites
  <2> DEFINE c == poller.at
             s == row[c].summary
             t == [s EXCEPT !.pr = poller.answer,
                            !.keeperMerged = s.keeperMerged
                                             \/ (poller.answer = "merged" /\ s.chosen)]
             w == [row[c] EXCEPT !.pr = poller.answer, !.summary = t]
  <2>1. c \in Runs BY <1>3, <1>7, PullRequestsAssumption DEF PollWrites, Runs
  <2>2. row \in [Runs -> Row] /\ row[c] \in Row BY <1>0, <2>1 DEF TypeOK
  <2>3. row' = [row EXCEPT ![c] = w] BY <1>7, <2>1, <2>2 DEF PollWrites
  <2>4. SeenIn(pull', poller.answer, c)
    BY <1>1, <2>1 DEF AllIn, PollerIn
  <2>5. RowIn(pull', row[c], c) BY <1>1, <2>1 DEF AllIn
  <2>6. s \in Summary /\ t \in Summary BY <1>3, <2>2 DEF Row, Summary
  <2>7. SummaryIn(pull', t, c)
    BY <2>4, <2>5, <2>6 DEF SummaryIn, SeenIn, RowIn, Summary
  <2> HIDE DEF t
  <2>8. w \in Row BY <1>3, <2>2, <2>6 DEF Row
  <2>9. RowIn(pull', w, c) BY <2>2, <2>4, <2>7 DEF RowIn, Row
  <2> HIDE DEF w
  <2>10. row' \in [Runs -> Row] /\ \A r \in Runs : RowIn(pull', row'[r], r)
    BY <1>1, <2>1, <2>2, <2>3, <2>8, <2>9 DEF AllIn
  <2>11. poller' \in L /\ PollerIn(pull', poller')
    <3>1. poller' = [poller EXCEPT !.at = 0, !.answer = "none"] BY <1>7 DEF PollWrites
    <3> QED BY <1>3, NothingRead, <3>1 DEF PollerIn
  <2> QED BY <1>0, <1>1, <1>2, <2>10, <2>11 DEF IInv, TypeOK, AllIn
<1>8. CASE PollFails
  <2>1. CASE poller' = [poller EXCEPT !.at = 0, !.answer = "none"]
    <3>1. poller' \in L /\ PollerIn(pull', poller')
      BY <1>3, NothingRead, <2>1 DEF PollerIn
    <3> QED BY <1>4, <1>8, <3>1 DEF PollFails
  <2>2. CASE poller.at = 0
             /\ \E r \in Runs : poller' = [poller EXCEPT !.batch = @ \ {r}]
    <3>1. poller' \in L /\ PollerIn(pull', poller') BY <1>3, <2>2 DEF PollerIn
    <3> QED BY <1>4, <1>8, <3>1 DEF PollFails
  <2> QED BY <1>8, <2>1, <2>2 DEF PollFails
<1> QED BY <1>5, <1>6, <1>7, <1>8 DEF Poll

-----------------------------------------------------------------------------
LEMMA InitIInv == Init => IInv
<1> SUFFICES ASSUME Init PROVE IInv OBVIOUS
<1>0. 0 \in 0..NumRuns /\ NoSummary \in Summary /\ MaxFaults \in 0..MaxFaults
  BY NothingRead, PullRequestsAssumption
<1>1. keeper \in [Runs -> Execution] /\ \A r \in Runs : KeeperIn(pull, keeper[r], r)
  BY NotStartedHoldsNothing DEF Init
<1>2. row \in [Runs -> Row] BY <1>0 DEF Init, Row, PullStates
<1>3. \A r \in Runs : RowIn(pull, row[r], r)
  BY DEF Init, RowIn, SeenIn, SummaryIn, NoSummary
<1>4. /\ pull \in [Runs -> PullStates] /\ byHuman \subseteq Runs /\ faults \in 0..MaxFaults
      /\ poller \in [batch : SUBSET Runs, at : 0..NumRuns, answer : PullStates]
  BY <1>0 DEF Init, PullStates, Idle
<1>5. PollerIn(pull, poller) BY DEF Init, Idle, PollerIn
<1> QED BY <1>1, <1>2, <1>3, <1>4, <1>5 DEF IInv, TypeOK, AllIn

LEMMA StepIInv == IInv /\ [Next]_vars => IInv'
<1> SUFFICES ASSUME IInv, [Next]_vars PROVE IInv' OBVIOUS
<1>1. CASE UNCHANGED vars
  BY <1>1
  DEF IInv, vars, TypeOK, AllIn, RowIn, KeeperIn, PollerIn, SeenIn, SummaryIn
<1>2. CASE Next
  <2>1. CASE Poll \/ PollFails BY <1>2, <2>1, PollKeeps
  <2>2. ASSUME NEW r \in Runs, Disturb(r) PROVE IInv' BY <1>2, <2>2, DisturbKeeps
  <2>3. ASSUME NEW r \in Runs, Execute(r) PROVE IInv'
    BY <1>2, <2>3, OpeningKeeps, ClosingKeeps, SummariesKeep, MergingKeeps, RecordKeeps
    DEF Execute
  <2> QED BY <1>2, <2>1, <2>2, <2>3 DEF Next
<1> QED BY <1>1, <1>2

(* What an execution holds between two of its calls and statements (the pull  *)
(* requests it is to close, the keeper it chose, the summary it read) and what *)
(* the poller was answered agree with GitHub at every moment (workflow-service *)
(* .ts 1598-1773, pr-poller-worker.ts 195-240).                               *)
THEOREM InHandIsTrue == Spec => []IInv
BY InitIInv, StepIInv, PTL DEF Spec

(* The rows, the executions and the poller keep their types; a run in hand and *)
(* a chosen keeper are always runs.                                           *)
THEOREM PullTypes == Spec => []TypeOK
<1>1. IInv => TypeOK BY DEF IInv
<1> QED BY <1>1, InHandIsTrue, PTL

(* For every number of runs and every sizes, targets, limits and faults: no   *)
(* row and no summary is ahead of GitHub (workflow-service.ts 378-505,         *)
(* 1598-1773, pr-poller-worker.ts 195-240).                                   *)
THEOREM RowsAreTrue == Spec => []RecordsAreTrue
<1>1. IInv => RecordsAreTrue
  BY DEF IInv, AllIn, RowIn, SummaryIn, SeenIn, RecordsAreTrue, NotAhead
<1> QED BY <1>1, InHandIsTrue, PTL

(* A pull request is never reopened by this program: once closed or merged it  *)
(* stays so (workflow-service.ts 1598-1773).                                  *)
THEOREM SettledForGood == Spec => [][Advance(pull, pull')]_vars
<1>1. IInv /\ [Next]_vars => [Advance(pull, pull')]_vars
  <2>1. ASSUME IInv, Next PROVE Advance(pull, pull') BY <2>1, Frame
  <2> QED BY <2>1
<1> QED BY <1>1, InHandIsTrue, PTL DEF Spec

-----------------------------------------------------------------------------
(* The last pull request of a target is never closed by keeper automation.   *)
(* The argument: whatever was closed, some run of the same target stands for *)
(* it, whose pull request is open or merged and cannot be closed without     *)
(* another one standing in its place.                                        *)

RecordedIn(w) == {c \in Runs : w[c].status \in Ended}

(* CandidateOfRow and CandidateOfSelf, of the rows w and of an execution k.  *)
RowOf(w, c) ==
  [run |-> c, passed |-> w[c].summary.intact, rank |-> StatusRank(w[c].status),
   size |-> Size[c], time |-> 2 * w[c].place + 1]

SelfOf(k, r) ==
  [run |-> r, passed |-> TRUE, rank |-> StatusRank(k.status), size |-> Size[r],
   time |-> 2 * k.place]

Candidate == [run : Runs, passed : BOOLEAN, rank : Nat, size : Nat, time : Nat]

(* The pull request of r will be left alone: nobody looks at it again, or its *)
(* run ends as a failure.                                                    *)
LeftAlone(k) == k.pr = "none" \/ (~k.intact /\ k.status = "failed")

(* What the execution k of r holds, given the rows w: where its candidates    *)
(* and its keeper come from, and that the keeper is preferred to all of them. *)
HoldIn(w, k, r) ==
  /\ k.place <= Cardinality(RecordedIn(w))
  /\ k.pc = "done" <=> r \in RecordedIn(w)
  /\ k.best \in {0, r} \cup RecordedIn(w)
  /\ k.pc \in {"waiting", "create", "choose", "done"} => k.best = 0
  /\ k.pc \in Chosen => k.best # 0
  /\ k.pc \in {"waiting", "create"} => k.pr = "none"
  /\ k.pc \in Opened \cup {"create"} => k.intact
  /\ k.pc \in Opened => k.pr # "none"
  /\ k.pc = "choose" => k.pr = "open"
  /\ k.pc = "record" => IF k.intact THEN k.pr # "none" ELSE LeftAlone(k)
  /\ k.pc \notin {"waiting", "done"} => k.status \in Ended
  /\ k.best = r => k.pr # "closed"
  /\ k.pc \in {"closeOwn", "count", "countWrite", "ready", "readyWrite"} \cup MarkingMerged
       => k.best # r
  /\ k.best # 0 => Target[k.best] = Target[r]
  /\ k.best \in RecordedIn(w) => w[k.best].pr # "none"
  /\ k.pc \in Marking => k.at \in RecordedIn(w) /\ w[k.at].pr # "none"
  /\ k.pc = "markWrite" => k.read.intact = w[k.at].summary.intact
  /\ k.pc \in WritingBest => k.read.intact = w[k.best].summary.intact
  /\ \A c \in k.todo :
       /\ c \in RecordedIn(w) /\ w[c].pr # "none"
       /\ c # k.best /\ Target[c] = Target[r]
       /\ k.pc \in Chosen =>
            Preferred(IF k.best = r THEN SelfOf(k, r) ELSE RowOf(w, k.best), RowOf(w, c))

(* A pull request that the execution of its run still takes for open is      *)
(* closed by people only.                                                    *)
OwnIn(p, h, k, r) ==
  (k.pc \in Opened \/ (k.pc = "record" /\ k.intact)) /\ k.pr # "closed" /\ p[r] = "closed"
    => r \in h

PlacesIn(w) ==
  /\ \A c \in RecordedIn(w) : w[c].place < Cardinality(RecordedIn(w))
  /\ \A c, d \in RecordedIn(w) : w[c].place = w[d].place => c = d

PolledIn(w, l) ==
  /\ l.batch \subseteq RecordedIn(w) /\ \A c \in l.batch : w[c].pr # "none"
  /\ l.at # 0 => l.at \in RecordedIn(w) /\ w[l.at].pr # "none" /\ l.answer # "none"

Holds ==
  /\ \A r \in Runs : HoldIn(row, keeper[r], r)
  /\ \A r \in Runs : OwnIn(pull, byHuman, keeper[r], r)
  /\ PlacesIn(row)
  /\ PolledIn(row, poller)

(* No person, cancel or error took part in what became of the target t.  *)
Quiet(t) ==
  \A c \in Runs :
    Target[c] = t /\ pull[c] # "none" =>
      c \notin byHuman /\ (c \in Recorded => row[c].status \in Outcomes)

(* The recorded run x can still be chosen, or is already.  *)
Favoured(x) ==
  /\ x \in Recorded
  /\ \/ row[x].pr = "open"
     \/ poller.at = x /\ poller.answer = "open"
     \/ \E r \in Runs : keeper[r].best = x

(* y stands for x: y is out of reach of keeper automation, or chose itself    *)
(* and is preferred to x, or is recorded and preferred to x.                  *)
Stands(y, x) ==
  /\ Target[y] = Target[x] /\ pull[y] \in {"open", "merged"}
  /\ \/ pull[y] = "merged"
     \/ y \notin Recorded /\ LeftAlone(keeper[y])
     \/ y \in Recorded /\ row[y].pr = "none"
     \/ /\ y \notin Recorded /\ keeper[y].best = y /\ keeper[y].intact
        /\ Favoured(x) => Preferred(SelfOf(keeper[y], y), RowOf(row, x))
     \/ /\ y \in Recorded
        /\ Favoured(x) => Preferred(RowOf(row, y), RowOf(row, x))

Survives ==
  \A x \in Runs : Quiet(Target[x]) /\ pull[x] = "closed" => \E y \in Runs : Stands(y, x)

SInv == IInv /\ Holds /\ Survives

(* What every step keeps of the rows that are recorded.  *)
Kept(w, v) ==
  \A c \in RecordedIn(w) :
    /\ c \in RecordedIn(v)
    /\ v[c].status = w[c].status /\ v[c].place = w[c].place
    /\ v[c].summary.intact = w[c].summary.intact
    /\ v[c].pr = "none" <=> w[c].pr = "none"

(* How a step takes the execution k of r to e, as far as others depend on it. *)
Move(p, w, k, e, r) ==
  /\ p[r] # "none" /\ LeftAlone(k) => LeftAlone(e)
  /\ k.best = r /\ k.intact =>
       \/ LeftAlone(e)
       \/ e.best = r /\ e.intact /\ e.status = k.status /\ e.place = k.place
  /\ e.best \in {0, r, k.best} \/ w[e.best].pr = "open"

Moved(r) ==
  \E e \in Execution :
    /\ keeper' = [keeper EXCEPT ![r] = e]
    /\ HoldIn(row', e, r) /\ OwnIn(pull', byHuman', e, r)
    /\ Move(pull, row, keeper[r], e, r)

-----------------------------------------------------------------------------
(* pr-keeper.ts orders the candidates.  *)
LEMMA PreferredOrders ==
  ASSUME NEW a \in Candidate, NEW b \in Candidate
  PROVE  /\ Preferred(a, b) => ~Preferred(b, a)
         /\ a.time # b.time => Preferred(a, b) \/ Preferred(b, a)
         /\ \A c \in Candidate : Preferred(a, b) /\ Preferred(b, c) => Preferred(a, c)
BY DEF Preferred, Candidate

LEMMA CandidatesAre ==
  ASSUME NEW r \in Runs
  PROVE  /\ \A w \in [Runs -> Row] : RowOf(w, r) \in Candidate
         /\ \A k \in Execution : SelfOf(k, r) \in Candidate
<1>1. \A s : StatusRank(s) \in Nat BY DEF StatusRank
<1>2. Size[r] \in Nat BY PullRequestsAssumption
<1>3. ASSUME NEW w \in [Runs -> Row] PROVE RowOf(w, r) \in Candidate
  <2>1. w[r] \in Row BY <1>3
  <2>2. w[r].place \in Nat /\ w[r].summary.intact \in BOOLEAN
    BY <2>1, PullRequestsAssumption DEF Row, Summary
  <2> QED BY <1>1, <1>2, <2>2 DEF RowOf, Candidate
<1>4. ASSUME NEW k \in Execution PROVE SelfOf(k, r) \in Candidate
  <2>1. k.place \in Nat BY PullRequestsAssumption DEF Execution
  <2> QED BY <1>1, <1>2, <2>1 DEF SelfOf, Candidate
<1> QED BY <1>3, <1>4

LEMMA RecordedOf ==
  /\ Recorded = RecordedIn(row) /\ Recorded' = RecordedIn(row')
  /\ \A c \in Runs : CandidateOfRow(c) = RowOf(row, c)
  /\ \A r \in Runs : CandidateOfSelf(r) = SelfOf(keeper[r], r)
BY DEF Recorded, RecordedIn, CandidateOfRow, RowOf, CandidateOfSelf, SelfOf

LEMMA RecordedFinite == ASSUME NEW w PROVE IsFiniteSet(RecordedIn(w))
<1>1. IsFiniteSet(Runs) BY PullRequestsAssumption, FS_Interval DEF Runs
<1>2. RecordedIn(w) \subseteq Runs BY DEF RecordedIn
<1> QED BY <1>1, <1>2, FS_Subset

LEMMA RecordedGrow ==
  ASSUME NEW w, NEW v, Kept(w, v)
  PROVE  /\ RecordedIn(w) \subseteq RecordedIn(v)
         /\ Cardinality(RecordedIn(w)) \in Nat /\ Cardinality(RecordedIn(v)) \in Nat
         /\ Cardinality(RecordedIn(w)) <= Cardinality(RecordedIn(v))
<1>1. IsFiniteSet(Runs) BY PullRequestsAssumption, FS_Interval DEF Runs
<1>2. RecordedIn(v) \subseteq Runs /\ RecordedIn(w) \subseteq RecordedIn(v)
  BY DEF RecordedIn, Kept
<1> QED BY <1>1, <1>2, FS_Subset, FS_CardinalityType

(* What an execution holds stays so as rows are recorded and written.  *)
LEMMA HoldStays ==
  ASSUME NEW w \in [Runs -> Row], NEW v \in [Runs -> Row], Kept(w, v), NEW r \in Runs,
         r \in RecordedIn(v) => r \in RecordedIn(w),
         NEW k \in Execution, HoldIn(w, k, r)
  PROVE  HoldIn(v, k, r)
<1>1. /\ RecordedIn(w) \subseteq RecordedIn(v) /\ RecordedIn(w) \subseteq Runs
      /\ Cardinality(RecordedIn(w)) \in Nat /\ Cardinality(RecordedIn(v)) \in Nat
      /\ Cardinality(RecordedIn(w)) <= Cardinality(RecordedIn(v))
  BY RecordedGrow DEF RecordedIn
<1>2. k.place \in Nat /\ k.best \in 0..NumRuns BY PullRequestsAssumption DEF Execution
<1>3. \A c \in RecordedIn(w) : RowOf(v, c) = RowOf(w, c) BY DEF RowOf, Kept
<1>4. k.best \in RecordedIn(v) => k.best \in RecordedIn(w)
  BY <1>1, RunsAreNat DEF HoldIn, RecordedIn
<1>5. \A c \in k.todo :
       /\ c \in RecordedIn(v) /\ v[c].pr # "none"
       /\ c # k.best /\ Target[c] = Target[r]
       /\ k.pc \in Chosen =>
            Preferred(IF k.best = r THEN SelfOf(k, r) ELSE RowOf(v, k.best), RowOf(v, c))
  <2> SUFFICES ASSUME NEW c \in k.todo
               PROVE  /\ c \in RecordedIn(v) /\ v[c].pr # "none"
                      /\ c # k.best /\ Target[c] = Target[r]
                      /\ k.pc \in Chosen =>
                           Preferred(IF k.best = r THEN SelfOf(k, r) ELSE RowOf(v, k.best),
                                     RowOf(v, c))
    OBVIOUS
  <2>1. c \in RecordedIn(w) /\ w[c].pr # "none" /\ c # k.best /\ Target[c] = Target[r]
    BY DEF HoldIn
  <2>2. c \in RecordedIn(v) /\ v[c].pr # "none" BY <2>1 DEF Kept
  <2>3. RowOf(v, c) = RowOf(w, c) BY <1>3, <2>1
  <2>4. k.pc \in Chosen /\ k.best # r => RowOf(v, k.best) = RowOf(w, k.best)
    BY <1>3 DEF HoldIn
  <2>5. k.pc \in Chosen =>
          Preferred(IF k.best = r THEN SelfOf(k, r) ELSE RowOf(w, k.best), RowOf(w, c))
    BY DEF HoldIn
  <2> QED BY <2>1, <2>2, <2>3, <2>4, <2>5
<1>6. k.pc = "done" <=> r \in RecordedIn(v) BY <1>1 DEF HoldIn
<1>7. k.place <= Cardinality(RecordedIn(v)) BY <1>1, <1>2 DEF HoldIn
<1>8. /\ k.best \in RecordedIn(v) => v[k.best].pr # "none"
      /\ k.pc \in Marking => k.at \in RecordedIn(v) /\ v[k.at].pr # "none"
      /\ k.pc = "markWrite" => k.read.intact = v[k.at].summary.intact
  BY <1>4 DEF HoldIn, Kept, Marking
<1>9. k.pc \in WritingBest => k.read.intact = v[k.best].summary.intact
  <2>1. k.pc \in WritingBest => k.best \in RecordedIn(w)
    BY DEF HoldIn, WritingBest, MarkingMerged, Chosen
  <2> QED BY <2>1 DEF HoldIn, Kept
<1>10. k.best \in {0, r} \cup RecordedIn(v) BY <1>1 DEF HoldIn
<1> QED BY <1>5, <1>6, <1>7, <1>8, <1>9, <1>10 DEF HoldIn

(* What is known of the rows and of an execution before a step of it.  *)
LEMMA Before ==
  ASSUME IInv, Holds, NEW r \in Runs
  PROVE  /\ TypeOK /\ row \in [Runs -> Row] /\ keeper \in [Runs -> Execution]
         /\ keeper[r] \in Execution /\ row[r] \in Row
         /\ HoldIn(row, keeper[r], r) /\ OwnIn(pull, byHuman, keeper[r], r)
         /\ KeeperIn(pull, keeper[r], r)
         /\ RecordedIn(row) \subseteq Runs
BY DEF IInv, AllIn, TypeOK, Holds, RecordedIn

LEMMA KeptIfSame == \A w : Kept(w, w)
BY DEF Kept

(* A write to the row of a recorded run that is not its finalizing update.  *)
LEMMA KeptIfWritten ==
  ASSUME NEW c \in RecordedIn(row), NEW w \in Row, row \in [Runs -> Row],
         row' = [row EXCEPT ![c] = w],
         w.status = row[c].status, w.place = row[c].place,
         w.summary.intact = row[c].summary.intact,
         w.pr = "none" <=> row[c].pr = "none"
  PROVE  Kept(row, row') /\ RecordedIn(row') = RecordedIn(row)
BY DEF Kept, RecordedIn

LEMMA RowsKept ==
  ASSUME IInv, Holds, Next
  PROVE  /\ Kept(row, row')
         /\ RecordedIn(row') = RecordedIn(row) \/ \E r \in Runs : Record(r)
<1> DEFINE Same == Kept(row, row') /\ RecordedIn(row') = RecordedIn(row)
<1>1. row' = row => Same BY KeptIfSame
<1>2. CASE Poll \/ PollFails
  <2>1. CASE PollWrites
    <3> DEFINE c == poller.at
               s == row[c].summary
               t == [s EXCEPT !.pr = poller.answer,
                              !.keeperMerged = s.keeperMerged
                                               \/ (poller.answer = "merged" /\ s.chosen)]
               w == [row[c] EXCEPT !.pr = poller.answer, !.summary = t]
    <3>1. c \in RecordedIn(row) /\ row[c].pr # "none" /\ poller.answer # "none"
      BY <2>1 DEF PollWrites, Holds, PolledIn
    <3>2. row \in [Runs -> Row] /\ c \in Runs /\ row[c] \in Row /\ s \in Summary
      BY <3>1 DEF IInv, TypeOK, RecordedIn, Row
    <3>3. t \in Summary /\ poller.answer \in PullStates
      BY <3>2 DEF IInv, TypeOK, Summary
    <3>4. t.intact = s.intact BY <3>2 DEF Summary
    <3>5. row' = [row EXCEPT ![c] = w] BY <2>1, <3>2 DEF PollWrites
    <3> HIDE DEF t
    <3>6. /\ w \in Row /\ w.status = row[c].status /\ w.place = row[c].place
          /\ w.summary.intact = row[c].summary.intact /\ w.pr = poller.answer
      BY <3>2, <3>3, <3>4 DEF Row
    <3> HIDE DEF w
    <3> QED BY <3>1, <3>2, <3>5, <3>6, KeptIfWritten
  <2> QED BY <1>1, <1>2, <2>1 DEF Poll, PollBegins, PollAsks, PollFails
<1>3. ASSUME NEW r \in Runs, Disturb(r) PROVE Same
  BY <1>1, <1>3 DEF Disturb, HumanSettles, MarkFails, MarkMergedFails, Throw, Crash
<1>4. ASSUME NEW r \in Runs, Execute(r), ~Record(r) PROVE Same
  <2> DEFINE k == keeper[r]
             best == k.best
  <2>0. /\ row \in [Runs -> Row] /\ k \in Execution /\ RecordedIn(row) \subseteq Runs
        /\ HoldIn(row, k, r)
    BY Before
  <2>1. CASE MarkSupersededRun(r) \/ PromoteKeeper(r) \/ MarkKeeperMergedRun(r)
    <3> DEFINE at == k.at
               read == k.read
    <3>1. k.pc \in Marking \cup MarkingMerged \cup {"count", "countWrite", "ready", "readyWrite"}
      BY <2>1 DEF MarkSupersededRun, PromoteKeeper, MarkKeeperMergedRun, ReadSummaryOf,
         WriteSummaryOf, At, Marking, MarkingMerged
    <3>2. k.pc \in Marking => at \in RecordedIn(row) /\ row[at].pr # "none"
      BY <2>0 DEF HoldIn
    <3>3. k.pc \notin Marking => best \in RecordedIn(row) /\ row[best].pr # "none"
      BY <2>0, <3>1 DEF HoldIn, Chosen, Marking, MarkingMerged
    <3>4. k.pc = "markWrite" => read.intact = row[at].summary.intact
      BY <2>0 DEF HoldIn
    <3>5. k.pc \in WritingBest => read.intact = row[best].summary.intact
      BY <2>0 DEF HoldIn
    <3>6. ASSUME NEW c \in RecordedIn(row), NEW s \in Summary,
                 s.intact = row[c].summary.intact,
                 row' = [row EXCEPT ![c].summary = s]
          PROVE  Same
      <4> DEFINE w == [row[c] EXCEPT !.summary = s]
      <4>1. w \in Row /\ row' = [row EXCEPT ![c] = w] BY <2>0, <3>6 DEF Row
      <4>2. /\ w.status = row[c].status /\ w.place = row[c].place
            /\ w.summary.intact = row[c].summary.intact /\ w.pr = row[c].pr
        BY <2>0, <3>6 DEF Row
      <4> HIDE DEF w
      <4> QED BY <2>0, <4>1, <4>2, KeptIfWritten
    <3>7. ASSUME NEW c \in RecordedIn(row), row[c].pr # "none", NEW p \in PullStates \ {"none"},
                 row' = [row EXCEPT ![c].pr = p]
          PROVE  Same
      <4> DEFINE w == [row[c] EXCEPT !.pr = p]
      <4>1. w \in Row /\ row' = [row EXCEPT ![c] = w] BY <2>0, <3>7 DEF Row
      <4>2. /\ w.status = row[c].status /\ w.place = row[c].place
            /\ w.summary.intact = row[c].summary.intact /\ w.pr = p
        BY <2>0, <3>7 DEF Row
      <4> HIDE DEF w
      <4> QED BY <2>0, <3>7, <4>1, <4>2, KeptIfWritten
    <3>8. read \in Summary BY <2>0 DEF Execution
    <3>9. \A a, b \in BOOLEAN, q \in PullStates :
            /\ [read EXCEPT !.pr = q, !.chosen = a] \in Summary
            /\ [read EXCEPT !.chosen = a] \in Summary
            /\ [read EXCEPT !.pr = q, !.chosen = a, !.keeperMerged = b] \in Summary
            /\ [read EXCEPT !.pr = q, !.chosen = a].intact = read.intact
            /\ [read EXCEPT !.chosen = a].intact = read.intact
            /\ [read EXCEPT !.pr = q, !.chosen = a, !.keeperMerged = b].intact = read.intact
      BY <3>8 DEF Summary
    <3>10. {"closed", "merged"} \subseteq PullStates \ {"none"} BY DEF PullStates
    <3>11. CASE MarkSupersededRun(r)
      <4>1. CASE At(r, "markWrite")
                 /\ row' = [row EXCEPT ![at].summary = [read EXCEPT !.pr = "closed", !.chosen = FALSE]]
        <5> DEFINE s == [read EXCEPT !.pr = "closed", !.chosen = FALSE]
        <5>1. s \in Summary /\ s.intact = read.intact BY <3>9, <3>10
        <5> HIDE DEF s
        <5>2. row' = [row EXCEPT ![at].summary = s] BY <4>1 DEF s
        <5> QED BY <3>2, <3>4, <3>6, <4>1, <5>1, <5>2 DEF At, Marking
      <4>2. CASE At(r, "markRow") /\ row' = [row EXCEPT ![at].pr = "closed"]
        BY <3>2, <3>7, <3>10, <4>2 DEF At, Marking
      <4> QED BY <1>1, <3>11, <4>1, <4>2 DEF MarkSupersededRun, ReadSummaryOf, WriteSummaryOf
    <3>12. CASE PromoteKeeper(r)
      <4>1. CASE k.pc \in {"countWrite", "readyWrite"}
                 /\ row' = [row EXCEPT ![best].summary = [read EXCEPT !.chosen = TRUE]]
        <5> DEFINE s == [read EXCEPT !.chosen = TRUE]
        <5>1. s \in Summary /\ s.intact = read.intact BY <3>9, <3>10
        <5> HIDE DEF s
        <5>2. row' = [row EXCEPT ![best].summary = s] BY <4>1 DEF s
        <5>3. k.pc \notin Marking /\ k.pc \in WritingBest BY <4>1 DEF Marking, WritingBest
        <5> QED BY <3>3, <3>5, <3>6, <5>1, <5>2, <5>3
      <4> QED BY <1>1, <3>12, <4>1 DEF PromoteKeeper, ReadSummaryOf, WriteSummaryOf, At
    <3>13. CASE MarkKeeperMergedRun(r)
      <4>1. CASE At(r, "mergedWrite")
                 /\ row' = [row EXCEPT ![best].summary =
                              [read EXCEPT !.pr = "merged", !.chosen = TRUE, !.keeperMerged = TRUE]]
        <5> DEFINE s == [read EXCEPT !.pr = "merged", !.chosen = TRUE, !.keeperMerged = TRUE]
        <5>1. s \in Summary /\ s.intact = read.intact BY <3>9, <3>10
        <5> HIDE DEF s
        <5>2. row' = [row EXCEPT ![best].summary = s] BY <4>1 DEF s
        <5>3. k.pc \notin Marking /\ k.pc \in WritingBest BY <4>1 DEF At, Marking, WritingBest
        <5> QED BY <3>3, <3>5, <3>6, <5>1, <5>2, <5>3
      <4>2. CASE At(r, "mergedRow") /\ row' = [row EXCEPT ![best].pr = "merged"]
        BY <3>3, <3>7, <3>10, <4>2 DEF At, Marking
      <4> QED
        BY <1>1, <3>13, <4>1, <4>2 DEF MarkKeeperMergedRun, ReadSummaryOf, WriteSummaryOf
    <3> QED BY <2>1, <3>11, <3>12, <3>13
  <2> QED
    BY <1>1, <1>4, <2>1
    DEF Execute, EndWorkflow, CreatePull, CreateFails, ChooseKeeper, CloseOther,
        CloseOtherFails, OthersClosed, CloseOwn, CloseOwnFails, LabelKeeper, MergeKeeper,
        MergeSkipped
<1>5. ASSUME NEW r \in Runs, Record(r) PROVE Kept(row, row')
  <2>1. keeper[r].pc = "record" /\ HoldIn(row, keeper[r], r) BY <1>5, Before DEF Record, At
  <2>2. r \notin RecordedIn(row) BY <2>1 DEF HoldIn
  <2>3. row \in [Runs -> Row] BY Before
  <2>4. PICK w : row' = [row EXCEPT ![r] = w] BY <1>5 DEF Record
  <2> QED BY <2>2, <2>3, <2>4 DEF Kept, RecordedIn
<1> QED BY <1>2, <1>3, <1>4, <1>5 DEF Next

LEMMA HeldOn ==
  ASSUME IInv, IInv', Holds, Next, RecordedIn(row') = RecordedIn(row), NEW r \in Runs
  PROVE  /\ keeper \in [Runs -> Execution] /\ keeper[r] \in Execution
         /\ HoldIn(row, keeper[r], r) /\ HoldIn(row', keeper[r], r)
         /\ KeeperIn(pull, keeper[r], r) /\ OwnIn(pull, byHuman, keeper[r], r)
         /\ pull \in [Runs -> PullStates]
<1>1. row \in [Runs -> Row] /\ row' \in [Runs -> Row] BY DEF IInv, TypeOK
<1>2. Kept(row, row') BY RowsKept
<1>3. keeper[r] \in Execution /\ HoldIn(row, keeper[r], r) BY Before
<1>4. HoldIn(row', keeper[r], r) BY <1>1, <1>2, <1>3, HoldStays
<1> QED BY <1>3, <1>4, Before DEF TypeOK

LEMMA SameSelf ==
  ASSUME NEW k, NEW e, e.status = k.status, e.place = k.place
  PROVE  \A r : SelfOf(e, r) = SelfOf(k, r)
BY DEF SelfOf

(* An execution that goes on with the keeper it chose and fewer candidates.  *)
LEMMA GoesOn ==
  ASSUME IInv, IInv', Holds, Next, RecordedIn(row') = RecordedIn(row), NEW r \in Runs,
         NEW e \in Execution, keeper' = [keeper EXCEPT ![r] = e],
         keeper[r].pc \in Chosen, e.pc \in Chosen \cup {"record"},
         e.best = keeper[r].best, e.todo \subseteq keeper[r].todo,
         e.status = keeper[r].status, e.place = keeper[r].place, e.intact = keeper[r].intact,
         e.pr # "none", e.best = r => e.pr # "closed",
         e.pc \in {"closeOwn", "count", "countWrite", "ready", "readyWrite"} \cup MarkingMerged
           => e.best # r,
         e.pc \in Marking => e.at \in RecordedIn(row') /\ row'[e.at].pr # "none",
         e.pc = "markWrite" => e.read.intact = row'[e.at].summary.intact,
         e.pc \in WritingBest => e.read.intact = row'[e.best].summary.intact,
         OwnIn(pull', byHuman', e, r)
  PROVE  Moved(r)
<1> DEFINE k == keeper[r]
<1>0. /\ k \in Execution /\ HoldIn(row', k, r) /\ HoldIn(row, k, r)
      /\ keeper \in [Runs -> Execution]
  BY HeldOn
<1>1. /\ k.intact /\ k.pr # "none" /\ k.pc \notin {"waiting", "create", "choose", "done"}
      /\ e.pc \notin {"waiting", "create", "choose", "done"}
      /\ k.status \in Ended
  BY <1>0 DEF HoldIn, Opened, Chosen, Marking, MarkingMerged
<1>2. \A c \in e.todo :
       /\ c \in RecordedIn(row') /\ row'[c].pr # "none"
       /\ c # e.best /\ Target[c] = Target[r]
       /\ e.pc \in Chosen =>
            Preferred(IF e.best = r THEN SelfOf(e, r) ELSE RowOf(row', e.best), RowOf(row', c))
  BY <1>0, SameSelf DEF HoldIn
<1>3. HoldIn(row', e, r)
  BY <1>0, <1>1, <1>2 DEF HoldIn
<1>4. Move(pull, row, k, e, r) BY <1>1 DEF Move, LeftAlone
<1> QED BY <1>0, <1>3, <1>4 DEF Moved

(* An execution that holds no keeper and no candidates.  *)
LEMMA OpeningMoves ==
  ASSUME IInv, IInv', Holds, Next, RecordedIn(row') = RecordedIn(row), NEW r \in Runs,
         EndWorkflow(r) \/ CreatePull(r) \/ CreateFails(r)
  PROVE  Moved(r)
<1> DEFINE k == keeper[r]
<1>0. /\ k \in Execution /\ HoldIn(row', k, r) /\ keeper \in [Runs -> Execution]
      /\ OwnIn(pull, byHuman, k, r) /\ r \notin RecordedIn(row')
      /\ pull \in [Runs -> PullStates]
  BY HeldOn DEF HoldIn, EndWorkflow, CreatePull, CreateFails, At
<1>1. CASE EndWorkflow(r)
  <2>1. PICK s \in Outcomes :
          keeper' = [keeper EXCEPT ![r] = [k EXCEPT !.pc = "create", !.status = s,
                                            !.intact = TRUE, !.place = Cardinality(Recorded)]]
    BY <1>1 DEF EndWorkflow
  <2> DEFINE e == [k EXCEPT !.pc = "create", !.status = s,
                            !.intact = TRUE, !.place = Cardinality(Recorded)]
  <2>2. e \in Execution
    BY <1>0, RecordedInRange, PullRequestsAssumption DEF Execution, Steps, Ended
  <2>3. /\ k.pc = "waiting" /\ k.pr = "none" /\ k.best = 0 /\ s \in Ended
    BY <1>0, <1>1, PullRequestsAssumption DEF EndWorkflow, At, HoldIn, Ended
  <2>4. Cardinality(Recorded) <= Cardinality(RecordedIn(row'))
    BY RecordedOf, RecordedGrow, KeptIfSame
  <2>5. HoldIn(row', e, r)
    BY <1>0, <2>2, <2>3, <2>4, RunsAreNat
    DEF HoldIn, Opened, Chosen, Marking, MarkingMerged, WritingBest, Execution, Ended
  <2>6. Move(pull, row, k, e, r) /\ OwnIn(pull', byHuman', e, r)
    BY <1>0, <2>2, <2>3, RunsAreNat
    DEF Move, LeftAlone, OwnIn, Opened, Chosen, Marking, MarkingMerged, Execution
  <2> HIDE DEF e
  <2>7. keeper' = [keeper EXCEPT ![r] = e] BY <2>1 DEF e
  <2> QED BY <2>2, <2>5, <2>6, <2>7 DEF Moved
<1>2. CASE CreatePull(r)
  <2> DEFINE e == [k EXCEPT !.pc = "choose", !.pr = "open"]
  <2>1. /\ keeper' = [keeper EXCEPT ![r] = e] /\ k.pc = "create" /\ pull[r] = "none"
        /\ pull' = [pull EXCEPT ![r] = "open"]
    BY <1>0, <1>2 DEF CreatePull, At
  <2>2. e \in Execution BY <1>0 DEF Execution, Steps, PullStates
  <2>3. k.best = 0 /\ k.intact BY <1>0, <2>1 DEF HoldIn
  <2>5. HoldIn(row', e, r)
    BY <1>0, <2>1, <2>2, <2>3, RunsAreNat
    DEF HoldIn, Opened, Chosen, Marking, MarkingMerged, WritingBest, Execution, Ended
  <2>6. Move(pull, row, k, e, r) /\ OwnIn(pull', byHuman', e, r)
    BY <1>0, <2>1, <2>2, <2>3, RunsAreNat
    DEF Move, LeftAlone, OwnIn, Opened, Chosen, Marking, MarkingMerged, Execution
  <2> HIDE DEF e
  <2> QED BY <2>1, <2>2, <2>5, <2>6 DEF Moved
<1>3. CASE CreateFails(r)
  <2> DEFINE e == [k EXCEPT !.pc = "record", !.status = "blocked", !.intact = FALSE]
  <2>1. keeper' = [keeper EXCEPT ![r] = e] /\ k.pc = "create"
    BY <1>0, <1>3 DEF CreateFails, At
  <2>2. e \in Execution BY <1>0 DEF Execution, Steps, Ended
  <2>3. k.best = 0 /\ k.pr = "none" BY <1>0, <2>1 DEF HoldIn
  <2>5. HoldIn(row', e, r)
    BY <1>0, <2>1, <2>2, <2>3, RunsAreNat
    DEF HoldIn, LeftAlone, Opened, Chosen, Marking, MarkingMerged, WritingBest, Execution, Ended
  <2>6. Move(pull, row, k, e, r) /\ OwnIn(pull', byHuman', e, r)
    BY <1>0, <2>1, <2>2, <2>3, RunsAreNat
    DEF Move, LeftAlone, OwnIn, Opened, Chosen, Marking, MarkingMerged, Execution
  <2> HIDE DEF e
  <2> QED BY <2>1, <2>2, <2>5, <2>6 DEF Moved
<1> QED BY <1>1, <1>2, <1>3

(* The keeper chosen is preferred to every candidate it leaves: times differ. *)
LEMMA ChoiceIsPreferred ==
  ASSUME IInv, Holds, NEW r \in Runs, r \notin Recorded, NEW k, k = keeper[r],
         NEW best \in Choices({CandidateOfRow(c) : c \in OpenRecorded(r)}
                               \cup {CandidateOfSelf(r)})
  PROVE  /\ best = r \/ best \in OpenRecorded(r)
         /\ \A c \in OpenRecorded(r) \ {best} :
              Preferred(IF best = r THEN SelfOf(k, r) ELSE RowOf(row, best), RowOf(row, c))
<1> DEFINE others == OpenRecorded(r)
           candidates == {CandidateOfRow(c) : c \in others} \cup {CandidateOfSelf(r)}
           a == IF best = r THEN SelfOf(k, r) ELSE RowOf(row, best)
<1>1. /\ others \subseteq Runs /\ others \subseteq RecordedIn(row) /\ r \notin others
  BY RecordedOf DEF OpenRecorded, Recorded
<1>2. candidates = {RowOf(row, c) : c \in others} \cup {SelfOf(k, r)}
  BY <1>1, RecordedOf
<1>3. /\ row \in [Runs -> Row] /\ k \in Execution /\ PlacesIn(row)
  BY Before DEF Holds
<1>4. (\A c \in others : RowOf(row, c).run = c) /\ SelfOf(k, r).run = r
  BY DEF RowOf, SelfOf
<1>5. PICK b \in candidates : b.run = best /\ \A d \in candidates : ~Preferred(d, b)
  BY DEF Choices
<1>6. b = a /\ (best = r \/ best \in others) BY <1>1, <1>2, <1>4, <1>5
<1>7. ASSUME NEW c \in others \ {best}
      PROVE  Preferred(a, RowOf(row, c))
  <2>1. c \in Runs /\ RowOf(row, c) \in Candidate /\ RowOf(row, c) \in candidates
    BY <1>1, <1>2, <1>3, CandidatesAre
  <2>2. a \in Candidate BY <1>1, <1>3, <1>6, CandidatesAre
  <2>3. ~Preferred(RowOf(row, c), a) BY <1>5, <1>6, <2>1
  <2>4. RowOf(row, c).time # a.time
    <3>1. row[c].place \in Nat /\ k.place \in Nat
      BY <1>3, <2>1, PullRequestsAssumption DEF Row, Execution
    <3>2. CASE best = r BY <3>1, <3>2 DEF RowOf, SelfOf
    <3>3. CASE best # r
      <4>1. best \in Runs /\ row[best].place \in Nat
        BY <1>1, <1>3, <1>6, <3>3, PullRequestsAssumption DEF Row
      <4>2. row[best].place # row[c].place BY <1>1, <1>3, <1>6, <3>3 DEF PlacesIn
      <4> QED BY <3>1, <3>3, <4>1, <4>2 DEF RowOf
    <3> QED BY <3>2, <3>3
  <2> QED BY <2>1, <2>2, <2>3, <2>4, PreferredOrders
<1> QED BY <1>6, <1>7

LEMMA ChooseMoves ==
  ASSUME IInv, IInv', Holds, Next, RecordedIn(row') = RecordedIn(row), NEW r \in Runs,
         ChooseKeeper(r)
  PROVE  Moved(r)
<1> DEFINE k == keeper[r]
           others == OpenRecorded(r)
           candidates == {CandidateOfRow(c) : c \in others} \cup {CandidateOfSelf(r)}
<1>0. /\ k \in Execution /\ HoldIn(row', k, r) /\ HoldIn(row, k, r)
      /\ keeper \in [Runs -> Execution] /\ OwnIn(pull, byHuman, k, r) /\ KeeperIn(pull, k, r)
      /\ k.pc = "choose" /\ row' = row /\ pull' = pull /\ byHuman' = byHuman
  BY HeldOn DEF ChooseKeeper, At
<1>1. PICK best \in Choices(candidates) :
        keeper' = [keeper EXCEPT ![r] = [k EXCEPT !.pc = "close", !.best = best,
                                                  !.todo = others \ {best}]]
  BY DEF ChooseKeeper
<1>2. /\ k.intact /\ k.pr # "none" /\ k.best = 0 /\ r \notin RecordedIn(row)
      /\ k.status \in Ended
  BY <1>0 DEF HoldIn, Opened
<1>3. /\ best = r \/ best \in others
      /\ \A c \in others \ {best} :
           Preferred(IF best = r THEN SelfOf(k, r) ELSE RowOf(row, best), RowOf(row, c))
  BY <1>1, <1>2, ChoiceIsPreferred, RecordedOf
<1>4. \A c \in others : c \in RecordedIn(row) /\ row[c].pr = "open" /\ Target[c] = Target[r]
  BY RecordedOf DEF OpenRecorded
<1>5. /\ others \subseteq Runs /\ best \in Runs BY <1>3, <1>4 DEF RecordedIn
<1> HIDE DEF others, candidates
<1> DEFINE e == [k EXCEPT !.pc = "close", !.best = best, !.todo = others \ {best}]
<1>6. e \in Execution BY <1>0, <1>5, RunsAreNat DEF Execution, Steps
<1>7. /\ e.pc = "close" /\ e.best = best /\ e.todo = others \ {best} /\ e.pr = k.pr
      /\ e.status = k.status /\ e.place = k.place /\ e.intact = k.intact
  BY <1>0 DEF Execution
<1>8. keeper' = [keeper EXCEPT ![r] = e] BY <1>1
<1> HIDE DEF e
<1>9. k.pr # "closed" BY <1>0 DEF HoldIn
<1>10. HoldIn(row', e, r)
  <2>1. SelfOf(e, r) = SelfOf(k, r) BY <1>7, SameSelf
  <2>2. \A c \in e.todo :
          /\ c \in RecordedIn(row') /\ row'[c].pr # "none"
          /\ c # e.best /\ Target[c] = Target[r]
          /\ e.pc \in Chosen =>
               Preferred(IF e.best = r THEN SelfOf(e, r) ELSE RowOf(row', e.best), RowOf(row', c))
    BY <1>0, <1>3, <1>4, <1>7, <2>1
  <2>3. e.best \in {0, r} \cup RecordedIn(row') /\ Target[e.best] = Target[r] /\ e.best # 0
        /\ (e.best \in RecordedIn(row') => row'[e.best].pr # "none")
    BY <1>0, <1>2, <1>3, <1>4, <1>5, <1>7, RunsAreNat
  <2> QED
    BY <1>0, <1>2, <1>7, <1>9, <2>2, <2>3 DEF HoldIn, Marking, MarkingMerged, WritingBest
<1>11. Move(pull, row, k, e, r)
  BY <1>2, <1>3, <1>4, <1>7, RunsAreNat DEF Move, LeftAlone
<1>12. OwnIn(pull', byHuman', e, r)
  BY <1>0, <1>7 DEF OwnIn, Opened
<1> QED BY <1>6, <1>8, <1>10, <1>11, <1>12 DEF Moved

LEMMA ClosingMoves ==
  ASSUME IInv, IInv', Holds, Next, RecordedIn(row') = RecordedIn(row), NEW r \in Runs,
         \/ CloseOther(r) \/ CloseOtherFails(r) \/ OthersClosed(r)
         \/ CloseOwn(r) \/ CloseOwnFails(r) \/ LabelKeeper(r)
  PROVE  Moved(r)
<1> DEFINE k == keeper[r]
<1>0. /\ k \in Execution /\ HoldIn(row, k, r) /\ keeper \in [Runs -> Execution]
      /\ OwnIn(pull, byHuman, k, r) /\ pull \in [Runs -> PullStates] /\ KeeperIn(pull, k, r)
  BY HeldOn
<1>1. UNCHANGED <<row, byHuman>> /\ k.pc \in {"close", "closeOwn", "label"}
  BY DEF CloseOther, CloseOtherFails, OthersClosed, CloseOwn, CloseOwnFails, LabelKeeper, At
<1>2. /\ k.pc \in Chosen /\ k.pc \in Opened /\ k.pr # "none"
      /\ r \notin RecordedIn(row)
  BY <1>0, <1>1 DEF HoldIn, Chosen, Opened
<1>3. CASE CloseOther(r)
  <2>1. PICK c \in k.todo :
          /\ pull' = AfterClose(c)
          /\ keeper' = [keeper EXCEPT ![r] = [k EXCEPT !.pc = "mark", !.at = c,
                                                    !.todo = k.todo \ {c}]]
    BY <1>3 DEF CloseOther
  <2> DEFINE e == [k EXCEPT !.pc = "mark", !.at = c, !.todo = k.todo \ {c}]
  <2>2. /\ c \in Runs /\ c \in RecordedIn(row) /\ row[c].pr # "none"
    BY <1>0 DEF HoldIn, RecordedIn
  <2>3. e \in Execution BY <1>0, <2>2, RunsAreNat DEF Execution, Steps
  <2>4. /\ e.pc = "mark" /\ e.at = c /\ e.best = k.best /\ e.todo \subseteq k.todo
        /\ e.pr = k.pr /\ e.status = k.status /\ e.place = k.place /\ e.intact = k.intact
    BY <1>0 DEF Execution
  <2>5. keeper' = [keeper EXCEPT ![r] = e] BY <2>1
  <2> HIDE DEF e
  <2>6. pull'[r] = pull[r] BY <1>0, <1>2, <2>1, <2>2 DEF AfterClose
  <2>7. OwnIn(pull', byHuman', e, r) BY <1>0, <1>1, <1>2, <2>4, <2>6 DEF OwnIn
  <2>8. e.best = r => e.pr # "closed" BY <1>0, <2>4 DEF HoldIn
  <2> QED
    BY <1>0, <1>1, <1>2, <2>2, <2>3, <2>4, <2>5, <2>7, <2>8, GoesOn
    DEF Chosen, Marking, MarkingMerged, WritingBest
<1>4. ASSUME NEW to \in {"close", "closeOwn", "label", "merge", "ready", "count", "record"},
             NEW todo \in SUBSET k.todo,
             NEW pr \in {k.pr, "closed"},
             keeper' = [keeper EXCEPT ![r] = [k EXCEPT !.pc = to, !.todo = todo, !.pr = pr]],
             pr = "closed" => k.pc = "closeOwn" \/ k.pr = "closed",
             to \in {"closeOwn", "count", "ready"} => k.best # r,
             \/ pr = "closed"
             \/ pull'[r] = pull[r]
      PROVE  Moved(r)
  <2> DEFINE e == [k EXCEPT !.pc = to, !.todo = todo, !.pr = pr]
  <2>1. e \in Execution BY <1>0 DEF Execution, Steps, PullStates
  <2>2. /\ e.pc = to /\ e.best = k.best /\ e.todo = todo
        /\ e.pr = pr /\ e.status = k.status /\ e.place = k.place /\ e.intact = k.intact
    BY <1>0 DEF Execution
  <2>3. keeper' = [keeper EXCEPT ![r] = e] BY <1>4
  <2> HIDE DEF e
  <2>4. OwnIn(pull', byHuman', e, r) BY <1>0, <1>1, <1>2, <1>4, <2>2 DEF OwnIn
  <2>5. e.best = r => e.pr # "closed" BY <1>0, <1>4, <2>2 DEF HoldIn
  <2> QED
    BY <1>0, <1>1, <1>2, <1>4, <2>1, <2>2, <2>3, <2>4, <2>5, GoesOn
    DEF Chosen, Marking, MarkingMerged, WritingBest
<1>5. \A to, todo :
        [k EXCEPT !.pc = to, !.todo = todo, !.pr = k.pr] = [k EXCEPT !.pc = to, !.todo = todo]
        /\ [k EXCEPT !.pc = to, !.todo = k.todo] = [k EXCEPT !.pc = to]
        /\ [k EXCEPT !.pc = k.pc, !.todo = todo] = [k EXCEPT !.todo = todo]
  BY <1>0 DEF Execution
<1>6. CASE CloseOtherFails(r)
  <2>1. PICK c \in k.todo : keeper' = [keeper EXCEPT ![r] = [k EXCEPT !.todo = @ \ {c}]]
    BY <1>6 DEF CloseOtherFails
  <2> DEFINE todo == k.todo \ {c}
  <2>2. keeper' = [keeper EXCEPT ![r] = [k EXCEPT !.pc = k.pc, !.todo = todo, !.pr = k.pr]]
    BY <1>5, <2>1
  <2>3. k.pc = "close" /\ pull' = pull BY <1>6 DEF CloseOtherFails, At
  <2>4. todo \in SUBSET k.todo OBVIOUS
  <2> HIDE DEF todo
  <2>5. k.pr = "closed" => k.pr = "closed" OBVIOUS
  <2> QED BY <1>4, <2>2, <2>3, <2>4
<1>7. ASSUME NEW to, keeper' = [keeper EXCEPT ![r].pc = to]
      PROVE  keeper' = [keeper EXCEPT ![r] = [k EXCEPT !.pc = to, !.todo = k.todo, !.pr = k.pr]]
  BY <1>0, <1>5, <1>7
<1>8. CASE OthersClosed(r)
  BY <1>4, <1>7, <1>8 DEF OthersClosed, At, Goto
<1>9. CASE CloseOwnFails(r)
  <2> DEFINE to == AfterClosing(r, k.closedAny)
  <2>1. to \in {"count", "label"} /\ (to = "count" => k.best # r) BY DEF AfterClosing
  <2>2. keeper' = [keeper EXCEPT ![r].pc = to] /\ pull' = pull BY <1>9 DEF CloseOwnFails, Goto
  <2> HIDE DEF to
  <2> QED BY <1>4, <1>7, <2>1, <2>2
<1>10. CASE LabelKeeper(r)
  BY <1>4, <1>7, <1>10 DEF LabelKeeper, At, Goto
<1>11. CASE CloseOwn(r)
  <2> DEFINE to == AfterClosing(r, TRUE)
  <2>1. to \in {"count", "label"} /\ (to = "count" => k.best # r) BY DEF AfterClosing
  <2>2. /\ keeper' = [keeper EXCEPT ![r] = [k EXCEPT !.pc = to, !.pr = "closed"]]
        /\ k.pc = "closeOwn"
    BY <1>11 DEF CloseOwn, At
  <2>3. [k EXCEPT !.pc = to, !.pr = "closed"] = [k EXCEPT !.pc = to, !.todo = k.todo, !.pr = "closed"]
    BY <1>0 DEF Execution
  <2> HIDE DEF to
  <2> QED BY <1>4, <2>1, <2>2, <2>3
<1> QED BY <1>3, <1>6, <1>8, <1>9, <1>10, <1>11

LEMMA SummaryMoves ==
  ASSUME IInv, IInv', Holds, Next, RecordedIn(row') = RecordedIn(row), NEW r \in Runs,
         \/ MarkSupersededRun(r) \/ PromoteKeeper(r) \/ MarkKeeperMergedRun(r)
         \/ MergeSkipped(r) \/ MarkFails(r) \/ MarkMergedFails(r)
  PROVE  Moved(r)
<1> DEFINE k == keeper[r]
           best == k.best
           read == k.read
<1>0. /\ k \in Execution /\ HoldIn(row, k, r) /\ HoldIn(row', k, r)
      /\ keeper \in [Runs -> Execution]
      /\ OwnIn(pull, byHuman, k, r) /\ row \in [Runs -> Row] /\ row' \in [Runs -> Row]
  BY HeldOn DEF IInv, TypeOK
<1>1. UNCHANGED <<pull, byHuman>> /\ k.pc \in Chosen
  BY DEF MarkSupersededRun, PromoteKeeper, MarkKeeperMergedRun, MergeSkipped, MarkFails,
     MarkMergedFails, ReadSummaryOf, WriteSummaryOf, At, Chosen, Marking, MarkingMerged
<1>2. k.pc \in Opened /\ k.pr # "none" BY <1>0, <1>1 DEF HoldIn, Opened
<1>3. /\ \A c \in Runs : row[c].summary \in Summary
      /\ NoSummary \in Summary /\ 0 \in 0..NumRuns
  BY <1>0, NothingRead DEF Row
<1>4. ASSUME NEW e \in Execution, keeper' = [keeper EXCEPT ![r] = e],
             e.pc \in Chosen \cup {"record"}, e.best = best, e.todo = k.todo, e.pr = k.pr,
             e.status = k.status, e.place = k.place, e.intact = k.intact,
             e.pc \in Marking => e.at = k.at /\ k.pc \in Marking,
             e.pc = "markWrite" => e.read.intact = row'[e.at].summary.intact,
             e.pc \in WritingBest => e.read.intact = row'[best].summary.intact,
             e.pc \in {"closeOwn", "count", "countWrite", "ready", "readyWrite"}
                        \cup MarkingMerged => best # r
      PROVE  Moved(r)
  <2>1. OwnIn(pull', byHuman', e, r) BY <1>0, <1>1, <1>2, <1>4 DEF OwnIn
  <2>2. e.best = r => e.pr # "closed" BY <1>0, <1>4 DEF HoldIn
  <2>3. e.pc \in Marking => e.at \in RecordedIn(row') /\ row'[e.at].pr # "none"
    BY <1>0, <1>4 DEF HoldIn
  <2> QED BY <1>1, <1>2, <1>4, <2>1, <2>2, <2>3, GoesOn
<1>5. CASE MarkSupersededRun(r)
  <2>1. CASE ReadSummaryOf(r, k.at, "mark", "markWrite")
    <3> DEFINE e == [k EXCEPT !.pc = "markWrite", !.read = row[k.at].summary]
    <3>1. /\ keeper' = [keeper EXCEPT ![r] = e] /\ row' = row /\ k.pc = "mark"
      BY <2>1 DEF ReadSummaryOf, At
    <3>2. k.at \in Runs BY <1>0, <3>1 DEF HoldIn, Marking, RecordedIn
    <3>3. e \in Execution BY <1>0, <1>3, <3>2 DEF Execution, Steps
    <3>4. /\ e.pc = "markWrite" /\ e.best = best /\ e.todo = k.todo /\ e.pr = k.pr
          /\ e.status = k.status /\ e.place = k.place /\ e.intact = k.intact
          /\ e.at = k.at /\ e.read = row[k.at].summary
      BY <1>0 DEF Execution
    <3> HIDE DEF e
    <3> QED
      BY <1>4, <3>1, <3>3, <3>4 DEF Chosen, Marking, MarkingMerged, WritingBest
  <2>2. CASE WriteSummaryOf(r, k.at, [read EXCEPT !.pr = "closed", !.chosen = FALSE],
                            "markWrite", "markRow")
    <3> DEFINE e == [k EXCEPT !.pc = "markRow", !.read = NoSummary]
    <3>1. /\ keeper' = [keeper EXCEPT ![r] = e] /\ k.pc = "markWrite"
      BY <2>2 DEF WriteSummaryOf, At
    <3>2. e \in Execution BY <1>0, <1>3 DEF Execution, Steps
    <3>3. /\ e.pc = "markRow" /\ e.best = best /\ e.todo = k.todo /\ e.pr = k.pr
          /\ e.status = k.status /\ e.place = k.place /\ e.intact = k.intact /\ e.at = k.at
      BY <1>0 DEF Execution
    <3> HIDE DEF e
    <3> QED
      BY <1>4, <3>1, <3>2, <3>3 DEF Chosen, Marking, MarkingMerged, WritingBest
  <2>3. CASE /\ At(r, "markRow")
             /\ keeper' = [keeper EXCEPT ![r] = [k EXCEPT !.pc = "close", !.at = 0,
                                                        !.closedAny = TRUE]]
    <3> DEFINE e == [k EXCEPT !.pc = "close", !.at = 0, !.closedAny = TRUE]
    <3>1. keeper' = [keeper EXCEPT ![r] = e] BY <2>3
    <3>2. e \in Execution BY <1>0, <1>3 DEF Execution, Steps
    <3>3. /\ e.pc = "close" /\ e.best = best /\ e.todo = k.todo /\ e.pr = k.pr
          /\ e.status = k.status /\ e.place = k.place /\ e.intact = k.intact
      BY <1>0 DEF Execution
    <3> HIDE DEF e
    <3> QED
      BY <1>4, <3>1, <3>2, <3>3 DEF Chosen, Marking, MarkingMerged, WritingBest
  <2> QED BY <1>5, <2>1, <2>2, <2>3 DEF MarkSupersededRun
<1>6. CASE MarkFails(r)
  <2> DEFINE e == [k EXCEPT !.pc = "close", !.at = 0, !.read = NoSummary]
  <2>1. keeper' = [keeper EXCEPT ![r] = e] BY <1>6 DEF MarkFails
  <2>2. e \in Execution BY <1>0, <1>3 DEF Execution, Steps
  <2>3. /\ e.pc = "close" /\ e.best = best /\ e.todo = k.todo /\ e.pr = k.pr
        /\ e.status = k.status /\ e.place = k.place /\ e.intact = k.intact
    BY <1>0 DEF Execution
  <2> HIDE DEF e
  <2> QED BY <1>4, <2>1, <2>2, <2>3 DEF Chosen, Marking, MarkingMerged, WritingBest
<1>7. ASSUME NEW from, NEW to, ReadSummaryOf(r, best, from, to), best \in Runs,
             \/ from = "count" /\ to = "countWrite"
             \/ from = "ready" /\ to = "readyWrite"
             \/ from = "merged" /\ to = "mergedWrite"
      PROVE  Moved(r)
  <2> DEFINE e == [k EXCEPT !.pc = to, !.read = row[best].summary]
  <2>1. /\ keeper' = [keeper EXCEPT ![r] = e] /\ row' = row /\ k.pc = from
    BY <1>7 DEF ReadSummaryOf, At
  <2>2. e \in Execution BY <1>0, <1>3, <1>7 DEF Execution, Steps
  <2>3. /\ e.pc = to /\ e.best = best /\ e.todo = k.todo /\ e.pr = k.pr
        /\ e.status = k.status /\ e.place = k.place /\ e.intact = k.intact
        /\ e.read = row[best].summary
    BY <1>0 DEF Execution
  <2>4. best # r BY <1>0, <1>7, <2>1 DEF HoldIn, MarkingMerged
  <2> HIDE DEF e
  <2> QED BY <1>4, <1>7, <2>1, <2>2, <2>3, <2>4 DEF Chosen, Marking, MarkingMerged, WritingBest
<1>8. ASSUME NEW from, NEW to, NEW s, WriteSummaryOf(r, best, s, from, to),
             \/ from = "countWrite" /\ to = "label"
             \/ from = "readyWrite" /\ to = "merge"
             \/ from = "mergedWrite" /\ to = "mergedRow"
      PROVE  Moved(r)
  <2> DEFINE e == [k EXCEPT !.pc = to, !.read = NoSummary]
  <2>1. /\ keeper' = [keeper EXCEPT ![r] = e] /\ k.pc = from
    BY <1>8 DEF WriteSummaryOf, At
  <2>2. e \in Execution BY <1>0, <1>3, <1>8 DEF Execution, Steps
  <2>3. /\ e.pc = to /\ e.best = best /\ e.todo = k.todo /\ e.pr = k.pr
        /\ e.status = k.status /\ e.place = k.place /\ e.intact = k.intact
    BY <1>0 DEF Execution
  <2>4. best # r BY <1>0, <1>8, <2>1 DEF HoldIn, MarkingMerged
  <2> HIDE DEF e
  <2> QED BY <1>4, <1>8, <2>1, <2>2, <2>3, <2>4 DEF Chosen, Marking, MarkingMerged, WritingBest
<1>9. best \in Runs BY <1>1, HeldOn DEF KeeperIn
<1>10. CASE PromoteKeeper(r) BY <1>7, <1>8, <1>9, <1>10 DEF PromoteKeeper
<1>11. ASSUME keeper' = [keeper EXCEPT ![r].pc = "record"]
       PROVE  Moved(r)
  <2> DEFINE e == [k EXCEPT !.pc = "record"]
  <2>1. keeper' = [keeper EXCEPT ![r] = e] BY <1>0, <1>11
  <2>2. e \in Execution BY <1>0 DEF Execution, Steps
  <2>3. /\ e.pc = "record" /\ e.best = best /\ e.todo = k.todo /\ e.pr = k.pr
        /\ e.status = k.status /\ e.place = k.place /\ e.intact = k.intact
    BY <1>0 DEF Execution
  <2> HIDE DEF e
  <2> QED BY <1>4, <2>1, <2>2, <2>3 DEF Chosen, Marking, MarkingMerged, WritingBest
<1>12. CASE MergeSkipped(r) BY <1>11, <1>12 DEF MergeSkipped, Goto
<1>13. CASE MarkKeeperMergedRun(r)
  BY <1>7, <1>8, <1>9, <1>11, <1>13 DEF MarkKeeperMergedRun, Goto
<1>14. CASE MarkMergedFails(r)
  <2> DEFINE e == [k EXCEPT !.pc = "record", !.read = NoSummary]
  <2>1. keeper' = [keeper EXCEPT ![r] = e] BY <1>14 DEF MarkMergedFails
  <2>2. e \in Execution BY <1>0, <1>3 DEF Execution, Steps
  <2>3. /\ e.pc = "record" /\ e.best = best /\ e.todo = k.todo /\ e.pr = k.pr
        /\ e.status = k.status /\ e.place = k.place /\ e.intact = k.intact
    BY <1>0 DEF Execution
  <2> HIDE DEF e
  <2> QED BY <1>4, <2>1, <2>2, <2>3 DEF Chosen, Marking, MarkingMerged, WritingBest
<1> QED BY <1>5, <1>6, <1>10, <1>12, <1>13, <1>14

LEMMA MergeMoves ==
  ASSUME IInv, IInv', Holds, Next, RecordedIn(row') = RecordedIn(row), NEW r \in Runs,
         MergeKeeper(r)
  PROVE  Moved(r)
<1> DEFINE k == keeper[r]
<1>0. /\ k \in Execution /\ HoldIn(row, k, r) /\ keeper \in [Runs -> Execution]
      /\ OwnIn(pull, byHuman, k, r) /\ pull \in [Runs -> PullStates] /\ KeeperIn(pull, k, r)
      /\ k.pc = "merge" /\ byHuman' = byHuman /\ row' = row
  BY HeldOn DEF MergeKeeper, At
<1>1. /\ k.pc \in Chosen /\ k.pc \in Opened /\ k.pr # "none" /\ k.best \in Runs
  BY <1>0 DEF HoldIn, KeeperIn, Chosen, Opened
<1>2. pull'[r] = "closed" => pull[r] = "closed"
  BY <1>0, <1>1 DEF MergeKeeper
<1>3. CASE k.best = r
  <2> DEFINE e == [k EXCEPT !.pc = "record", !.pr = "merged"]
  <2>1. keeper' = [keeper EXCEPT ![r] = e] BY <1>0, <1>3 DEF MergeKeeper
  <2>2. e \in Execution BY <1>0 DEF Execution, Steps, PullStates
  <2>3. /\ e.pc = "record" /\ e.best = k.best /\ e.todo = k.todo /\ e.pr = "merged"
        /\ e.status = k.status /\ e.place = k.place /\ e.intact = k.intact
    BY <1>0 DEF Execution
  <2> HIDE DEF e
  <2>4. pull'[r] = "merged" BY <1>0, <1>3 DEF MergeKeeper
  <2>5. OwnIn(pull', byHuman', e, r) BY <2>4 DEF OwnIn
  <2> QED
    BY <1>1, <2>1, <2>2, <2>3, <2>5, GoesOn DEF Chosen, Marking, MarkingMerged, WritingBest
<1>4. CASE k.best # r
  <2> DEFINE e == [k EXCEPT !.pc = "merged"]
  <2>1. keeper' = [keeper EXCEPT ![r] = e] BY <1>0, <1>4 DEF MergeKeeper, Goto
  <2>2. e \in Execution BY <1>0 DEF Execution, Steps
  <2>3. /\ e.pc = "merged" /\ e.best = k.best /\ e.todo = k.todo /\ e.pr = k.pr
        /\ e.status = k.status /\ e.place = k.place /\ e.intact = k.intact
    BY <1>0 DEF Execution
  <2> HIDE DEF e
  <2>4. OwnIn(pull', byHuman', e, r) BY <1>0, <1>1, <1>2, <2>3 DEF OwnIn
  <2> QED
    BY <1>1, <1>4, <2>1, <2>2, <2>3, <2>4, GoesOn DEF Chosen, Marking, MarkingMerged, WritingBest
<1> QED BY <1>3, <1>4

(* An execution that is lost or ends holds nothing any more.  *)
LEMMA LostHolds ==
  ASSUME NEW w, NEW r \in Runs, IsFiniteSet(RecordedIn(w)), NEW p, NEW h
  PROVE  /\ r \notin RecordedIn(w) => HoldIn(w, NotStarted, r)
         /\ r \in RecordedIn(w) => HoldIn(w, [NotStarted EXCEPT !.pc = "done"], r)
         /\ OwnIn(p, h, NotStarted, r) /\ OwnIn(p, h, [NotStarted EXCEPT !.pc = "done"], r)
         /\ \A q, v, k : /\ Move(q, v, k, NotStarted, r)
                         /\ Move(q, v, k, [NotStarted EXCEPT !.pc = "done"], r)
<1>1. Cardinality(RecordedIn(w)) \in Nat BY FS_CardinalityType
<1>2. 0 \notin RecordedIn(w) BY RunsAreNat DEF RecordedIn
<1>3. r # 0 BY RunsAreNat
<1> QED
  BY <1>1, <1>2, <1>3
  DEF HoldIn, OwnIn, Move, LeftAlone, NotStarted, Opened, Chosen, Marking, MarkingMerged,
      WritingBest

LEMMA DisturbMoves ==
  ASSUME IInv, IInv', Holds, Next, RecordedIn(row') = RecordedIn(row), NEW r \in Runs,
         Throw(r) \/ Crash(r) \/ HumanSettles(r)
  PROVE  Moved(r)
<1> DEFINE k == keeper[r]
<1>0. /\ k \in Execution /\ HoldIn(row, k, r) /\ keeper \in [Runs -> Execution]
      /\ OwnIn(pull, byHuman, k, r) /\ pull \in [Runs -> PullStates] /\ row' = row
  BY HeldOn DEF Throw, Crash, HumanSettles
<1>1. CASE Throw(r)
  <2> DEFINE e == [k EXCEPT !.pc = "record", !.status = "failed", !.intact = FALSE,
                            !.best = 0, !.read = NoSummary]
  <2>1. /\ keeper' = [keeper EXCEPT ![r] = e] /\ k.pc \notin {"waiting", "done"}
    BY <1>1 DEF Throw
  <2>2. e \in Execution BY <1>0, NothingRead DEF Execution, Steps, Ended
  <2>3. /\ e.pc = "record" /\ e.best = 0 /\ e.todo = k.todo /\ e.pr = k.pr
        /\ e.status = "failed" /\ e.place = k.place /\ e.intact = FALSE
    BY <1>0 DEF Execution
  <2> HIDE DEF e
  <2>4. OwnIn(pull', byHuman', e, r) BY <2>3 DEF OwnIn, Opened, Chosen, Marking, MarkingMerged
  <2>5. Move(pull, row, k, e, r) BY <2>3 DEF Move, LeftAlone
  <2>6. 0 \notin RecordedIn(row') /\ r # 0 BY RunsAreNat DEF RecordedIn
  <2>7. \A c \in e.todo : c \in RecordedIn(row) /\ row[c].pr # "none" /\ Target[c] = Target[r]
                         /\ c # 0
    BY <1>0, <2>3, RunsAreNat DEF HoldIn, RecordedIn
  <2>8. HoldIn(row', e, r)
    BY <1>0, <2>1, <2>3, <2>6, <2>7
    DEF HoldIn, LeftAlone, Ended, Opened, Chosen, Marking, MarkingMerged, WritingBest
  <2> QED BY <2>1, <2>2, <2>4, <2>5, <2>8 DEF Moved
<1>2. CASE Crash(r)
  <2>1. keeper' = [keeper EXCEPT ![r] = NotStarted] /\ k.pc # "done"
    BY <1>2 DEF Crash, Executing, At
  <2>2. r \notin RecordedIn(row') BY <1>0, <2>1 DEF HoldIn
  <2>3. IsFiniteSet(RecordedIn(row'))
    BY RecordedFinite
  <2>4. /\ HoldIn(row', NotStarted, r) /\ OwnIn(pull', byHuman', NotStarted, r)
        /\ Move(pull, row, k, NotStarted, r)
    BY <2>2, <2>3, LostHolds
  <2>5. NotStarted \in Execution BY NotStartedHoldsNothing
  <2> QED BY <2>1, <2>4, <2>5 DEF Moved
<1>3. CASE HumanSettles(r)
  <2>1. keeper' = [keeper EXCEPT ![r] = k] BY <1>0, <1>3 DEF HumanSettles
  <2>2. byHuman' = byHuman \cup {r} BY <1>3 DEF HumanSettles
  <2>3. OwnIn(pull', byHuman', k, r) BY <2>2 DEF OwnIn
  <2>4. Move(pull, row, k, k, r) BY DEF Move
  <2> QED BY <1>0, <2>1, <2>3, <2>4 DEF Moved
<1> QED BY <1>1, <1>2, <1>3

LEMMA RecordMoves ==
  ASSUME IInv, IInv', Holds, Next, NEW r \in Runs, Record(r)
  PROVE  /\ Moved(r) /\ RecordedIn(row') = RecordedIn(row) \cup {r} /\ r \notin RecordedIn(row)
         /\ keeper' = [keeper EXCEPT ![r] = [NotStarted EXCEPT !.pc = "done"]]
<1>1. keeper[r].pc = "record" /\ HoldIn(row, keeper[r], r) BY Before DEF Record, At
<1>2. r \notin RecordedIn(row) BY <1>1 DEF HoldIn
<1>3. row \in [Runs -> Row] BY Before
<1>4. keeper[r].status \in Ended BY <1>1 DEF HoldIn
<1>5. PICK w : row' = [row EXCEPT ![r] = w] /\ w.status \in Ended
  <2>1. PICK s \in {keeper[r].status, "cancelled"} :
          row' = [row EXCEPT ![r] = [status |-> s, pr |-> keeper[r].pr,
                    place |-> Cardinality(Recorded),
                    summary |-> IF keeper[r].intact
                      THEN [pr |-> keeper[r].pr, chosen |-> keeper[r].best = r,
                            keeperMerged |-> keeper[r].pr = "merged", intact |-> TRUE]
                      ELSE NoSummary]]
    BY DEF Record
  <2> DEFINE w == [status |-> s, pr |-> keeper[r].pr, place |-> Cardinality(Recorded),
                   summary |-> IF keeper[r].intact
                      THEN [pr |-> keeper[r].pr, chosen |-> keeper[r].best = r,
                            keeperMerged |-> keeper[r].pr = "merged", intact |-> TRUE]
                      ELSE NoSummary]
  <2>2. w.status \in Ended BY <1>4 DEF Ended
  <2>3. row' = [row EXCEPT ![r] = w] BY <2>1
  <2> HIDE DEF w
  <2> QED BY <2>2, <2>3
<1>6. RecordedIn(row') = RecordedIn(row) \cup {r} BY <1>3, <1>5 DEF RecordedIn
<1>7. keeper' = [keeper EXCEPT ![r] = [NotStarted EXCEPT !.pc = "done"]] BY DEF Record
<1>8. IsFiniteSet(RecordedIn(row'))
  BY RecordedFinite
<1> DEFINE e == [NotStarted EXCEPT !.pc = "done"]
<1>9. /\ HoldIn(row', e, r) /\ OwnIn(pull', byHuman', e, r)
      /\ Move(pull, row, keeper[r], e, r)
  BY <1>6, <1>8, LostHolds
<1>10. e \in Execution BY NotStartedHoldsNothing
<1> HIDE DEF e
<1>11. keeper' = [keeper EXCEPT ![r] = e] BY <1>7 DEF e
<1>12. Moved(r) BY <1>9, <1>10, <1>11 DEF Moved
<1> QED BY <1>2, <1>6, <1>7, <1>12

(* Every step is the poller's or that of one run, whose execution alone it    *)
(* changes; another run's pull request is closed by people, or once that run  *)
(* is recorded.                                                               *)
LEMMA OneMoves ==
  ASSUME IInv, IInv', Holds, Next, ~(Poll \/ PollFails)
  PROVE  \E r \in Runs :
           /\ Moved(r) /\ poller' = poller
           /\ RecordedIn(row') \subseteq RecordedIn(row) \cup {r}
           /\ RecordedIn(row') = RecordedIn(row) \/ Record(r)
           /\ byHuman \subseteq byHuman'
           /\ \A c \in Runs \ {r} :
                pull'[c] = "closed" => \/ pull[c] = "closed"
                                       \/ c \in byHuman' \/ c \in RecordedIn(row)
<1>1. PICK r \in Runs : Execute(r) \/ Disturb(r) BY DEF Next
<1>2. poller' = poller /\ byHuman \subseteq byHuman'
  BY <1>1
  DEF Execute, Disturb, EndWorkflow, CreatePull, CreateFails, ChooseKeeper, CloseOther,
      CloseOtherFails, MarkSupersededRun, OthersClosed, CloseOwn, CloseOwnFails, PromoteKeeper,
      LabelKeeper, MergeKeeper, MergeSkipped, MarkKeeperMergedRun, Record, ReadSummaryOf,
      WriteSummaryOf, MarkFails, MarkMergedFails, Throw, Crash, HumanSettles
<1>3. /\ keeper[r] \in Execution /\ HoldIn(row, keeper[r], r) /\ pull \in [Runs -> PullStates]
      /\ KeeperIn(pull, keeper[r], r)
  BY Before DEF TypeOK
<1>4. \A c \in Runs \ {r} :
        pull'[c] = "closed" => \/ pull[c] = "closed"
                               \/ c \in byHuman' \/ c \in RecordedIn(row)
  <2>1. CASE CloseOther(r)
    <3>1. \A c \in keeper[r].todo : c \in RecordedIn(row) BY <1>3 DEF HoldIn
    <3> QED BY <1>3, <2>1, <3>1 DEF CloseOther, AfterClose
  <2>2. CASE CloseOwn(r) \/ HumanSettles(r) \/ CreatePull(r)
    BY <1>3, <2>2 DEF CloseOwn, AfterClose, HumanSettles, CreatePull
  <2>3. CASE MergeKeeper(r) BY <1>3, <2>3 DEF MergeKeeper
  <2>4. CASE pull' = pull BY <2>4
  <2> QED
    BY <1>1, <2>1, <2>2, <2>3, <2>4
    DEF Execute, Disturb, EndWorkflow, CreateFails, ChooseKeeper,
        CloseOtherFails, MarkSupersededRun, OthersClosed, CloseOwnFails, PromoteKeeper,
        LabelKeeper, MergeSkipped, MarkKeeperMergedRun, Record, ReadSummaryOf,
        WriteSummaryOf, MarkFails, MarkMergedFails, Throw, Crash
<1>5. CASE Record(r)
  BY <1>2, <1>4, <1>5, RecordMoves
<1>6. CASE ~Record(r)
  <2>1. ASSUME NEW c \in Runs, Record(c), c # r PROVE FALSE
    <3>1. /\ row[c].status = "running" /\ row \in [Runs -> Row]
      <4>1. c \notin RecordedIn(row) BY <2>1, RecordMoves
      <4>2. row[c] \in Row BY Before
      <4> QED BY <4>1, <4>2, Before DEF RecordedIn, Row
    <3>2. c \in RecordedIn(row') BY <2>1, RecordMoves
    <3>3. keeper' = [keeper EXCEPT ![c] = [NotStarted EXCEPT !.pc = "done"]] BY <2>1 DEF Record
    <3>4. row'[c] = row[c] \/ MarkSupersededRun(r) \/ PromoteKeeper(r) \/ MarkKeeperMergedRun(r)
      BY <1>1, <1>6
      DEF Execute, Disturb, EndWorkflow, CreatePull, CreateFails, ChooseKeeper, CloseOther,
          CloseOtherFails, OthersClosed, CloseOwn, CloseOwnFails,
          LabelKeeper, MergeKeeper, MergeSkipped, MarkFails, MarkMergedFails, Throw, Crash,
          HumanSettles
    <3>5. row'[c].status = row[c].status
      BY <3>1, <3>4 DEF MarkSupersededRun, PromoteKeeper, MarkKeeperMergedRun, WriteSummaryOf,
         ReadSummaryOf, Row
    <3> QED BY <3>1, <3>2, <3>5 DEF RecordedIn, Ended
  <2>2. RecordedIn(row') = RecordedIn(row) BY <1>6, <2>1, RowsKept
  <2>3. Moved(r)
    BY <1>1, <1>6, <2>2, OpeningMoves, ChooseMoves, ClosingMoves, SummaryMoves, MergeMoves,
       DisturbMoves
    DEF Execute, Disturb
  <2> QED BY <1>2, <1>4, <2>2, <2>3
<1> QED BY <1>5, <1>6

LEMMA PollHolds ==
  ASSUME IInv, IInv', Holds, Next, Poll \/ PollFails
  PROVE  /\ PolledIn(row', poller') /\ UNCHANGED <<pull, byHuman, keeper>>
         /\ RecordedIn(row') = RecordedIn(row)
         /\ \A x \in Runs : pull[x] = "closed" /\ row'[x].pr = "open" =>
              row[x].pr = "open" \/ (poller.at = x /\ poller.answer = "open")
         /\ \A x \in Runs : pull[x] = "closed" /\ poller'.at = x /\ poller'.answer = "open" =>
              poller.at = x /\ poller.answer = "open"
<1>1. UNCHANGED <<pull, byHuman, keeper>>
  BY DEF Poll, PollBegins, PollAsks, PollWrites, PollFails
<1>2. /\ poller \in [batch : SUBSET Runs, at : 0..NumRuns, answer : PullStates]
      /\ PolledIn(row, poller) /\ row \in [Runs -> Row] /\ Kept(row, row')
  BY RowsKept DEF IInv, TypeOK, Holds
<1>3. CASE PollBegins
  <2>1. poller' = [poller EXCEPT !.batch = Batch] /\ poller = Idle /\ row' = row
    BY <1>3 DEF PollBegins
  <2>2. poller'.batch \subseteq OpenRows /\ poller'.at = 0 BY <1>2, <2>1 DEF Idle, Batch
  <2>3. \A c \in OpenRows : c \in RecordedIn(row) /\ row[c].pr # "none"
    BY RecordedOf DEF OpenRows
  <2>4. PolledIn(row', poller') BY <2>1, <2>2, <2>3 DEF PolledIn
  <2> QED BY <1>1, <2>1, <2>2, <2>4, RunsAreNat
<1>4. CASE PollAsks
  <2>1. PICK r \in Runs : /\ r \in poller.batch
                          /\ poller' = [batch |-> poller.batch \ {r}, at |-> r, answer |-> pull[r]]
    BY <1>4 DEF PollAsks, NextInBatch
  <2>2. row' = row BY <1>4 DEF PollAsks
  <2>3. r \in RecordedIn(row) /\ row[r].pr # "none" BY <1>2, <2>1 DEF PolledIn
  <2>4. pull[r] # "none"
    <3>1. RowIn(pull, row[r], r) BY DEF IInv, AllIn
    <3>2. row[r].pr \in PullStates BY <1>2 DEF Row
    <3> QED BY <2>3, <3>1, <3>2 DEF RowIn, SeenIn, PullStates
  <2>5. PolledIn(row', poller') BY <1>2, <2>1, <2>2, <2>3, <2>4 DEF PolledIn
  <2> QED BY <1>1, <2>1, <2>2, <2>5
<1>5. CASE PollWrites
  <2>1. /\ poller' = [poller EXCEPT !.at = 0, !.answer = "none"] /\ poller.at # 0
    BY <1>5 DEF PollWrites
  <2>2. poller'.at = 0 /\ poller'.batch = poller.batch BY <1>2, <2>1
  <2>3. PolledIn(row', poller') BY <1>2, <2>2 DEF PolledIn, Kept
  <2>4. \A x \in Runs : row'[x].pr = "open" =>
          row[x].pr = "open" \/ (poller.at = x /\ poller.answer = "open")
    BY <1>2, <1>5 DEF PollWrites, Row
  <2>5. ~ \E r \in Runs : Record(r)
    <3>1. ASSUME NEW r \in Runs, Record(r) PROVE FALSE
      <4>1. poller' = poller BY <3>1 DEF Record
      <4> QED BY <2>1, <2>2, <4>1
    <3> QED BY <3>1
  <2> QED BY <1>1, <2>2, <2>3, <2>4, <2>5, RowsKept, RunsAreNat
<1>6. CASE PollFails
  <2>1. /\ row' = row
        /\ \/ poller' = [poller EXCEPT !.at = 0, !.answer = "none"]
           \/ \E r \in Runs : poller' = [poller EXCEPT !.batch = @ \ {r}]
    BY <1>6 DEF PollFails
  <2>2. /\ poller'.batch \subseteq poller.batch
        /\ poller'.at = 0 \/ (poller'.at = poller.at /\ poller'.answer = poller.answer)
    BY <1>2, <2>1
  <2>3. PolledIn(row', poller') BY <1>2, <2>1, <2>2 DEF PolledIn
  <2> QED BY <1>1, <2>1, <2>2, <2>3, RunsAreNat
<1> QED BY <1>3, <1>4, <1>5, <1>6 DEF Poll

LEMMA PlacesStay ==
  ASSUME IInv, IInv', Holds, Next
  PROVE  PlacesIn(row')
<1>1. row \in [Runs -> Row] /\ PlacesIn(row) /\ Kept(row, row') BY RowsKept DEF IInv, TypeOK, Holds
<1>2. CASE RecordedIn(row') = RecordedIn(row)
  BY <1>1, <1>2 DEF PlacesIn, Kept
<1>3. ASSUME NEW r \in Runs, Record(r) PROVE PlacesIn(row')
  <2>1. RecordedIn(row') = RecordedIn(row) \cup {r} /\ r \notin RecordedIn(row)
    BY <1>3, RecordMoves
  <2>2. row'[r].place = Cardinality(RecordedIn(row)) BY <1>1, <1>3, RecordedOf DEF Record
  <2>3. /\ Cardinality(RecordedIn(row)) \in Nat
        /\ Cardinality(RecordedIn(row')) = Cardinality(RecordedIn(row)) + 1
    BY <2>1, RecordedFinite, FS_CardinalityType, FS_AddElement
  <2>4. \A c \in RecordedIn(row) : row'[c].place = row[c].place /\ row[c].place \in Nat
    BY <1>1, PullRequestsAssumption DEF Kept, RecordedIn, Row
  <2> QED BY <1>1, <2>1, <2>2, <2>3, <2>4 DEF PlacesIn
<1> QED BY <1>2, <1>3, RowsKept

LEMMA HoldsStay ==
  ASSUME IInv, IInv', Holds, Next
  PROVE  Holds'
<1>1. row \in [Runs -> Row] /\ row' \in [Runs -> Row] /\ Kept(row, row')
  BY RowsKept DEF IInv, TypeOK
<1>2. CASE Poll \/ PollFails
  <2>1. ASSUME NEW r \in Runs PROVE HoldIn(row', keeper[r], r)
    BY <1>2, HeldOn, PollHolds
  <2> QED BY <1>2, <2>1, PollHolds, PlacesStay DEF Holds
<1>3. CASE ~(Poll \/ PollFails)
  <2>1. PICK r \in Runs :
           /\ Moved(r) /\ poller' = poller
           /\ RecordedIn(row') \subseteq RecordedIn(row) \cup {r}
           /\ byHuman \subseteq byHuman'
           /\ \A c \in Runs \ {r} :
                pull'[c] = "closed" => \/ pull[c] = "closed"
                                       \/ c \in byHuman' \/ c \in RecordedIn(row)
    BY <1>3, OneMoves
  <2>2. PICK e \in Execution :
          /\ keeper' = [keeper EXCEPT ![r] = e]
          /\ HoldIn(row', e, r) /\ OwnIn(pull', byHuman', e, r)
    BY <2>1 DEF Moved
  <2>3. ASSUME NEW c \in Runs PROVE HoldIn(row', keeper'[c], c) /\ OwnIn(pull', byHuman', keeper'[c], c)
    <3>1. /\ keeper[c] \in Execution /\ HoldIn(row, keeper[c], c)
          /\ OwnIn(pull, byHuman, keeper[c], c) /\ keeper \in [Runs -> Execution]
      BY Before
    <3>2. CASE c = r BY <2>2, <3>1, <3>2
    <3>3. CASE c # r
      <4>1. keeper'[c] = keeper[c] BY <2>2, <3>1, <3>3
      <4>2. HoldIn(row', keeper[c], c)
        BY <1>1, <2>1, <3>1, <3>3, HoldStays
      <4>3. OwnIn(pull', byHuman', keeper[c], c)
        <5>1. c \in RecordedIn(row) => keeper[c].pc = "done" BY <3>1 DEF HoldIn
        <5> QED
          BY <2>1, <3>1, <3>3, <5>1 DEF OwnIn, Opened, Chosen, Marking, MarkingMerged
      <4> QED BY <4>1, <4>2, <4>3
    <3> QED BY <3>2, <3>3
  <2>4. PolledIn(row', poller') BY <1>1, <2>1 DEF Holds, PolledIn, Kept
  <2> QED BY <2>3, <2>4, PlacesStay DEF Holds
<1> QED BY <1>2, <1>3

-----------------------------------------------------------------------------
(* What a step does to those who stand for others.  *)
LEMMA AllMove ==
  ASSUME IInv, IInv', Holds, Next, NEW y \in Runs
  PROVE  Move(pull, row, keeper[y], keeper'[y], y)
<1>1. Move(pull, row, keeper[y], keeper[y], y) BY DEF Move
<1>2. CASE Poll \/ PollFails BY <1>1, <1>2, PollHolds
<1>3. CASE ~(Poll \/ PollFails)
  <2>1. PICK r \in Runs : Moved(r) BY <1>3, OneMoves
  <2>2. PICK e \in Execution : keeper' = [keeper EXCEPT ![r] = e] /\ Move(pull, row, keeper[r], e, r)
    BY <2>1 DEF Moved
  <2> QED BY <1>1, <2>2, Before
<1> QED BY <1>2, <1>3

LEMMA QuietBack ==
  ASSUME IInv, IInv', Holds, Next, NEW t, Quiet(t)'
  PROVE  Quiet(t)
<1>1. Kept(row, row') BY RowsKept
<1>2. byHuman \subseteq byHuman' BY OneMoves, PollHolds
<1>3. \A c \in Runs : pull[c] # "none" => pull'[c] # "none" BY Frame DEF Advance
<1> QED BY <1>1, <1>2, <1>3, RecordedOf DEF Quiet, Kept

(* Nobody but the poller writes that the pull request of a recorded run is open. *)
LEMMA OpenBack ==
  ASSUME IInv, IInv', Holds, Next, ~(Poll \/ PollFails), NEW x \in RecordedIn(row),
         row'[x].pr = "open"
  PROVE  row[x].pr = "open"
<1>1. PICK r \in Runs : Execute(r) \/ Disturb(r) BY DEF Next
<1>2. row \in [Runs -> Row] /\ x \in Runs BY Before DEF RecordedIn
<1>3. CASE Record(r)
  <2>1. x # r BY <1>3, RecordMoves
  <2> QED BY <1>2, <1>3, <2>1 DEF Record
<1>4. CASE MarkSupersededRun(r) \/ PromoteKeeper(r) \/ MarkKeeperMergedRun(r)
  BY <1>2, <1>4 DEF MarkSupersededRun, PromoteKeeper, MarkKeeperMergedRun, ReadSummaryOf,
     WriteSummaryOf, Row
<1>5. CASE row' = row BY <1>5
<1> QED
  BY <1>1, <1>3, <1>4, <1>5
  DEF Execute, Disturb, EndWorkflow, CreatePull, CreateFails, ChooseKeeper, CloseOther,
      CloseOtherFails, OthersClosed, CloseOwn, CloseOwnFails,
      LabelKeeper, MergeKeeper, MergeSkipped, MarkFails, MarkMergedFails, Throw, Crash,
      HumanSettles

(* No closed pull request of a quiet target comes back into favour.  *)
LEMMA FavouredBack ==
  ASSUME IInv, IInv', Holds, Holds', Next, NEW x \in Runs, pull[x] = "closed",
         Quiet(Target[x])', Favoured(x)'
  PROVE  Favoured(x)
<1>0. /\ Recorded = RecordedIn(row) /\ Recorded' = RecordedIn(row')
      /\ pull'[x] = "closed" /\ keeper \in [Runs -> Execution]
  BY RecordedOf, Frame, Before DEF Advance
<1>1. CASE x \in Recorded
  <2>1. CASE row'[x].pr = "open"
    BY <1>0, <1>1, <2>1, OpenBack, PollHolds DEF Favoured
  <2>2. CASE poller'.at = x /\ poller'.answer = "open"
    BY <1>0, <1>1, <2>2, OneMoves, PollHolds DEF Favoured
  <2>3. ASSUME NEW r \in Runs, keeper'[r].best = x PROVE Favoured(x)
    <3>1. HoldIn(row', keeper'[r], r) BY DEF Holds
    <3>2. x \in RecordedIn(row') BY <1>0 DEF Favoured
    <3>3. r # x
      <4>1. x \in RecordedIn(row') /\ r = x => keeper'[r].best = 0 BY <3>1 DEF HoldIn
      <4> QED BY <2>3, <3>2, <4>1, RunsAreNat
    <3>4. Move(pull, row, keeper[r], keeper'[r], r) BY AllMove
    <3>5. keeper[r].best = x \/ row[x].pr = "open"
      BY <2>3, <3>3, <3>4, RunsAreNat DEF Move
    <3> QED BY <1>1, <3>5 DEF Favoured
  <2> QED BY <2>1, <2>2, <2>3 DEF Favoured
<1>2. CASE x \notin Recorded
  <2>1. x \in RecordedIn(row') /\ x \notin RecordedIn(row) BY <1>0, <1>2 DEF Favoured
  <2>2. PICK r \in Runs : /\ RecordedIn(row') \subseteq RecordedIn(row) \cup {r}
                          /\ RecordedIn(row') = RecordedIn(row) \/ Record(r)
    BY <2>1, OneMoves, PollHolds
  <2>3. Record(x) BY <2>1, <2>2
  <2>4. keeper' = [keeper EXCEPT ![x] = [NotStarted EXCEPT !.pc = "done"]] /\ poller' = poller
    BY <2>3 DEF Record
  <2>5. ~(poller'.at = x) BY <2>1, <2>4, RunsAreNat DEF Holds, PolledIn
  <2>6. \A d \in Runs : keeper'[d].best # x
    <3> SUFFICES ASSUME NEW d \in Runs, keeper'[d].best = x PROVE FALSE OBVIOUS
    <3>1. CASE d = x
      BY <1>0, <2>4, <3>1, RunsAreNat DEF NotStarted
    <3>2. CASE d # x
      <4>1. keeper[d].best = x BY <1>0, <2>4, <3>2
      <4> QED BY <2>1, <3>2, <4>1, Before, RunsAreNat DEF HoldIn
    <3> QED BY <3>1, <3>2
  <2>7. row'[x].pr = "open" BY <2>5, <2>6 DEF Favoured
  <2> DEFINE k == keeper[x]
  <2>8. /\ HoldIn(row, k, x) /\ OwnIn(pull, byHuman, k, x) /\ k.pc = "record"
        /\ row \in [Runs -> Row]
    BY <2>3, Before DEF Record, At
  <2>9. row'[x].pr = k.pr /\ row'[x].status \in {k.status, "cancelled"}
    BY <2>3, <2>8 DEF Record
  <2>10. x \notin byHuman' /\ row'[x].status \in Outcomes
    BY <1>0, <2>1 DEF Quiet
  <2>11. k.intact
    BY <2>7, <2>8, <2>9, <2>10, PullRequestsAssumption DEF HoldIn, LeftAlone
  <2>12. x \in byHuman BY <2>7, <2>8, <2>9, <2>11 DEF OwnIn
  <2>13. byHuman' = byHuman BY <2>3 DEF Record
  <2> QED BY <2>10, <2>12, <2>13
<1> QED BY <1>1, <1>2

(* Whoever stands for a closed one goes on to, unless it is closed or recorded. *)
LEMMA StandsStay ==
  ASSUME IInv, IInv', Holds, Next, NEW x \in Runs, NEW y \in Runs, Stands(y, x),
         Favoured(x)' => Favoured(x), pull'[y] \in {"open", "merged"},
         y \in Recorded \/ y \notin Recorded'
  PROVE  Stands(y, x)'
<1>0. /\ Recorded = RecordedIn(row) /\ Recorded' = RecordedIn(row') /\ Kept(row, row')
  BY RecordedOf, RowsKept
<1>1. pull[y] = "merged" => pull'[y] = "merged" BY Frame DEF Advance
<1>2. \A c \in Recorded : RowOf(row', c) = RowOf(row, c) BY <1>0 DEF Kept, RowOf
<1>3. Favoured(x)' => RowOf(row', x) = RowOf(row, x) BY <1>2 DEF Favoured
<1>4. Move(pull, row, keeper[y], keeper'[y], y) BY AllMove
<1>5. pull[y] # "none" BY DEF Stands
<1>6. CASE y \in Recorded
  <2>1. y \in Recorded' /\ (row[y].pr = "none" => row'[y].pr = "none")
    BY <1>0, <1>6 DEF Kept
  <2> QED BY <1>1, <1>2, <1>3, <1>6, <2>1 DEF Stands
<1>7. CASE y \notin Recorded /\ y \notin Recorded'
  <2>1. CASE pull[y] = "merged" BY <1>1, <2>1 DEF Stands
  <2>2. CASE LeftAlone(keeper[y])
    <3>1. LeftAlone(keeper'[y]) BY <1>4, <1>5, <2>2 DEF Move
    <3> QED BY <1>7, <3>1 DEF Stands, LeftAlone
  <2>3. CASE /\ keeper[y].best = y /\ keeper[y].intact
             /\ Favoured(x) => Preferred(SelfOf(keeper[y], y), RowOf(row, x))
    <3>1. \/ LeftAlone(keeper'[y])
          \/ /\ keeper'[y].best = y /\ keeper'[y].intact
             /\ keeper'[y].status = keeper[y].status /\ keeper'[y].place = keeper[y].place
      BY <1>4, <2>3 DEF Move
    <3>2. CASE LeftAlone(keeper'[y]) BY <1>7, <3>2 DEF Stands, LeftAlone
    <3>3. CASE /\ keeper'[y].best = y /\ keeper'[y].intact
               /\ keeper'[y].status = keeper[y].status /\ keeper'[y].place = keeper[y].place
      <4>1. SelfOf(keeper'[y], y) = SelfOf(keeper[y], y) BY <3>3, SameSelf
      <4>2. Favoured(x)' => Preferred(SelfOf(keeper'[y], y), RowOf(row', x))
        BY <1>3, <2>3, <4>1
      <4> QED BY <1>7, <3>3, <4>2 DEF Stands, SelfOf, RowOf
    <3> QED BY <3>1, <3>2, <3>3
  <2> QED BY <1>7, <2>1, <2>2, <2>3 DEF Stands
<1> QED BY <1>6, <1>7

(* One that recorded itself is preferred to whatever it was preferred to: its *)
(* row is the newest.                                                         *)
LEMMA RecordStands ==
  ASSUME IInv, IInv', Holds, Next, NEW x \in Runs, NEW y \in Runs, Record(y), Stands(y, x),
         Quiet(Target[x])', Favoured(x)' => Favoured(x)
  PROVE  Stands(y, x)'
<1> DEFINE k == keeper[y]
<1>1. /\ Recorded = RecordedIn(row) /\ Recorded' = RecordedIn(row') /\ Kept(row, row')
      /\ RecordedIn(row') = RecordedIn(row) \cup {y} /\ y \notin RecordedIn(row)
      /\ pull' = pull
  BY RecordedOf, RowsKept, RecordMoves DEF Record
<1>2. row \in [Runs -> Row] /\ k \in Execution /\ HoldIn(row, k, y) BY Before
<1>3. Target[y] = Target[x] /\ pull'[y] \in {"open", "merged"} BY <1>1 DEF Stands
<1>4. y \in Recorded' /\ row'[y].status \in Outcomes
  BY <1>1, <1>3 DEF Quiet
<1>5. PICK s \in {k.status, "cancelled"} :
        row' = [row EXCEPT ![y] =
                 [status |-> s, pr |-> k.pr, place |-> Cardinality(Recorded),
                  summary |-> IF k.intact
                                THEN [pr |-> k.pr, chosen |-> k.best = y,
                                      keeperMerged |-> k.pr = "merged", intact |-> TRUE]
                                ELSE NoSummary]]
  BY DEF Record
<1>6. /\ row'[y].status = s /\ row'[y].pr = k.pr /\ row'[y].place = Cardinality(Recorded)
      /\ k.intact => row'[y].summary.intact
  BY <1>2, <1>5
<1>7. s = k.status /\ s # "failed" BY <1>4, <1>6, PullRequestsAssumption
<1>8. CASE pull[y] = "merged" BY <1>1, <1>3, <1>8 DEF Stands
<1>9. CASE LeftAlone(k)
  <2>1. row'[y].pr = "none" BY <1>6, <1>7, <1>9 DEF LeftAlone
  <2> QED BY <1>3, <1>4, <2>1 DEF Stands
<1>10. CASE k.intact /\ (Favoured(x) => Preferred(SelfOf(k, y), RowOf(row, x)))
  <2> SUFFICES ASSUME Favoured(x)' PROVE Preferred(RowOf(row', y), RowOf(row', x))
    BY <1>1, <1>3, <1>4 DEF Stands, Preferred, RowOf
  <2>1. Favoured(x) OBVIOUS
  <2>2. x \in RecordedIn(row) BY <1>1, <2>1 DEF Favoured
  <2>3. RowOf(row', x) = RowOf(row, x) BY <1>1, <2>2 DEF Kept, RowOf
  <2>4. Preferred(SelfOf(k, y), RowOf(row, x)) BY <1>10, <2>1
  <2>5. /\ k.place \in Nat /\ Cardinality(Recorded) \in Nat /\ k.place <= Cardinality(Recorded)
    BY <1>1, <1>2, RecordedGrow, KeptIfSame, PullRequestsAssumption DEF HoldIn, Execution
  <2>6. /\ RowOf(row', y).passed = TRUE /\ RowOf(row', y).rank = SelfOf(k, y).rank
        /\ RowOf(row', y).size = SelfOf(k, y).size /\ SelfOf(k, y).passed = TRUE
    BY <1>6, <1>7, <1>10 DEF RowOf, SelfOf
  <2>7. RowOf(row', y).time > SelfOf(k, y).time
    BY <1>6, <2>5 DEF RowOf, SelfOf
  <2>8. /\ RowOf(row, x) \in Candidate /\ SelfOf(k, y) \in Candidate
        /\ RowOf(row', y) \in Candidate
    BY <1>2, CandidatesAre DEF IInv, TypeOK
  <2>9. Preferred(RowOf(row', y), SelfOf(k, y)) BY <2>6, <2>7 DEF Preferred
  <2> QED BY <2>3, <2>4, <2>8, <2>9, PreferredOrders
<1> QED BY <1>1, <1>8, <1>9, <1>10 DEF Stands

(* z stands for the recorded run c however much c is favoured.  *)
Above(z, c) ==
  /\ Target[z] = Target[c] /\ pull[z] \in {"open", "merged"}
  /\ \/ pull[z] = "merged"
     \/ z \notin Recorded /\ LeftAlone(keeper[z])
     \/ z \in Recorded /\ row[z].pr = "none"
     \/ /\ z \notin Recorded /\ keeper[z].best = z /\ keeper[z].intact
        /\ Preferred(SelfOf(keeper[z], z), RowOf(row, c))
     \/ z \in Recorded /\ Preferred(RowOf(row, z), RowOf(row, c))

LEMMA AboveStands ==
  ASSUME IInv, Holds, NEW z \in Runs, NEW c \in Runs, Above(z, c)
  PROVE  /\ Stands(z, c)
         /\ \A x \in Runs : /\ Stands(c, x) /\ c \in Recorded /\ row[c].pr # "none"
                            /\ pull[c] # "merged"
                            => Stands(z, x)
<1>1. row \in [Runs -> Row] /\ keeper[z] \in Execution BY Before
<1>2. Stands(z, c) BY DEF Above, Stands
<1>3. ASSUME NEW x \in Runs, Stands(c, x), c \in Recorded, row[c].pr # "none",
             pull[c] # "merged"
      PROVE  Stands(z, x)
  <2>1. /\ RowOf(row, c) \in Candidate /\ RowOf(row, z) \in Candidate
        /\ RowOf(row, x) \in Candidate /\ SelfOf(keeper[z], z) \in Candidate
    BY <1>1, CandidatesAre
  <2>2. Favoured(x) => Preferred(RowOf(row, c), RowOf(row, x)) BY <1>3 DEF Stands
  <2>3. Target[c] = Target[x] BY <1>3 DEF Stands
  <2>4. Preferred(SelfOf(keeper[z], z), RowOf(row, c)) =>
          (Favoured(x) => Preferred(SelfOf(keeper[z], z), RowOf(row, x)))
    BY <2>1, <2>2, PreferredOrders
  <2>5. Preferred(RowOf(row, z), RowOf(row, c)) =>
          (Favoured(x) => Preferred(RowOf(row, z), RowOf(row, x)))
    BY <2>1, <2>2, PreferredOrders
  <2> QED BY <2>3, <2>4, <2>5 DEF Above, Stands
<1> QED BY <1>2, <1>3

(* The keeper an execution chose, or who stands for it, stands for every      *)
(* candidate still to be closed.                                              *)
LEMMA StandIn ==
  ASSUME IInv, Holds, Survives, NEW r \in Runs, keeper[r].pc = "close",
         NEW c \in keeper[r].todo, Quiet(Target[c]), pull[c] = "open"
  PROVE  \E z \in Runs : z # c /\ Above(z, c)
<1> DEFINE k == keeper[r]
           b == k.best
<1>1. /\ row \in [Runs -> Row] /\ k \in Execution /\ HoldIn(row, k, r)
      /\ OwnIn(pull, byHuman, k, r) /\ KeeperIn(pull, k, r)
      /\ Recorded = RecordedIn(row) /\ pull \in [Runs -> PullStates]
  BY Before, RecordedOf DEF TypeOK
<1>2. k.pc \in Chosen /\ k.pc \in Opened BY DEF Chosen, Opened
<1>3. /\ c \in Recorded /\ c \in Runs /\ row[c].pr # "none" /\ c # b /\ Target[c] = Target[r]
      /\ Preferred(IF b = r THEN SelfOf(k, r) ELSE RowOf(row, b), RowOf(row, c))
  BY <1>1, <1>2 DEF HoldIn, RecordedIn
<1>4. /\ r \notin Recorded /\ b # 0 /\ Target[b] = Target[r] /\ k.intact
      /\ (b = r => k.pr # "closed")
  BY <1>1, <1>2 DEF HoldIn
<1>5. CASE b = r
  <2>1. pull[r] # "none" BY <1>1, <1>2 DEF KeeperIn
  <2>2. pull[r] # "closed"
    BY <1>1, <1>2, <1>3, <1>4, <1>5, <2>1 DEF OwnIn, Quiet
  <2>3. pull[r] \in {"open", "merged"} BY <1>1, <2>1, <2>2 DEF PullStates
  <2> QED BY <1>3, <1>4, <1>5, <2>3 DEF Above
<1>6. CASE b # r
  <2>1. b \in Recorded /\ b \in Runs /\ row[b].pr # "none"
    BY <1>1, <1>4, <1>6 DEF HoldIn, RecordedIn
  <2>2. pull[b] # "none"
    <3>1. RowIn(pull, row[b], b) /\ row[b].pr \in PullStates
      BY <1>1, <2>1 DEF IInv, AllIn, Row
    <3> QED BY <2>1, <3>1 DEF RowIn, SeenIn, PullStates
  <2>3. Preferred(RowOf(row, b), RowOf(row, c)) BY <1>3, <1>6
  <2>4. CASE pull[b] # "closed"
    <3>1. pull[b] \in {"open", "merged"} BY <1>1, <2>1, <2>2, <2>4 DEF PullStates
    <3> QED BY <1>3, <1>4, <2>1, <2>3, <3>1 DEF Above
  <2>5. CASE pull[b] = "closed"
    <3>1. PICK y \in Runs : Stands(y, b) BY <1>3, <1>4, <2>1, <2>5 DEF Survives
    <3>2. Favoured(b) BY <2>1 DEF Favoured
    <3>3. /\ RowOf(row, b) \in Candidate /\ RowOf(row, c) \in Candidate
          /\ RowOf(row, y) \in Candidate /\ SelfOf(keeper[y], y) \in Candidate
      BY <1>1, <1>3, <2>1, Before, CandidatesAre
    <3>4. y # c
      <4>1. y = c => Preferred(RowOf(row, c), RowOf(row, b))
        BY <1>3, <3>1, <3>2 DEF Stands
      <4> QED BY <2>3, <3>3, <4>1, PreferredOrders
    <3>5. /\ Preferred(SelfOf(keeper[y], y), RowOf(row, b)) =>
                Preferred(SelfOf(keeper[y], y), RowOf(row, c))
          /\ Preferred(RowOf(row, y), RowOf(row, b)) => Preferred(RowOf(row, y), RowOf(row, c))
      BY <2>3, <3>3, PreferredOrders
    <3>6. Above(y, c)
      BY <1>3, <1>4, <3>1, <3>2, <3>5 DEF Above, Stands
    <3> QED BY <3>4, <3>6
  <2> QED BY <2>4, <2>5
<1> QED BY <1>5, <1>6

(* A run that lost closes its own pull request: the keeper is left, or who     *)
(* stands for it.                                                             *)
LEMMA OwnStandIn ==
  ASSUME IInv, IInv', Holds, Survives, Next, NEW r \in Runs, CloseOwn(r), pull[r] = "open",
         Quiet(Target[r])
  PROVE  \E z \in Runs : Stands(z, r)'
<1> DEFINE k == keeper[r]
           b == k.best
<1>1. /\ row \in [Runs -> Row] /\ k \in Execution /\ HoldIn(row, k, r)
      /\ Recorded = RecordedIn(row) /\ pull \in [Runs -> PullStates]
      /\ keeper \in [Runs -> Execution] /\ Recorded' = RecordedIn(row')
  BY Before, RecordedOf DEF TypeOK
<1>2. /\ k.pc = "closeOwn" /\ pull' = AfterClose(r) /\ row' = row
      /\ \A c \in Runs \ {r} : keeper'[c] = keeper[c]
  BY <1>1 DEF CloseOwn, At
<1>3. /\ k.pc \in Chosen /\ k.pc \in Opened BY <1>2 DEF Chosen, Opened
<1>4. /\ r \notin Recorded /\ b # 0 /\ b # r /\ Target[b] = Target[r] /\ k.intact /\ k.pr # "none"
  BY <1>1, <1>2, <1>3 DEF HoldIn
<1>5. b \in Recorded /\ b \in Runs /\ row[b].pr # "none" BY <1>1, <1>4 DEF HoldIn, RecordedIn
<1>6. /\ \A c \in Runs \ {r} : pull'[c] = pull[c]
      /\ Recorded' = Recorded /\ ~Favoured(r)'
  BY <1>1, <1>2, <1>4 DEF AfterClose, Favoured
<1>7. pull[b] # "none"
  <2>1. RowIn(pull, row[b], b) /\ row[b].pr \in PullStates
    BY <1>1, <1>5 DEF IInv, AllIn, Row
  <2> QED BY <1>5, <2>1 DEF RowIn, SeenIn, PullStates
<1>8. CASE pull[b] # "closed"
  <2>1. pull'[b] \in {"open", "merged"} BY <1>1, <1>4, <1>5, <1>6, <1>7, <1>8 DEF PullStates
  <2> QED BY <1>4, <1>5, <1>6, <2>1 DEF Stands, Preferred, RowOf
<1>9. CASE pull[b] = "closed"
  <2>1. PICK y \in Runs : Stands(y, b) BY <1>4, <1>5, <1>9 DEF Survives
  <2>2. y # r BY <1>4, <2>1 DEF Stands, LeftAlone
  <2>3. /\ Target[y] = Target[r] /\ pull'[y] = pull[y] /\ keeper'[y] = keeper[y] /\ row'[y] = row[y]
        /\ pull'[y] \in {"open", "merged"}
    BY <1>2, <1>4, <1>6, <2>1, <2>2 DEF Stands
  <2>4. \/ pull'[y] = "merged"
        \/ y \notin Recorded /\ LeftAlone(keeper[y])
        \/ y \notin Recorded /\ keeper[y].best = y /\ keeper[y].intact
        \/ y \in Recorded
    BY <2>1, <2>3 DEF Stands
  <2>5. Stands(y, r)'
    BY <1>6, <2>3, <2>4 DEF Stands, LeftAlone, Preferred, RowOf, SelfOf
  <2> QED BY <2>5
<1> QED BY <1>8, <1>9

(* Who closes: the run itself, another run, or a person.  *)
LEMMA ClosedBy ==
  ASSUME IInv, Next, NEW c \in Runs, pull[c] # "closed", pull'[c] = "closed"
  PROVE  /\ pull[c] = "open"
         /\ \/ c \in byHuman'
            \/ CloseOwn(c)
            \/ \E r \in Runs : /\ keeper[r].pc = "close" /\ c \in keeper[r].todo
                               /\ pull' = AfterClose(c) /\ row' = row /\ byHuman' = byHuman
<1>1. /\ pull \in [Runs -> PullStates] /\ \A r \in Runs : keeper[r].todo \subseteq Runs
      /\ Advance(pull, pull')
  BY Frame DEF IInv, TypeOK, Execution
<1>2. pull[c] = "open" BY <1>1 DEF Advance
<1>3. ASSUME pull' = pull PROVE FALSE BY <1>3
<1>4. PICK r \in Runs : Execute(r) \/ Disturb(r)
  BY <1>3 DEF Next, Poll, PollBegins, PollAsks, PollWrites, PollFails
<1>5. CASE CloseOther(r) BY <1>1, <1>5 DEF CloseOther, AfterClose, At
<1>6. CASE CloseOwn(r) BY <1>1, <1>6 DEF CloseOwn, AfterClose
<1>7. CASE HumanSettles(r) BY <1>1, <1>7 DEF HumanSettles
<1>8. CASE CreatePull(r) \/ MergeKeeper(r) BY <1>1, <1>8 DEF CreatePull, MergeKeeper
<1> QED
  BY <1>2, <1>3, <1>4, <1>5, <1>6, <1>7, <1>8
  DEF Execute, Disturb, EndWorkflow, CreateFails, ChooseKeeper,
      CloseOtherFails, MarkSupersededRun, OthersClosed, CloseOwnFails, PromoteKeeper,
      LabelKeeper, MergeSkipped, MarkKeeperMergedRun, Record, ReadSummaryOf,
      WriteSummaryOf, MarkFails, MarkMergedFails, Throw, Crash

LEMMA SurvivesStay ==
  ASSUME IInv, IInv', Holds, Holds', Survives, Next
  PROVE  Survives'
<1> SUFFICES ASSUME NEW x \in Runs, Quiet(Target[x])', pull'[x] = "closed"
             PROVE  \E y \in Runs : Stands(y, x)'
  BY DEF Survives
<1>1. Quiet(Target[x]) BY QuietBack
<1>2. /\ pull \in [Runs -> PullStates] /\ pull' \in [Runs -> PullStates] /\ Advance(pull, pull')
      /\ Recorded = RecordedIn(row) /\ Recorded' = RecordedIn(row')
  BY Frame, RecordedOf DEF IInv, TypeOK
(* Another run closes c: somebody else stands for it and for all that it stood for.  *)
<1>3. ASSUME NEW r \in Runs, NEW c \in Runs, keeper[r].pc = "close", c \in keeper[r].todo,
             pull' = AfterClose(c), row' = row, pull[c] = "open", Target[c] = Target[x]
      PROVE  \E z \in Runs : /\ pull'[z] \in {"open", "merged"} /\ Stands(z, c)
                             /\ Stands(c, x) => Stands(z, x)
  <2>1. PICK z \in Runs : z # c /\ Above(z, c) BY <1>1, <1>3, StandIn
  <2>2. pull'[z] = pull[z] BY <1>2, <1>3, <2>1 DEF AfterClose
  <2>3. c \in Recorded /\ row[c].pr # "none" BY <1>2, <1>3, Before DEF HoldIn
  <2> QED BY <1>3, <2>1, <2>2, <2>3, AboveStands DEF Above
<1>4. CASE pull[x] = "closed"
  <2>1. Favoured(x)' => Favoured(x) BY <1>4, FavouredBack
  <2>2. ASSUME NEW y \in Runs, Stands(y, x), pull'[y] \in {"open", "merged"}
        PROVE  Stands(y, x)'
    <3>1. CASE y \in Recorded \/ y \notin Recorded' BY <2>1, <2>2, <3>1, StandsStay
    <3>2. CASE y \notin Recorded /\ y \in Recorded'
      <4>1. Record(y) BY <1>2, <3>2, OneMoves, PollHolds
      <4> QED BY <2>1, <2>2, <4>1, RecordStands
    <3> QED BY <3>1, <3>2
  <2>3. PICK y \in Runs : Stands(y, x) BY <1>1, <1>4 DEF Survives
  <2>4. CASE pull'[y] \in {"open", "merged"} BY <2>2, <2>3, <2>4
  <2>5. CASE pull'[y] \notin {"open", "merged"}
    <3>1. pull[y] \in {"open", "merged"} /\ Target[y] = Target[x] BY <2>3 DEF Stands
    <3>2. pull[y] = "open" /\ pull'[y] = "closed"
      BY <1>2, <2>5, <3>1 DEF Advance
    <3>3. y \notin byHuman' BY <3>1, <3>2 DEF Quiet
    <3>4. ~CloseOwn(y)
      <4>1. SUFFICES ASSUME CloseOwn(y) PROVE FALSE OBVIOUS
      <4>2. HoldIn(row, keeper[y], y) /\ keeper[y].pc = "closeOwn"
        BY <4>1, Before DEF CloseOwn, At
      <4>3. /\ y \notin Recorded /\ keeper[y].best # y /\ keeper[y].intact
            /\ keeper[y].pr # "none"
        BY <1>2, <4>2 DEF HoldIn, Opened, Chosen
      <4> QED BY <2>3, <3>2, <4>3 DEF Stands, LeftAlone
    <3>5. PICK r \in Runs : /\ keeper[r].pc = "close" /\ y \in keeper[r].todo
                            /\ pull' = AfterClose(y) /\ row' = row
      BY <3>2, <3>3, <3>4, ClosedBy
    <3>6. PICK z \in Runs : pull'[z] \in {"open", "merged"} /\ Stands(z, x)
      BY <1>3, <2>3, <3>1, <3>2, <3>5
    <3> QED BY <2>2, <3>6
  <2> QED BY <2>4, <2>5
<1>5. CASE pull[x] # "closed"
  <2>1. pull[x] = "open" BY <1>5, ClosedBy
  <2>2. x \notin byHuman' BY DEF Quiet
  <2>3. CASE CloseOwn(x) BY <1>1, <2>1, <2>3, OwnStandIn
  <2>4. CASE ~CloseOwn(x)
    <3>1. PICK r \in Runs : /\ keeper[r].pc = "close" /\ x \in keeper[r].todo
                            /\ pull' = AfterClose(x) /\ row' = row /\ byHuman' = byHuman
      BY <1>5, <2>2, <2>4, ClosedBy
    <3>2. PICK z \in Runs : pull'[z] \in {"open", "merged"} /\ Stands(z, x)
      BY <1>3, <2>1, <3>1
    <3>3. Favoured(x)' => Favoured(x)
      <4>1. UNCHANGED poller /\ ~(Poll \/ PollFails)
        <5>1. ~(Poll \/ PollFails) BY <1>5, PollHolds
        <5> QED BY <5>1, OneMoves
      <4>2. x \in RecordedIn(row) BY <3>1, Before DEF HoldIn
      <4>3. ASSUME NEW s \in Runs, keeper'[s].best = x PROVE Favoured(x)
        <5>1. Move(pull, row, keeper[s], keeper'[s], s) BY AllMove
        <5>2. HoldIn(row', keeper'[s], s) BY DEF Holds
        <5>3. s # x BY <3>1, <4>2, <4>3, <5>2, RunsAreNat DEF HoldIn
        <5>4. keeper[s].best = x \/ row[x].pr = "open"
          BY <4>3, <5>1, <5>3, RunsAreNat DEF Move
        <5> QED BY <1>2, <4>2, <5>4 DEF Favoured
      <4> QED BY <1>2, <3>1, <4>1, <4>2, <4>3 DEF Favoured
    <3>4. z \in Recorded \/ z \notin Recorded' BY <1>2, <3>1
    <3> QED BY <3>2, <3>3, <3>4, StandsStay
  <2> QED BY <2>3, <2>4
<1> QED BY <1>4, <1>5

LEMMA InitSInv == Init => SInv
<1> SUFFICES ASSUME Init PROVE SInv OBVIOUS
<1>1. \A r \in Runs : row[r].status = "running" /\ keeper[r] = NotStarted /\ pull[r] = "none"
  BY DEF Init
<1>2. RecordedIn(row) = {} BY <1>1 DEF RecordedIn, Ended
<1>3. \A r \in Runs : HoldIn(row, keeper[r], r) /\ OwnIn(pull, byHuman, keeper[r], r)
  BY <1>1, <1>2, RecordedFinite, LostHolds
<1>4. PlacesIn(row) BY <1>2 DEF PlacesIn
<1>5. PolledIn(row, poller) BY DEF Init, Idle, PolledIn
<1>6. Survives BY <1>1 DEF Survives
<1> QED BY <1>3, <1>4, <1>5, <1>6, InitIInv DEF SInv, Holds

LEMMA StepSInv == SInv /\ [Next]_vars => SInv'
<1> SUFFICES ASSUME SInv, [Next]_vars PROVE SInv' OBVIOUS
<1>1. IInv' BY StepIInv DEF SInv
<1>2. CASE Next
  <2>1. Holds' BY <1>1, <1>2, HoldsStay DEF SInv
  <2>2. Survives' BY <1>1, <1>2, <2>1, SurvivesStay DEF SInv
  <2> QED BY <1>1, <2>1, <2>2 DEF SInv
<1>3. CASE UNCHANGED vars
  <2>1. Holds' BY <1>3 DEF SInv, Holds, vars
  <2>2. Survives'
    BY <1>3 DEF SInv, Survives, Stands, Quiet, Favoured, Recorded, vars
  <2> QED BY <1>1, <2>1, <2>2 DEF SInv
<1> QED BY <1>2, <1>3

(* For every number of runs, of executions that race, of targets, sizes and   *)
(* faults: keeper automation never closes the last pull request of a target   *)
(* in which no person, cancel or error took part.  Every closed one has       *)
(* another that stands for it and that no execution and no stale answer of    *)
(* the poller can close alone (workflow-service.ts 1598-1673, pr-keeper.ts    *)
(* 61-90).                                                                    *)
THEOREM OneIsAlwaysLeft == Spec => []KeeperSurvives
<1>1. SInv => KeeperSurvives
  <2> SUFFICES ASSUME SInv, NEW r \in Runs, pull[r] # "none",
                      {c \in Runs : Target[c] = Target[r] /\ pull[c] # "none"} \cap byHuman = {},
                      \A c \in {c \in Runs : Target[c] = Target[r] /\ pull[c] # "none"}
                              \cap Recorded : row[c].status \in Outcomes
               PROVE  \E c \in {c \in Runs : Target[c] = Target[r] /\ pull[c] # "none"} :
                        pull[c] \in {"open", "merged"}
    BY DEF KeeperSurvives
  <2>1. Quiet(Target[r]) BY DEF Quiet
  <2>2. pull[r] \in PullStates BY DEF SInv, IInv, TypeOK
  <2>3. CASE pull[r] = "closed"
    <3>1. PICK y \in Runs : Stands(y, r) BY <2>1, <2>3 DEF SInv, Survives
    <3> QED BY <3>1 DEF Stands
  <2> QED BY <2>2, <2>3 DEF PullStates
<1> QED BY <1>1, InitSInv, StepSInv, PTL DEF Spec
=============================================================================
