--------------------------- MODULE WorkflowProofs ---------------------------
(***************************************************************************)
(* The safety of Workflow, for every project, policy, edit and number of   *)
(* faults.                                                                 *)
(***************************************************************************)
EXTENDS Workflow, FiniteSetTheorems, TLAPS

-----------------------------------------------------------------------------
(* Types *)

LEMMA ChecksAreTyped ==
  /\ Passed \in Check /\ NotRun \in Check
  /\ \A scan : Attempted(scan, CompileKinds) \subseteq Check
  /\ \A scan : Attempted(scan, TestKinds) \subseteq Check
<1>1. /\ CompileKinds \subseteq FailureKinds /\ TestKinds \subseteq FailureKinds
      /\ {"tool_missing", "budget_exceeded"} \subseteq FailureKinds
  BY DEF CompileKinds, TestKinds, FailureKinds, CodeKinds, InfrastructureKinds
<1>2. Passed \in Check /\ NotRun \in Check BY DEF Passed, NotRun, Check
<1>3. ASSUME NEW kinds \in SUBSET FailureKinds, NEW scan
      PROVE  Attempted(scan, kinds) \subseteq Check
  BY <1>1, <1>2 DEF Attempted, Check
<1> QED BY <1>1, <1>2, <1>3

LEMMA UnverifiedIsTyped ==
  ASSUME NEW scan \in Scan
  PROVE  Unverified(scan) \in Verification
BY ChecksAreTyped DEF Unverified, Verification, Scan

(* What the verifier answers is a summary that CanAnswer allows.  *)
LEMMA AnswersAreTyped ==
  ASSUME input \in Inputs, input \in Input, aborted \in BOOLEAN, NEW v \in Answers
  PROVE  v \in Verification /\ CanAnswer(input.scan, v, aborted)
<1> DEFINE met(checks) == {c \in checks : c.kind \in Kinds \cup {"none"}}
           all(scan) == [hasTests : {scan.hasTests},
                    compile : met(Attempted(scan, CompileKinds)),
                    tests : met(Attempted(scan, TestKinds)) \cup {NotRun},
                    static : met({Passed, NotRun, [status |-> "failed", kind |-> "code_failure"]})]
<1>1. Answers = {w \in all(input.scan) : CanAnswer(input.scan, w, aborted)}
  BY DEF Answers, AnswersOf
<1>2. v \in all(input.scan) /\ CanAnswer(input.scan, v, aborted) BY <1>1
<1>3. input.scan.hasTests \in BOOLEAN BY DEF Input, Scan
<1>4. [status |-> "failed", kind |-> "code_failure"] \in Check
  BY DEF Check, FailureKinds, CodeKinds
<1>5. all(input.scan) \subseteq [hasTests : BOOLEAN, compile : Check, tests : Check, static : Check]
  BY <1>3, <1>4, ChecksAreTyped
<1> QED BY <1>2, <1>5 DEF Verification

LEMMA DecidedIsTyped == Decided \in {"blocked", "needs_review", "completed"}
BY DEF Decided, StatusOf

(* Who else will still execute the run: an attempt costs a fault. *)
Pending == IF lease = "lost" \/ (pc = "dead" /\ lease = "held") THEN 1 ELSE 0

(* From the decision on there is a status. *)
Settled == {"finalize", "upload", "returned", "checklist", "pull", "create", "keep", "last",
            "rewrite", "lease", "record"}

TypeInv ==
  /\ TypeOK
  /\ input \in Inputs
  /\ attempt + faults + Pending <= MaxFaults + 1
  /\ pc \in Settled => exec.status # "none"

LEMMA FreshIsTyped ==
  ASSUME input \in Input
  PROVE  Fresh \in Locals
<1>1. Unverified(input.scan) \in Verification BY UnverifiedIsTyped DEF Input
<1>2. NoEdit \in Edit BY DEF NoEdit, Edit
<1> QED BY <1>1, <1>2 DEF Fresh, Locals, Statuses

LEMMA ContentIsTyped ==
  ASSUME TypeInv
  PROVE  /\ Absent \in Content /\ Empty \in Directory
         /\ Plain \in Content
         /\ \A names : With(names) \in Directory
         /\ [attempt |-> attempt, status |-> exec.status, pr |-> exec.pr] \in Content
<1>1. attempt \in 0..(MaxFaults + 1) /\ 0 \in 0..(MaxFaults + 1)
  BY WorkflowAssumption DEF TypeInv, TypeOK, Attempts
<1>2. Absent \in Content /\ Plain \in Content BY <1>1 DEF Absent, Plain, Content
<1>3. Empty \in Directory BY <1>2 DEF Empty, Directory
<1>4. \A names : With(names) \in Directory
  <2>1. disk \in Directory BY DEF TypeInv, TypeOK
  <2> QED BY <1>2, <2>1 DEF With, Directory
<1>5. exec.status \in Statuses \cup {"none"} /\ exec.pr \in BOOLEAN
  BY DEF TypeInv, TypeOK, Locals
<1> QED BY <1>1, <1>2, <1>3, <1>4, <1>5 DEF Content

(* The steps by what they leave alone: those inside the execution change its   *)
(* locals and the evidence directory only, the others disturb it, concern      *)
(* what is outside of it or end it.                                            *)
InsideStep ==
  \/ PrepareWorkspace \/ StartWorkflow \/ ScanStep \/ PlanStep \/ ApplyStep \/ SkipApply
  \/ VerifyGuarded \/ StartVerify \/ Verify \/ SkipRemediation \/ StartRemediation
  \/ Remediate \/ EndVerify \/ Decide \/ UploadEvidence \/ EvidenceGone \/ PushRefused \/ Keep
  \/ NoPull \/ LastCheck \/ CheckLease \/ Finish \/ NoticeCancel

ExportStep ==
  \/ FinalizeEvidence \/ TakeResult \/ EvaluateChecklist \/ PushBranch \/ CreatePull
  \/ RewriteRunJson \/ Throw \/ AnswerLost \/ RewriteFails \/ Crash

(* The steps that leave the locals and the directory alone. *)
RecordStep ==
  \/ Begin \/ Record \/ InsertArtifact \/ LoseLease \/ Abort
  \/ ReadForCancel \/ WriteCancel \/ CancelJob

LEMMA StepsAreSorted == Next <=> InsideStep \/ ExportStep \/ RecordStep \/ StartOver
BY DEF Next, Execute, Disturb, CancelRun, InsideStep, ExportStep, RecordStep

LEMMA InsideStays ==
  ASSUME InsideStep
  PROVE  UNCHANGED <<input, bundle, listed, rows, row, lease, asked, remote, aborted, attempt,
                     faults>>
<1>1. CASE \/ StartWorkflow \/ ScanStep \/ PlanStep \/ SkipApply \/ VerifyGuarded \/ StartVerify
           \/ Verify \/ SkipRemediation \/ StartRemediation
  BY <1>1 DEF StartWorkflow, ScanStep, PlanStep, SkipApply, VerifyGuarded, StartVerify, Verify,
       SkipRemediation, StartRemediation, Write, Inside, Elsewhere
<1>2. CASE ApplyStep \/ Remediate \/ EndVerify
  BY <1>2 DEF ApplyStep, Remediate, EndVerify, Write, Inside, Elsewhere
<1>3. CASE \/ PrepareWorkspace \/ Decide \/ UploadEvidence \/ EvidenceGone \/ PushRefused \/ Keep
           \/ NoPull \/ LastCheck \/ CheckLease \/ Finish \/ NoticeCancel
  BY <1>3 DEF PrepareWorkspace, Decide, UploadEvidence, EvidenceGone, PushRefused, Keep, NoPull,
       LastCheck, CheckLease, Finish, NoticeCancel, Inside, Elsewhere
<1> QED BY <1>1, <1>2, <1>3 DEF InsideStep

LEMMA ExportStays ==
  ASSUME ExportStep
  PROVE  UNCHANGED <<input, rows, row, lease, asked, aborted, attempt>>
BY DEF ExportStep, FinalizeEvidence, TakeResult, EvaluateChecklist, PushBranch, CreatePull,
       RewriteRunJson, Rewrite, Throw, AnswerLost, RewriteFails, Crash, Elsewhere

LEMMA RecordStays ==
  ASSUME RecordStep
  PROVE  UNCHANGED <<input, exec, disk, bundle, listed, remote, attempt>>
BY DEF RecordStep, Begin, Record, InsertArtifact, LoseLease, Abort, ReadForCancel, WriteCancel,
       CancelJob

PCs == Checkpoints \cup Unchecked \cup Outside

LEMMA PcIsTyped ==
  ASSUME TypeInv, Next
  PROVE  pc' \in PCs
<1> USE DEF PCs, Checkpoints, Unchecked, Outside
<1>1. pc \in PCs BY DEF TypeInv, TypeOK
<1>2. CASE InsideStep
  BY <1>2 DEF InsideStep, PrepareWorkspace, StartWorkflow, ScanStep, PlanStep, ApplyStep, SkipApply,
       VerifyGuarded, StartVerify, Verify, SkipRemediation, StartRemediation, Remediate, EndVerify,
       Decide, UploadEvidence, EvidenceGone, PushRefused, Keep, NoPull, LastCheck, CheckLease, Finish,
       NoticeCancel, Write, Catch
<1>3. CASE ExportStep
  BY <1>3 DEF ExportStep, FinalizeEvidence, TakeResult, EvaluateChecklist, PushBranch, CreatePull,
       RewriteRunJson, Rewrite, Throw, AnswerLost, RewriteFails, Crash, Catch
<1>4. CASE RecordStep \/ StartOver
  BY <1>1, <1>4 DEF RecordStep, Begin, Record, InsertArtifact, LoseLease, Abort, ReadForCancel,
       WriteCancel, CancelJob, StartOver
<1> QED BY <1>2, <1>3, <1>4, StepsAreSorted

LEMMA LocalsAreTyped ==
  ASSUME TypeInv, Next
  PROVE  exec' \in Locals
<1>0. exec \in Locals /\ input \in Inputs /\ input \in Input /\ aborted \in BOOLEAN
      /\ input.scan \in Scan
  BY DEF TypeInv, TypeOK, Input
<1>1. CASE \/ PrepareWorkspace \/ StartWorkflow \/ ScanStep \/ PlanStep \/ StartVerify
           \/ SkipRemediation \/ StartRemediation \/ EndVerify \/ UploadEvidence \/ Keep \/ NoPull
           \/ CheckLease \/ Finish \/ TakeResult \/ PushBranch \/ RewriteFails \/ Crash \/ RecordStep
  <2>1. exec' = exec
    BY <1>1, RecordStays
    DEF PrepareWorkspace, StartWorkflow, ScanStep, PlanStep, StartVerify, SkipRemediation,
        StartRemediation, EndVerify, UploadEvidence, Keep, NoPull, CheckLease, Finish, TakeResult,
        PushBranch, RewriteFails, Crash
  <2> QED BY <1>0, <2>1
<1>2. CASE \/ Decide \/ FinalizeEvidence \/ EvidenceGone \/ PushRefused \/ LastCheck \/ NoticeCancel
           \/ Throw \/ AnswerLost
  <2>1. exec' = exec \/ \E s \in Statuses : exec' = [exec EXCEPT !.status = s]
    <3>1. CASE Decide BY <3>1, DecidedIsTyped DEF Decide, Statuses
    <3>2. CASE LastCheck
      <4>1. exec' = [exec EXCEPT !.status = IF Cancelled THEN "cancelled" ELSE exec.status]
        BY <3>2 DEF LastCheck
      <4>2. exec = [exec EXCEPT !.status = exec.status] BY <1>0 DEF Locals
      <4> QED BY <4>1, <4>2 DEF Statuses
    <3>3. CASE FinalizeEvidence \/ EvidenceGone \/ PushRefused \/ NoticeCancel \/ Throw \/ AnswerLost
      BY <3>3 DEF FinalizeEvidence, EvidenceGone, PushRefused, NoticeCancel, Throw, AnswerLost, Catch,
           Statuses
    <3> QED BY <1>2, <3>1, <3>2, <3>3
  <2> QED BY <1>0, <2>1 DEF Locals
<1>3. CASE ApplyStep
  <2>1. PICK edit \in Edits, commit \in 0..1 :
          exec' = [exec EXCEPT !.edit = edit, !.commit = commit,
                               !.guarded = Guarded(input.scan, input.policy)]
    BY <1>3 DEF ApplyStep
  <2>2. edit \in Edit BY WorkflowAssumption
  <2>3. Guarded(input.scan, input.policy) \in BOOLEAN BY <1>0 DEF Guarded, Input, Policies
  <2> DEFINE g == Guarded(input.scan, input.policy)
  <2> HIDE DEF g
  <2>4. exec' = [exec EXCEPT !.edit = edit, !.commit = commit, !.guarded = g] /\ g \in BOOLEAN
    BY <2>1, <2>3 DEF g
  <2>5. commit \in 0..2 OBVIOUS
  <2> QED BY <1>0, <2>2, <2>4, <2>5 DEF Locals
<1>4. CASE SkipApply
  <2>1. PlannedEdit \in Edit
    BY <1>0 DEF PlannedEdit, NoEdit, Edit, Input
  <2> QED BY <1>0, <1>4, <2>1 DEF SkipApply, Locals
<1>5. CASE VerifyGuarded
  <2>1. [Unverified(input.scan) EXCEPT !.static = Passed] \in Verification
    BY <1>0, UnverifiedIsTyped, ChecksAreTyped DEF Verification
  <2> QED BY <1>0, <1>5, <2>1 DEF VerifyGuarded, Locals
<1>6. CASE Verify
  <2>1. PICK v \in Answers : exec' = [exec EXCEPT !.verify = v] BY <1>6 DEF Verify
  <2> QED BY <1>0, <2>1, AnswersAreTyped DEF Locals
<1>7. CASE Remediate
  <2>1. PICK fixed \in BOOLEAN, v \in Answers :
          exec' = [exec EXCEPT !.verify = v, !.rules = fixed,
                               !.commit = IF fixed THEN 2 ELSE exec.commit]
    BY <1>7 DEF Remediate
  <2>2. v \in Verification BY <1>0, AnswersAreTyped
  <2>3. (IF fixed THEN 2 ELSE exec.commit) \in 0..2 BY <1>0 DEF Locals
  <2> QED BY <1>0, <2>1, <2>2, <2>3 DEF Locals
<1>8. CASE EvaluateChecklist
  <2>1. PICK c \in {"none", "passed", "failed"}, s \in Statuses \cup {"none"} :
          exec' = [exec EXCEPT !.checklist = c, !.status = s]
    BY <1>0, <1>8 DEF EvaluateChecklist, Locals, Statuses
  <2> QED BY <1>0, <2>1 DEF Locals
<1>9. CASE CreatePull BY <1>0, <1>9 DEF CreatePull, Locals
<1>10. CASE RewriteRunJson
  <2>1. exec' = exec \/ exec' = [exec EXCEPT !.rewritten = TRUE] BY <1>10 DEF RewriteRunJson, Rewrite
  <2> QED BY <1>0, <2>1 DEF Locals
<1>11. CASE StartOver
  <2>1. exec' = Fresh BY <1>11 DEF StartOver
  <2> QED BY <1>0, <2>1, FreshIsTyped
<1> QED
  BY <1>1, <1>2, <1>3, <1>4, <1>5, <1>6, <1>7, <1>8, <1>9, <1>10, <1>11, StepsAreSorted
  DEF InsideStep, ExportStep

LEMMA DirectoriesAreTyped ==
  ASSUME TypeInv, Next
  PROVE  {disk', bundle', listed'} \subseteq Directory
<1>0. {disk, bundle, listed} \subseteq Directory BY DEF TypeInv, TypeOK
<1>1. disk' \in Directory
  <2>1. \/ disk' \in {disk, Empty}
        \/ \E names : disk' = With(names)
        \/ \E c \in Content : disk' = [disk EXCEPT !["run"] = c]
        \/ \E c \in Content : \E names : disk' = [With(names) EXCEPT !["run"] = c]
    <3>1. CASE Decide
      <4>1. [Plain EXCEPT !.status = Decided] \in Content
        BY ContentIsTyped, DecidedIsTyped DEF Content, Statuses
      <4> QED BY <3>1, <4>1 DEF Decide
    <3>2. CASE RewriteRunJson
      <4> DEFINE told == [attempt |-> attempt, status |-> exec.status, pr |-> exec.pr]
      <4>1. told \in Content BY ContentIsTyped
      <4>2. disk' = disk \/ disk' = [disk EXCEPT !["run"] = told] BY <3>2 DEF RewriteRunJson, Rewrite
      <4> QED BY <4>1, <4>2
    <3>3. CASE RewriteFails
      <4>1. [Plain EXCEPT !.status = "torn"] \in Content BY ContentIsTyped DEF Content
      <4> QED BY <3>3, <4>1 DEF RewriteFails
    <3>4. CASE InsideStep /\ ~Decide
      BY <3>4
      DEF InsideStep, PrepareWorkspace, StartWorkflow, ScanStep, PlanStep, ApplyStep, SkipApply,
       VerifyGuarded, StartVerify, Verify, SkipRemediation, StartRemediation, Remediate, EndVerify,
       UploadEvidence, EvidenceGone, PushRefused, Keep, NoPull, LastCheck, CheckLease, Finish,
       NoticeCancel, Write
    <3>5. CASE ExportStep /\ ~RewriteRunJson /\ ~RewriteFails
      BY <3>5
      DEF ExportStep, FinalizeEvidence, TakeResult, EvaluateChecklist, PushBranch, CreatePull, Throw,
          AnswerLost, Crash
    <3>6. CASE RecordStep \/ StartOver BY <3>6, RecordStays DEF StartOver
    <3> QED BY <3>1, <3>2, <3>3, <3>4, <3>5, <3>6, StepsAreSorted
  <2> QED BY <1>0, <2>1, ContentIsTyped DEF Directory
<1>2. bundle' \in Directory
  <2>1. CASE InsideStep \/ RecordStep BY <1>0, <2>1, InsideStays, RecordStays
  <2>2. CASE ExportStep \/ StartOver
    BY <1>0, <2>2
    DEF ExportStep, FinalizeEvidence, TakeResult, EvaluateChecklist, PushBranch, CreatePull,
        RewriteRunJson, Rewrite, Throw, AnswerLost, RewriteFails, Crash, StartOver
  <2> QED BY <2>1, <2>2, StepsAreSorted
<1>3. listed' \in Directory
  <2>1. CASE InsideStep \/ RecordStep BY <1>0, <2>1, InsideStays, RecordStays
  <2>2. CASE EvaluateChecklist
    BY <1>0, <2>2, ContentIsTyped DEF EvaluateChecklist, Directory
  <2>3. CASE RewriteRunJson
    <3> DEFINE told == [attempt |-> attempt, status |-> exec.status, pr |-> exec.pr]
    <3>1. told \in Content BY ContentIsTyped
    <3>2. listed' = listed \/ listed' = [listed EXCEPT !["run"] = told]
      BY <2>3 DEF RewriteRunJson, Rewrite, Relist
    <3> QED BY <1>0, <3>1, <3>2 DEF Directory
  <2>4. CASE (ExportStep /\ ~EvaluateChecklist /\ ~RewriteRunJson) \/ StartOver
    BY <1>0, <2>4, ContentIsTyped
    DEF ExportStep, FinalizeEvidence, TakeResult, PushBranch, CreatePull, Throw, AnswerLost,
        RewriteFails, Crash, StartOver
  <2> QED BY <2>1, <2>2, <2>3, <2>4, StepsAreSorted
<1> QED BY <1>1, <1>2, <1>3

LEMMA StatusIsGiven ==
  ASSUME TypeInv, Next, pc' \in Settled
  PROVE  exec'.status # "none"
<1> USE DEF Settled
<1>0. exec \in Locals BY DEF TypeInv, TypeOK
<1>1. CASE \/ PrepareWorkspace \/ StartWorkflow \/ ScanStep \/ PlanStep \/ ApplyStep \/ SkipApply
           \/ VerifyGuarded \/ StartVerify \/ Verify \/ SkipRemediation \/ StartRemediation
           \/ Remediate \/ EndVerify \/ Finish \/ Crash \/ StartOver
  <2>1. pc' \notin Settled
    BY <1>1
    DEF PrepareWorkspace, StartWorkflow, ScanStep, PlanStep, ApplyStep, SkipApply,
        VerifyGuarded, StartVerify, Verify, SkipRemediation, StartRemediation, Remediate, EndVerify,
        Finish, Crash, StartOver, Write
  <2> QED BY <2>1
<1>2. CASE \/ UploadEvidence \/ Keep \/ NoPull \/ CheckLease \/ TakeResult \/ PushBranch
           \/ RewriteRunJson \/ RewriteFails \/ RecordStep
  <2>1. exec'.status = exec.status
    BY <1>0, <1>2, RecordStays
    DEF UploadEvidence, Keep, NoPull, CheckLease, TakeResult, PushBranch, RewriteRunJson, Rewrite,
        RewriteFails, Locals
  <2>2. pc \in Settled
    BY <1>2
    DEF UploadEvidence, Keep, NoPull, CheckLease, TakeResult, PushBranch, RewriteRunJson, Rewrite,
        RewriteFails, RecordStep, Begin, Record, InsertArtifact, LoseLease, Abort, ReadForCancel,
        WriteCancel, CancelJob, At
  <2> QED BY <2>1, <2>2 DEF TypeInv
<1>3. CASE Decide
  <2>1. exec'.status = Decided BY <1>0, <1>3 DEF Decide, Locals
  <2> QED BY <2>1, DecidedIsTyped
<1>4. CASE \/ EvidenceGone \/ PushRefused \/ NoticeCancel \/ Throw \/ AnswerLost
  <2>1. \E s \in Statuses : exec' = [exec EXCEPT !.status = s]
    BY <1>4 DEF EvidenceGone, PushRefused, NoticeCancel, Throw, AnswerLost, Catch, Statuses
  <2> QED BY <1>0, <2>1 DEF Locals, Statuses
<1>5. CASE FinalizeEvidence \/ EvaluateChecklist \/ CreatePull \/ LastCheck
  <2>1. pc \in {"finalize", "checklist", "create", "last"}
    BY <1>5 DEF FinalizeEvidence, EvaluateChecklist, CreatePull, LastCheck, At
  <2>2. exec'.status = exec.status \/ exec'.status \in {"blocked", "needs_review", "cancelled"}
    BY <1>0, <1>5 DEF FinalizeEvidence, EvaluateChecklist, CreatePull, LastCheck, Catch, Locals
  <2> QED BY <2>1, <2>2 DEF TypeInv
<1> QED BY <1>1, <1>2, <1>3, <1>4, <1>5, StepsAreSorted DEF InsideStep, ExportStep

LEMMA RowsAreTyped ==
  ASSUME TypeInv, Next
  PROVE  rows' \subseteq Evidence /\ row' \in Row
<1>0. /\ rows \subseteq Evidence /\ row \in Row /\ listed \in Directory
      /\ attempt \in Attempts /\ attempt \in 0..(MaxFaults + 1)
      /\ exec.status \in Statuses \cup {"none"} /\ exec.pr \in BOOLEAN
  BY WorkflowAssumption DEF TypeInv, TypeOK, Locals, Attempts
<1>1. CASE InsideStep \/ ExportStep BY <1>0, <1>1, InsideStays, ExportStays
<1>2. CASE Begin \/ WriteCancel
  <2>1. rows' = rows /\ \E s \in {"running", "cancelled", "cancelling", row.status} :
                            row' = [row EXCEPT !.status = s]
    <3>1. row = [row EXCEPT !.status = row.status] BY <1>0 DEF Row
    <3> QED BY <1>2, <3>1 DEF Begin, WriteCancel
  <2> QED BY <1>0, <2>1 DEF Row, Statuses
<1>3. CASE Record
  <2>1. exec.status \in Statuses BY <1>0, <1>3 DEF Record, At, TypeInv, Settled
  <2>2. rows' = rows /\ row' \in {row, [status |-> exec.status, pr |-> exec.pr, by |-> attempt]}
    BY <1>3 DEF Record
  <2> QED BY <1>0, <2>1, <2>2 DEF Row
<1>4. CASE InsertArtifact
  <2>1. PICK a \in ToInsert : rows' = rows \cup {[name |-> a, content |-> listed[a], by |-> attempt]}
    BY <1>4 DEF InsertArtifact
  <2>2. a \in Artifacts BY <2>1 DEF ToInsert
  <2>3. listed[a] \in Content BY <1>0, <2>2 DEF Directory
  <2>4. row' = row BY <1>4 DEF InsertArtifact
  <2> QED BY <1>0, <2>1, <2>2, <2>3, <2>4 DEF Evidence
<1>5. CASE LoseLease \/ Abort \/ ReadForCancel \/ CancelJob \/ StartOver
  BY <1>0, <1>5 DEF LoseLease, Abort, ReadForCancel, CancelJob, StartOver
<1> QED BY <1>1, <1>2, <1>3, <1>4, <1>5, StepsAreSorted DEF RecordStep

(* Whoever takes over costs a fault before, and settles it by starting.  *)
LEMMA AttemptsAreBounded ==
  ASSUME TypeInv, Next
  PROVE  /\ attempt' \in Attempts /\ faults' \in 0..MaxFaults
         /\ attempt' + faults' + Pending' <= MaxFaults + 1
<1>0. /\ attempt \in Attempts /\ faults \in 0..MaxFaults /\ MaxFaults \in Nat
      /\ attempt + faults + Pending <= MaxFaults + 1 /\ Pending \in 0..1 /\ Pending' \in 0..1
      /\ lease \in Leases
  BY WorkflowAssumption DEF TypeInv, TypeOK, Pending
<1>4. /\ attempt \in Int /\ faults \in Int /\ MaxFaults \in Int /\ Pending \in Int /\ Pending' \in Int
      /\ attempt >= 1 /\ attempt <= MaxFaults + 1
  BY <1>0 DEF Attempts
<1>1. CASE StartOver
  <2>1. attempt' = attempt + 1 /\ faults' = faults /\ Pending = 1 /\ Pending' = 0
    BY <1>1 DEF StartOver, Pending
  <2> QED BY <1>0, <2>1 DEF Attempts
<1>2. CASE Throw \/ AnswerLost \/ RewriteFails \/ Crash \/ LoseLease \/ ReadForCancel
  <2>1. attempt' = attempt /\ faults > 0 /\ faults' = faults - 1
    BY <1>2, ExportStays DEF ExportStep, Throw, AnswerLost, RewriteFails, Crash, LoseLease,
         ReadForCancel, SpendFault
  <2>2. Pending' <= Pending + 1 BY <1>0
  <2>3. attempt' + faults' + Pending' <= MaxFaults + 1
    <3>1. \A a, f, p, q, m \in Int : a + f + p <= m + 1 /\ q <= p + 1 => a + (f - 1) + q <= m + 1
      OBVIOUS
    <3>2. attempt + (faults - 1) + Pending' <= MaxFaults + 1 BY <1>0, <1>4, <2>2, <3>1
    <3> QED BY <2>1, <3>2
  <2>4. attempt' \in Attempts /\ faults' \in 0..MaxFaults BY <1>0, <1>4, <2>1 DEF Attempts
  <2> QED BY <2>3, <2>4
<1>3. CASE \/ InsideStep \/ FinalizeEvidence \/ TakeResult \/ EvaluateChecklist \/ PushBranch
           \/ CreatePull \/ RewriteRunJson \/ Begin \/ Record \/ InsertArtifact \/ Abort
           \/ WriteCancel \/ CancelJob
  <2>1. attempt' = attempt /\ faults' = faults
    BY <1>3, InsideStays, ExportStays
    DEF ExportStep, FinalizeEvidence, TakeResult, EvaluateChecklist, PushBranch, CreatePull,
        RewriteRunJson, Rewrite, Begin, Record, InsertArtifact, Abort, WriteCancel, CancelJob
  <2>2. Pending' <= Pending
    <3>1. CASE CheckLease
      <4>1. lease' = lease /\ (pc' = "dead" => lease # "held") BY <3>1, InsideStays DEF CheckLease, InsideStep
      <4> QED BY <1>0, <4>1 DEF Pending
    <3>2. CASE CancelJob
      <4>1. lease' = "void" BY <3>2 DEF CancelJob
      <4> QED BY <1>0, <4>1 DEF Pending
    <3>3. CASE InsideStep /\ ~CheckLease
      <4>1. lease' = lease BY <3>3, InsideStays
      <4>2. pc' # "dead"
        BY <3>3
        DEF InsideStep, PrepareWorkspace, StartWorkflow, ScanStep, PlanStep, ApplyStep, SkipApply,
            VerifyGuarded, StartVerify, Verify, SkipRemediation, StartRemediation, Remediate, EndVerify,
            Decide, UploadEvidence, EvidenceGone, PushRefused, Keep, NoPull, LastCheck, Finish,
            NoticeCancel, Write, Catch
      <4> QED BY <1>0, <4>1, <4>2 DEF Pending
    <3>4. CASE \/ FinalizeEvidence \/ TakeResult \/ EvaluateChecklist \/ PushBranch \/ CreatePull
               \/ RewriteRunJson \/ Begin \/ Record \/ InsertArtifact \/ Abort \/ WriteCancel
      <4>1. lease' = lease /\ (pc' = "dead" => pc = "dead")
        BY <3>4 DEF FinalizeEvidence, TakeResult, EvaluateChecklist, PushBranch, CreatePull,
             RewriteRunJson, Rewrite, Begin, Record, InsertArtifact, Abort, WriteCancel, Elsewhere, Catch
      <4> QED BY <1>0, <4>1 DEF Pending
    <3> QED BY <1>3, <3>1, <3>2, <3>3, <3>4
  <2>3. attempt' + faults' + Pending' <= MaxFaults + 1
    <3>1. \A a, f, p, q, m \in Int : a + f + p <= m + 1 /\ q <= p => a + f + q <= m + 1
      OBVIOUS
    <3>2. attempt + faults + Pending' <= MaxFaults + 1 BY <1>0, <1>4, <2>2, <3>1
    <3> QED BY <2>1, <3>2
  <2>4. attempt' \in Attempts /\ faults' \in 0..MaxFaults BY <1>0, <1>4, <2>1 DEF Attempts
  <2> QED BY <2>3, <2>4
<1> QED BY <1>1, <1>2, <1>3, StepsAreSorted DEF ExportStep, RecordStep

LEMMA OutsideIsTyped ==
  ASSUME TypeInv, Next
  PROVE  /\ input' = input /\ lease' \in Leases /\ asked' \in {"none", "queued", "running", "job"}
         /\ remote' \in {"none", "pushed", "opened"} /\ aborted' \in BOOLEAN
<1>0. /\ lease \in Leases /\ asked \in {"none", "queued", "running", "job"}
      /\ remote \in {"none", "pushed", "opened"} /\ aborted \in BOOLEAN
  BY DEF TypeInv, TypeOK
<1>1. CASE InsideStep BY <1>0, <1>1, InsideStays
<1>2. CASE ExportStep
  <2>1. remote' \in {remote, "pushed", "opened"}
    BY <1>2 DEF ExportStep, FinalizeEvidence, TakeResult, EvaluateChecklist, PushBranch, CreatePull,
         RewriteRunJson, Rewrite, Throw, AnswerLost, RewriteFails, Crash
  <2> QED BY <1>0, <1>2, <2>1, ExportStays
<1>3. CASE RecordStep \/ StartOver
  BY <1>0, <1>3 DEF RecordStep, Begin, Record, InsertArtifact, LoseLease, Abort, ReadForCancel,
       WriteCancel, CancelJob, StartOver, Leases
<1> QED BY <1>1, <1>2, <1>3, StepsAreSorted

LEMMA InitTypes == Init => TypeInv
<1> SUFFICES ASSUME Init PROVE TypeInv OBVIOUS
<1>1. input \in Inputs /\ input \in Input BY WorkflowAssumption DEF Init
<1>2. exec \in Locals BY <1>1, FreshIsTyped DEF Init
<1>3. Empty \in Directory BY WorkflowAssumption DEF Empty, Directory, Absent, Content
<1>4. /\ attempt \in Attempts /\ faults \in 0..MaxFaults
      /\ attempt + faults + Pending <= MaxFaults + 1
  BY WorkflowAssumption DEF Init, Attempts, Pending
<1>5. row \in Row BY WorkflowAssumption DEF Init, Row
<1> QED BY <1>1, <1>2, <1>3, <1>4, <1>5
        DEF Init, TypeInv, TypeOK, Unchecked, Outside, Statuses, Leases, Settled

LEMMA StepTypes == TypeInv /\ [Next]_vars => TypeInv'
<1> SUFFICES ASSUME TypeInv, [Next]_vars PROVE TypeInv' OBVIOUS
<1>1. CASE UNCHANGED vars BY <1>1 DEF vars, TypeInv, TypeOK, Pending
<1>2. CASE Next
  <2>1. TypeOK'
    BY <1>2, PcIsTyped, LocalsAreTyped, DirectoriesAreTyped, RowsAreTyped, AttemptsAreBounded,
       OutsideIsTyped
    DEF TypeInv, TypeOK, PCs
  <2>2. input' \in Inputs BY <1>2, OutsideIsTyped DEF TypeInv
  <2> QED BY <1>2, <2>1, <2>2, AttemptsAreBounded, StatusIsGiven DEF TypeInv
<1> QED BY <1>1, <1>2

LEMMA TypeInvariant == Spec => []TypeInv
BY InitTypes, StepTypes, PTL DEF Spec

(* The execution's variables, its evidence and its rows keep their types: the  *)
(* row of the run is only ever given a status that a run has, and the rows of *)
(* evidence those of attempts that were made, however the executions ended    *)
(* (workflow-service.ts 1095-1180, 1196-2045).                                *)
THEOREM WorkflowTypes == Spec => []TypeOK
<1>1. TypeInv => TypeOK BY DEF TypeInv
<1> QED BY <1>1, TypeInvariant, PTL
-----------------------------------------------------------------------------
(* Where an execution can be *)

Early == {"claimed", "prepare", "start", "scan", "plan"}
Before == Early \cup {"apply", "skip", "verify", "verifying"}  \* nothing verified
Checking == {"verifying", "remediate", "remediating"}
Pulling == {"pull", "create", "keep"}
Ended == Outside \ {"claimed"}
Late == {"finalize", "upload", "returned", "checklist"} \cup Pulling \cup Ended

(* The outcome is written last, and tells what the execution found, unless a   *)
(* cancel went over it; a pull request is the last thing before that; a signal *)
(* is only ever given for a cancel, which stays, or for a lease that was lost, *)
(* which does not come back to the same execution.                             *)
FlowInv ==
  /\ row.by <= attempt
  /\ row.by = attempt =>
       /\ pc \in {"insert", "done", "dead"}
       /\ row.pr = exec.pr /\ (row.status = exec.status \/ Cancelled)
  /\ exec.pr => pc \in {"keep"} \cup Ended
  /\ aborted =>
       /\ pc # "claimed"
       /\ Cancelled \/ lease # "held"
       /\ pc \in {"rewrite", "lease"} /\ lease = "held" => exec.status = "cancelled"
       /\ pc = "record" \/ row.by = attempt => exec.status = "cancelled"
       /\ exec.pr \/ pc = "create" => lease # "held"

(* A pull request rests on a commit and a checklist of this execution, and     *)
(* what the checklist has seen is not touched any more.                       *)
PullInv ==
  /\ exec.checklist # "none" => pc \in Pulling \cup Ended
  /\ exec.checklist = "passed" =>
       /\ exec.edit.files <= input.policy.maxFiles /\ exec.edit.lines <= input.policy.maxLines
       /\ disk["checklist"].attempt = attempt
  /\ pc = "create" \/ exec.pr => exec.commit > 0 /\ exec.checklist = "passed"
  /\ exec.pr => remote = "opened"
  /\ exec.guarded => pc \notin Checking
  /\ exec.guarded /\ exec.commit > 0 => exec.edit.files > 0
  /\ pc \in Early \cup {"apply", "skip"} => exec.commit = 0 /\ ~exec.guarded /\ ~exec.rules

LEMMA FlowStep ==
  ASSUME TypeInv, FlowInv, Next
  PROVE  FlowInv'
<1> USE DEF Checkpoints, Unchecked, Outside, Ended
<1>0. exec \in Locals /\ aborted \in BOOLEAN /\ row \in Row /\ attempt \in Nat /\ row.by \in Nat
  BY WorkflowAssumption DEF TypeInv, TypeOK, Row, Attempts
<1>1. CASE \/ PrepareWorkspace \/ StartWorkflow \/ ScanStep \/ PlanStep \/ ApplyStep \/ SkipApply
           \/ VerifyGuarded \/ StartVerify \/ Verify \/ SkipRemediation \/ StartRemediation
           \/ Remediate \/ EndVerify \/ Decide \/ UploadEvidence
  <2>1. pc \notin {"keep", "create"} \cup Outside /\ pc' \notin {"keep", "create"} \cup Outside
        /\ exec'.pr = exec.pr
    BY <1>0, <1>1
    DEF PrepareWorkspace, StartWorkflow, ScanStep, PlanStep, ApplyStep, SkipApply, VerifyGuarded,
        StartVerify, Verify, SkipRemediation, StartRemediation, Remediate, EndVerify, Decide,
        UploadEvidence, Write, At, Locals
  <2>2. UNCHANGED <<row, lease, aborted, attempt>> BY <1>1, InsideStays DEF InsideStep
  <2> QED BY <2>1, <2>2 DEF FlowInv, Cancelled
<1>2. CASE \/ NoPull \/ Keep \/ EvidenceGone \/ PushRefused \/ NoticeCancel \/ Throw \/ AnswerLost
           \/ FinalizeEvidence \/ TakeResult \/ EvaluateChecklist
  <2>1. /\ pc \notin Outside
        /\ pc' \in {"upload", "returned", "checklist", "pull", "last"}
        /\ pc' # "last" => pc # "keep"
        /\ exec'.pr = exec.pr
    BY <1>0, <1>2
    DEF NoPull, Keep, EvidenceGone, PushRefused, NoticeCancel, Throw, AnswerLost, FinalizeEvidence,
        TakeResult, EvaluateChecklist, Catch, At, Locals
  <2>2. UNCHANGED <<row, lease, aborted, attempt>>
    BY <1>2, InsideStays, ExportStays DEF InsideStep, ExportStep
  <2> QED BY <2>1, <2>2 DEF FlowInv, Cancelled
<1>3. CASE PushBranch
  <2>1. pc = "pull" /\ ~Cancelled /\ pc' = "create" /\ UNCHANGED <<exec, row, lease, aborted, attempt>>
    BY <1>3 DEF PushBranch, At, Elsewhere
  <2> QED BY <2>1 DEF FlowInv, Cancelled
<1>4. CASE CreatePull
  <2>1. pc = "create" /\ pc' = "keep" /\ UNCHANGED <<row, lease, aborted, attempt>>
    BY <1>4 DEF CreatePull, At, Elsewhere
  <2> QED BY <2>1 DEF FlowInv, Cancelled
<1>5. CASE LastCheck
  <2>1. pc = "last" /\ pc' = "rewrite" /\ UNCHANGED <<row, lease, aborted, attempt>>
        /\ exec' = [exec EXCEPT !.status = IF Cancelled THEN "cancelled" ELSE exec.status]
    BY <1>5 DEF LastCheck, At, Inside, Elsewhere
  <2>2. exec'.pr = exec.pr /\ (Cancelled => exec'.status = "cancelled") BY <1>0, <2>1 DEF Locals
  <2>3. row.by # attempt BY <2>1 DEF FlowInv
  <2> QED BY <2>1, <2>2, <2>3 DEF FlowInv, Cancelled
<1>6. CASE RewriteRunJson \/ RewriteFails
  <2>1. exec'.pr = exec.pr /\ exec'.status = exec.status
    BY <1>0, <1>6 DEF RewriteRunJson, Rewrite, RewriteFails, Locals
  <2>2. UNCHANGED <<row, lease, aborted, attempt>> /\ pc = "rewrite" /\ pc' = "lease"
    BY <1>6 DEF RewriteRunJson, Rewrite, RewriteFails, At, Elsewhere
  <2> QED BY <2>1, <2>2 DEF FlowInv, Cancelled
<1>7. CASE CheckLease
  <2>1. /\ UNCHANGED <<exec, row, lease, aborted, attempt>> /\ pc = "lease"
        /\ pc' = IF lease = "held" THEN "record" ELSE "dead"
    BY <1>7 DEF CheckLease, At, Inside, Elsewhere
  <2> QED BY <2>1 DEF FlowInv, Cancelled
<1>8. CASE Record
  <2>1. /\ UNCHANGED <<exec, lease, aborted, attempt>> /\ pc = "record" /\ pc' = "insert"
        /\ \/ row' = row
           \/ row' = [status |-> exec.status, pr |-> exec.pr, by |-> attempt]
    BY <1>8 DEF Record, At
  <2>2. CASE row' = row BY <2>1, <2>2 DEF FlowInv, Cancelled
  <2>3. CASE row' = [status |-> exec.status, pr |-> exec.pr, by |-> attempt]
    <3>1. row'.status = exec.status /\ row'.pr = exec.pr /\ row'.by = attempt BY <2>3
    <3>2. aborted => exec.status = "cancelled" BY <2>1 DEF FlowInv
    <3> QED BY <1>0, <2>1, <3>1, <3>2 DEF FlowInv, Cancelled
  <2> QED BY <2>1, <2>2, <2>3
<1>9. CASE InsertArtifact \/ Finish \/ Crash
  <2>1. /\ UNCHANGED <<exec, row, lease, aborted, attempt>> /\ pc' \in {"insert", "done", "dead"}
        /\ pc' = "insert" \/ pc' = "done" => pc = "insert"
        /\ exec.pr => pc' \in {"keep"} \cup Ended
    BY <1>9 DEF InsertArtifact, Finish, Crash, At, Inside, Elsewhere, FlowInv
  <2> QED BY <2>1 DEF FlowInv, Cancelled
<1>10. CASE StartOver
  <2>1. ~exec'.pr /\ ~aborted' /\ row' = row /\ attempt' = attempt + 1
    BY <1>10 DEF StartOver, Fresh
  <2> QED BY <1>0, <2>1 DEF FlowInv
<1>11. CASE Begin
  <2>1. /\ pc = "claimed" /\ ~exec.pr /\ ~aborted /\ row.by # attempt
        /\ UNCHANGED <<exec, lease, aborted, attempt>>
    BY <1>11 DEF Begin, At, FlowInv
  <2>2. row'.by = row.by BY <1>0, <1>11 DEF Begin, Row
  <2> QED BY <2>1, <2>2 DEF FlowInv
<1>12. CASE WriteCancel
  <2>1. /\ UNCHANGED <<pc, exec, lease, aborted, attempt>>
        /\ row' = [row EXCEPT !.status = IF asked = "queued" THEN "cancelled" ELSE "cancelling"]
    BY <1>12 DEF WriteCancel
  <2>2. row'.by = row.by /\ row'.pr = row.pr /\ row'.status \in {"cancelling", "cancelled"}
    BY <1>0, <2>1 DEF Row
  <2> QED BY <2>1, <2>2 DEF FlowInv, Cancelled
<1>13. CASE LoseLease \/ CancelJob \/ ReadForCancel
  <2>1. UNCHANGED <<pc, exec, row, aborted, attempt>> /\ (lease' = lease \/ lease' # "held")
    BY <1>13 DEF LoseLease, CancelJob, ReadForCancel
  <2> QED BY <2>1 DEF FlowInv, Cancelled
<1>14. CASE Abort
  <2>1. /\ Cancelled \/ lease # "held"
        /\ pc \notin {"keep", "create"} \cup Outside /\ UNCHANGED <<pc, exec, lease, row, attempt>>
    BY <1>14 DEF Abort, Listening
  <2> QED BY <2>1 DEF FlowInv, Cancelled
<1> QED
  BY <1>1, <1>2, <1>3, <1>4, <1>5, <1>6, <1>7, <1>8, <1>9, <1>10, <1>11, <1>12, <1>13, <1>14
  DEF Next, Execute, Disturb, CancelRun

LEMMA FlowInvariant == Spec => []FlowInv
<1>1. Init => FlowInv BY DEF Init, FlowInv, Fresh, Ended
<1>2. TypeInv /\ FlowInv /\ [Next]_vars => FlowInv'
  <2> SUFFICES ASSUME TypeInv, FlowInv, [Next]_vars PROVE FlowInv' OBVIOUS
  <2>1. CASE Next BY <2>1, FlowStep
  <2>2. CASE UNCHANGED vars BY <2>2 DEF vars, FlowInv, Cancelled
  <2> QED BY <2>1, <2>2
<1> QED BY <1>1, <1>2, TypeInvariant, PTL DEF Spec

(* For every run: a verification that was aborted is never taken as a result,  *)
(* although nothing tells the status it gave from a real one and the signal is *)
(* given for two reasons: a cancel stays, and the last check comes after       *)
(* whatever failed; a lease that was lost does not come back, and the check of *)
(* it comes after that.  A pull request of such a verification is one of an    *)
(* execution without the lease (workflow-service.ts 1306-1336, 1381-1420,     *)
(* 1546-1596, 1883-1926).                                                     *)
THEOREM AbortedRunsGiveNoResult == Spec => []AbortedIsNoResult
<1>1. FlowInv => AbortedIsNoResult BY DEF FlowInv, AbortedIsNoResult, Cancelled
<1> QED BY <1>1, FlowInvariant, PTL

LEMMA PullStep ==
  ASSUME TypeInv, FlowInv, PullInv, Next
  PROVE  PullInv'
<1> USE DEF Checkpoints, Unchecked, Outside, Ended, Pulling, Early, Checking
<1>0. exec \in Locals /\ disk \in Directory BY DEF TypeInv, TypeOK
<1>1. CASE \/ PrepareWorkspace \/ StartWorkflow \/ ScanStep \/ PlanStep \/ StartVerify
           \/ SkipRemediation \/ StartRemediation \/ EndVerify
  <2>1. exec' = exec /\ UNCHANGED <<input, remote, attempt>>
        /\ pc \notin Pulling \cup Outside /\ pc' # "create"
        /\ (pc' \in Early \cup {"apply", "skip"} => pc \in Early)
        /\ (pc' \in Checking => pc \in Checking \/ ~exec.guarded)
    BY <1>1 DEF PrepareWorkspace, StartWorkflow, ScanStep, PlanStep, StartVerify, SkipRemediation,
                StartRemediation, EndVerify, Write, At, Inside, Elsewhere
  <2> QED BY <2>1 DEF PullInv
<1>2. CASE ApplyStep
  <2>1. PICK edit \in Edits, commit \in 0..1 :
          /\ edit.files = 0 => commit = 0
          /\ exec' = [exec EXCEPT !.edit = edit, !.commit = commit,
                                  !.guarded = Guarded(input.scan, input.policy)]
    BY <1>2 DEF ApplyStep
  <2>2. edit \in Edit BY WorkflowAssumption
  <2>3. /\ pc = "apply" /\ pc' = "verify" /\ UNCHANGED <<input, remote, attempt>>
        /\ exec'.checklist = exec.checklist /\ exec'.pr = exec.pr
        /\ exec'.edit = edit /\ exec'.commit = commit
    BY <1>0, <1>2, <2>1 DEF ApplyStep, Write, At, Inside, Elsewhere, Locals
  <2>4. commit > 0 => edit.files > 0
    BY <2>1, <2>2 DEF Edit
  <2>5. ~exec.pr BY <2>3 DEF PullInv
  <2> QED BY <2>3, <2>4, <2>5 DEF PullInv
<1>3. CASE SkipApply
  <2>1. /\ pc = "skip" /\ pc' \in {"verified", "decide"} /\ UNCHANGED <<input, remote, attempt>>
        /\ exec'.checklist = exec.checklist /\ exec'.pr = exec.pr
        /\ exec'.commit = exec.commit /\ exec'.guarded = exec.guarded
    BY <1>0, <1>3 DEF SkipApply, Write, At, Inside, Elsewhere, Locals
  <2> QED BY <2>1 DEF PullInv
<1>4. CASE VerifyGuarded \/ Verify
  <2>1. /\ pc' \in {"verified", "remediate"} /\ UNCHANGED <<input, remote, attempt>>
        /\ exec'.checklist = exec.checklist /\ exec'.pr = exec.pr /\ exec'.edit = exec.edit
        /\ exec'.commit = exec.commit /\ exec'.guarded = exec.guarded /\ exec'.rules = exec.rules
        /\ pc \notin Pulling \cup Outside /\ (pc' = "remediate" => pc = "verifying")
    BY <1>0, <1>4 DEF VerifyGuarded, Verify, Write, At, Inside, Elsewhere, Locals
  <2> QED BY <2>1 DEF PullInv
<1>5. CASE Remediate
  <2>1. /\ pc = "remediating" /\ pc' = "verified" /\ UNCHANGED <<input, remote, attempt>>
        /\ exec'.checklist = exec.checklist /\ exec'.pr = exec.pr /\ exec'.edit = exec.edit
        /\ exec'.guarded = exec.guarded
    BY <1>0, <1>5 DEF Remediate, Write, At, Inside, Elsewhere, Locals
  <2> QED BY <2>1 DEF PullInv
<1>6. CASE Decide \/ FinalizeEvidence \/ UploadEvidence \/ TakeResult \/ EvidenceGone
  <2>1. /\ pc \notin Pulling \cup Outside
        /\ pc' \in {"finalize", "upload", "returned", "checklist", "last"}
        /\ UNCHANGED <<input, remote, attempt>>
        /\ exec'.checklist = exec.checklist /\ exec'.pr = exec.pr /\ exec'.edit = exec.edit
        /\ exec'.commit = exec.commit /\ exec'.guarded = exec.guarded
    BY <1>0, <1>6
    DEF Decide, FinalizeEvidence, UploadEvidence, TakeResult, EvidenceGone, At, Inside, Elsewhere,
        Catch, Locals
  <2> QED BY <2>1 DEF PullInv
<1>7. CASE EvaluateChecklist
  <2>1. /\ pc = "checklist" /\ pc' \in {"pull", "last"} /\ UNCHANGED <<input, remote, attempt>>
        /\ exec'.pr = exec.pr /\ exec'.edit = exec.edit
        /\ exec'.commit = exec.commit /\ exec'.guarded = exec.guarded
        /\ exec'.checklist = "passed" => ChecklistPasses
        /\ disk' = With({"checklist"})
    BY <1>0, <1>7 DEF EvaluateChecklist, At, Elsewhere, Locals
  <2>2. disk'["checklist"].attempt = attempt
    BY <2>1 DEF With, Artifacts, Plain
  <2>3. ~exec.pr BY <2>1 DEF PullInv
  <2> QED BY <2>1, <2>2, <2>3 DEF PullInv, ChecklistPasses
<1>8. CASE NoPull \/ Keep \/ PushRefused \/ LastCheck \/ NoticeCancel \/ Throw
  <2>1. /\ pc' \in {"last", "rewrite"}
        /\ UNCHANGED <<input, remote, attempt, disk>>
        /\ exec'.checklist = exec.checklist /\ exec'.pr = exec.pr /\ exec'.edit = exec.edit
        /\ exec'.commit = exec.commit /\ exec'.guarded = exec.guarded
    BY <1>0, <1>8 DEF NoPull, Keep, PushRefused, LastCheck, NoticeCancel, Throw, At, Inside,
         Elsewhere, Catch, Locals
  <2> QED BY <2>1 DEF PullInv
<1>9. CASE AnswerLost
  <2>1. /\ pc = "create" /\ pc' = "last"
        /\ UNCHANGED <<input, attempt, disk>>
        /\ exec'.checklist = exec.checklist /\ exec'.pr = exec.pr /\ exec'.edit = exec.edit
        /\ exec'.commit = exec.commit /\ exec'.guarded = exec.guarded
    BY <1>0, <1>9 DEF AnswerLost, At, Elsewhere, Catch, Locals
  <2>2. ~exec.pr BY <2>1 DEF FlowInv
  <2> QED BY <2>1, <2>2 DEF PullInv
<1>10. CASE PushBranch
  <2>1. /\ pc = "pull" /\ pc' = "create" /\ MayOpenPull
        /\ UNCHANGED <<input, attempt, disk, exec>>
    BY <1>10 DEF PushBranch, At, Elsewhere
  <2>2. ~exec.pr BY <2>1 DEF FlowInv
  <2> QED BY <2>1, <2>2 DEF PullInv, MayOpenPull
<1>11. CASE CreatePull
  <2>1. /\ pc = "create" /\ pc' = "keep" /\ remote' = "opened"
        /\ UNCHANGED <<input, attempt, disk>>
        /\ exec' = [exec EXCEPT !.pr = TRUE]
    BY <1>11 DEF CreatePull, At, Elsewhere
  <2>2. /\ exec'.checklist = exec.checklist /\ exec'.edit = exec.edit
        /\ exec'.commit = exec.commit /\ exec'.guarded = exec.guarded
    BY <1>0, <2>1 DEF Locals
  <2> QED BY <2>1, <2>2 DEF PullInv
<1>12. CASE RewriteRunJson \/ RewriteFails
  <2>1. /\ pc = "rewrite" /\ pc' = "lease" /\ UNCHANGED <<input, remote, attempt>>
        /\ exec'.checklist = exec.checklist /\ exec'.pr = exec.pr /\ exec'.edit = exec.edit
        /\ exec'.commit = exec.commit /\ exec'.guarded = exec.guarded
    BY <1>0, <1>12 DEF RewriteRunJson, Rewrite, RewriteFails, At, Elsewhere, Locals
  <2>2. disk'["checklist"] = disk["checklist"]
    BY <1>0, <1>12 DEF RewriteRunJson, Rewrite, RewriteFails, Directory, Artifacts
  <2> QED BY <2>1, <2>2 DEF PullInv
<1>13. CASE CheckLease \/ Record \/ InsertArtifact \/ Finish \/ Crash
  <2>1. /\ pc' \in {"record", "insert", "done", "dead"}
        /\ UNCHANGED <<input, exec, disk, remote, attempt>>
    BY <1>13 DEF CheckLease, Record, InsertArtifact, Finish, Crash, At, Inside, Elsewhere
  <2> QED BY <2>1 DEF PullInv
<1>14. CASE StartOver
  <2>1. exec' = Fresh /\ pc' = "claimed" BY <1>14 DEF StartOver
  <2>2. exec'.checklist = "none" /\ ~exec'.pr /\ ~exec'.guarded /\ exec'.commit = 0 /\ ~exec'.rules
    BY <2>1 DEF Fresh
  <2> QED BY <2>1, <2>2 DEF PullInv
<1>15. CASE Begin
  <2>1. /\ pc = "claimed" /\ pc' \in {"prepare", "done"}
        /\ UNCHANGED <<input, exec, disk, remote, attempt>>
    BY <1>15 DEF Begin, At
  <2> QED BY <2>1 DEF PullInv
<1>16. CASE LoseLease \/ Abort \/ ReadForCancel \/ WriteCancel \/ CancelJob
  <2>1. UNCHANGED <<input, pc, exec, disk, remote, attempt>>
    BY <1>16 DEF LoseLease, Abort, ReadForCancel, WriteCancel, CancelJob
  <2> QED BY <2>1 DEF PullInv
<1> QED
  BY <1>1, <1>2, <1>3, <1>4, <1>5, <1>6, <1>7, <1>8, <1>9, <1>10, <1>11, <1>12, <1>13, <1>14, <1>15,
     <1>16
  DEF Next, Execute, Disturb, CancelRun

LEMMA PullInvariant == Spec => []PullInv
<1>1. Init => PullInv BY DEF Init, PullInv, Fresh, Checking
<1>2. TypeInv /\ FlowInv /\ PullInv /\ [Next]_vars => PullInv'
  <2> SUFFICES ASSUME TypeInv, FlowInv, PullInv, [Next]_vars PROVE PullInv' OBVIOUS
  <2>1. CASE Next BY <2>1, PullStep
  <2>2. CASE UNCHANGED vars BY <2>2 DEF vars, PullInv
  <2> QED BY <2>1, <2>2
<1> QED BY <1>1, <1>2, TypeInvariant, FlowInvariant, PTL DEF Spec

(* For every policy and edit, however often the execution starts over: a pull  *)
(* request rests on a commit, and on a checklist that passed on it, of the     *)
(* very execution that opens it (workflow-service.ts 1478-1562).              *)
THEOREM PullsAreBacked == Spec => []PullIsBacked
<1>1. PullInv => PullIsBacked BY DEF PullInv, PullIsBacked
<1> QED BY <1>1, PullInvariant, PTL
-----------------------------------------------------------------------------
(* The decisions *)

(* 40 points for the compilation, 25 for the tests, 15 for the static checks   *)
(* and 10 for a small change: above 65 neither of the first two can be missed. *)
LEMMA PointsAreEarned ==
  ASSUME NEW verify, NEW files \in Nat, NEW lines \in Nat, NEW violations \in Nat, NEW policy,
         Score(verify, files, lines, violations, policy) > 65
  PROVE  /\ verify.compile.status = "passed"
         /\ verify.tests.status = "passed" \/ (~verify.hasTests /\ ~policy.requireTests)
<1> DEFINE c == CompilePoints(verify)
           t == TestPoints(verify, policy)
           s == StaticPoints(verify)
           z == ChangeSizePoints(files, lines)
           v == 15 * violations
           sum == c + t + s + z - v
<1>1. c \in {0, 40} /\ t \in {0, 10, 25} /\ s \in {0, 15}
  BY DEF CompilePoints, TestPoints, StaticPoints
<1>2. z \in 0..10
  <2> DEFINE q == lines \div 100
  <2>1. q \in Nat OBVIOUS
  <2>2. z = IF 0 > 10 - q - files THEN 0 ELSE 10 - q - files BY DEF ChangeSizePoints, Most
  <2> HIDE DEF q, z
  <2> QED BY <2>1, <2>2
<1>3. v \in Nat OBVIOUS
<1>4. (IF 0 > (IF 100 < sum THEN 100 ELSE sum) THEN 0 ELSE IF 100 < sum THEN 100 ELSE sum) > 65
  BY DEF Score, Least, Most
<1>5. c = 40 => verify.compile.status = "passed" BY DEF CompilePoints
<1>6. t = 25 => verify.tests.status = "passed" BY DEF TestPoints
<1>7. t = 10 => ~verify.hasTests /\ ~policy.requireTests BY DEF TestPoints
<1> HIDE DEF c, t, s, z, v
<1>8. c = 40 /\ t # 0 BY <1>1, <1>2, <1>3, <1>4
<1> QED BY <1>1, <1>5, <1>6, <1>7, <1>8

LEMMA DecisionsAreFinite ==
  Cardinality(Denied(Decisions)) \in Nat
<1>1. ASSUME NEW a, NEW b, NEW c PROVE IsFiniteSet({a, b, c})
  <2>1. IsFiniteSet({a} \cup {b}) BY FS_Singleton, FS_AddElement
  <2>2. IsFiniteSet(({a} \cup {b}) \cup {c}) BY <2>1, FS_AddElement
  <2>3. {a, b, c} = ({a} \cup {b}) \cup {c} OBVIOUS
  <2> QED BY <2>2, <2>3
<1>2. IsFiniteSet(Planned) BY <1>1 DEF Planned, PlanDecisions
<1>3. IsFiniteSet(VerifyDecisions(exec.verify, input.policy)) BY <1>1 DEF VerifyDecisions
<1> DEFINE extra == IF input.mode = "apply" /\ ~exec.guarded
                      THEN VerifyDecisions(exec.verify, input.policy) ELSE {}
<1>4. IsFiniteSet(extra) BY <1>3, FS_EmptySet
<1>5. Decisions = Planned \cup extra BY DEF Decisions
<1> HIDE DEF extra
<1>6. IsFiniteSet(Decisions) BY <1>2, <1>4, <1>5, FS_Union
<1>7. Denied(Decisions) \in SUBSET Decisions BY DEF Denied
<1>8. IsFiniteSet(Denied(Decisions)) BY <1>6, <1>7, FS_Subset
<1> QED BY <1>8, FS_CardinalityType

(* The status is what the decisions and the score gave, until the checklist    *)
(* may take a completion back; what they were made from stays.                *)
StatusInv ==
  /\ pc \notin Late => exec.status = "none"
  /\ pc \in {"finalize", "upload", "returned", "checklist"} => exec.status = Decided
  /\ (pc \in Pulling \cup (Ended \ {"dead"}) \/ row.by = attempt) /\ exec.status = "completed" =>
       /\ Decided = "completed"
       /\ input.mode = "apply" => exec.checklist = "passed"

(* What is not verified has no verdict: before the checks are run, in plan     *)
(* mode, and in the guarded mode.  A build without a command is not compiled.  *)
VerifyInv ==
  /\ pc \in Before => exec.verify = Unverified(input.scan)
  /\ input.mode = "plan" =>
       /\ exec.verify = Unverified(input.scan)
       /\ pc \notin {"apply", "verify", "verified", "checklist"} \cup Pulling \cup Checking
  /\ exec.guarded => exec.verify.compile = NotRun /\ exec.verify.tests = NotRun
  /\ exec.verify.hasTests = input.scan.hasTests
  /\ exec.verify.compile.status = "passed" => HasCommand(input.scan)

DecisionInv == StatusInv /\ VerifyInv

(* What the decisions allow to complete. *)
LEMMA CompletionIsEarned ==
  ASSUME TypeInv, DecisionInv, Decided = "completed", input.policy.pass > 65
  PROVE  /\ input.mode = "apply" /\ ~exec.guarded
         /\ Disposition(input.scan, input.policy) = "supported"
         /\ exec.verify.compile.status = "passed"
         /\ \/ exec.verify.tests.status = "passed"
            \/ ~input.scan.hasTests /\ ~input.policy.requireTests
         /\ exec.verify.static.status # "failed"
         /\ ~IsBlocked(input.mode, Decisions, exec.verify, input.policy)
<1>1. /\ ~IsBlocked(input.mode, Decisions, exec.verify, input.policy)
      /\ ~Blocking(Decisions)
      /\ ~(Score(exec.verify, exec.edit.files, exec.edit.lines, Cardinality(Denied(Decisions)),
                 input.policy) < input.policy.pass)
  BY DEF Decided, StatusOf
<1>2. exec.edit.files \in Nat /\ exec.edit.lines \in Nat
  BY DEF TypeInv, TypeOK, Locals, Edit
<1>3. input.policy.pass \in Int BY DEF TypeInv, TypeOK, Input, Policies
<1> DEFINE n == Cardinality(Denied(Decisions))
           score == Score(exec.verify, exec.edit.files, exec.edit.lines, n, input.policy)
<1>4. n \in Nat BY DecisionsAreFinite
<1>5. score \in Int
  <2>1. CompilePoints(exec.verify) \in Int BY DEF CompilePoints
  <2>2. TestPoints(exec.verify, input.policy) \in Int BY DEF TestPoints
  <2>3. StaticPoints(exec.verify) \in Int BY DEF StaticPoints
  <2>4. ChangeSizePoints(exec.edit.files, exec.edit.lines) \in Int
    <3> DEFINE q == exec.edit.lines \div 100
               f == exec.edit.files
    <3>1. q \in Int /\ f \in Int BY <1>2
    <3>2. ChangeSizePoints(exec.edit.files, exec.edit.lines) = Most(0, 10 - q - f)
      BY DEF ChangeSizePoints
    <3> HIDE DEF q, f
    <3> QED BY <3>1, <3>2 DEF Most
  <2> HIDE DEF n
  <2> QED BY <1>4, <2>1, <2>2, <2>3, <2>4 DEF Score, Least, Most
<1>6. score > 65
  <2> HIDE DEF score
  <2>1. ~(score < input.policy.pass) BY <1>1 DEF score
  <2> QED BY <1>3, <1>5, <2>1
<1>7. /\ exec.verify.compile.status = "passed"
      /\ exec.verify.tests.status = "passed"
           \/ (~exec.verify.hasTests /\ ~input.policy.requireTests)
  BY <1>2, <1>4, <1>6, PointsAreEarned
<1>8. input.mode = "apply" /\ ~exec.guarded
  <2>1. NotRun.status # "passed" BY DEF NotRun
  <2>2. ~exec.guarded BY <1>7, <2>1 DEF DecisionInv, VerifyInv
  <2>3. input.mode \in {"plan", "apply"} BY DEF TypeInv, TypeOK, Input
  <2>4. input.mode # "plan" BY <1>7, <2>1 DEF DecisionInv, VerifyInv, Unverified
  <2> QED BY <2>2, <2>3, <2>4
<1>9. Disposition(input.scan, input.policy) = "supported"
  <2>1. SUFFICES ASSUME Disposition(input.scan, input.policy) # "supported" PROVE FALSE OBVIOUS
  <2>2. Decision("allowed_build_system", "deny") \in Decisions
    BY <2>1 DEF Decisions, Planned, PlanDecisions
  <2> QED BY <1>1, <2>2 DEF Blocking, Decision
<1>10. exec.verify.static.status # "failed"
  <2>1. SUFFICES ASSUME exec.verify.static.status = "failed" PROVE FALSE OBVIOUS
  <2>2. Decision("static_checks", "deny") \in Decisions
    BY <1>8, <2>1 DEF Decisions, VerifyDecisions
  <2> QED BY <1>1, <2>2 DEF Blocking, Decision
<1> QED BY <1>1, <1>7, <1>8, <1>9, <1>10 DEF DecisionInv, VerifyInv
LEMMA DecidedStays ==
  ASSUME input' = input, exec'.verify = exec.verify, exec'.edit = exec.edit,
         exec'.guarded = exec.guarded
  PROVE  Decided' = Decided
BY DEF Decided, Decisions, Planned

LEMMA StatusStep ==
  ASSUME TypeInv, FlowInv, StatusInv, VerifyInv, Next
  PROVE  StatusInv'
<1> USE DEF Checkpoints, Unchecked, Outside, Ended, Pulling, Late
<1>0. exec \in Locals /\ row \in Row /\ attempt \in Nat /\ row.by \in Nat
  BY WorkflowAssumption DEF TypeInv, TypeOK, Row, Attempts
<1>a. row.by = attempt => pc \in {"insert", "done", "dead"} BY DEF FlowInv
<1>1. CASE \/ PrepareWorkspace \/ StartWorkflow \/ ScanStep \/ PlanStep \/ ApplyStep \/ SkipApply
           \/ VerifyGuarded \/ StartVerify \/ Verify \/ SkipRemediation \/ StartRemediation
           \/ Remediate \/ EndVerify
  <2>1. pc \notin Late /\ pc' \notin Late /\ exec'.status = exec.status
    BY <1>0, <1>1
    DEF PrepareWorkspace, StartWorkflow, ScanStep, PlanStep, ApplyStep, SkipApply, VerifyGuarded,
        StartVerify, Verify, SkipRemediation, StartRemediation, Remediate, EndVerify, Write, At, Locals
  <2>2. UNCHANGED <<row, attempt>> BY <1>1, InsideStays DEF InsideStep
  <2> QED BY <1>a, <2>1, <2>2 DEF StatusInv
<1>2. CASE Decide
  <2>1. /\ pc = "decide" /\ pc' = "finalize" /\ UNCHANGED <<input, row, attempt>>
        /\ exec'.status = Decided /\ exec'.verify = exec.verify /\ exec'.edit = exec.edit
        /\ exec'.guarded = exec.guarded
    BY <1>0, <1>2 DEF Decide, At, Inside, Elsewhere, Locals
  <2> QED BY <1>a, <2>1, DecidedStays DEF StatusInv
<1>3. CASE UploadEvidence \/ TakeResult \/ (FinalizeEvidence /\ pc' # "last")
  <2>1. /\ pc \in {"finalize", "upload", "returned"} /\ UNCHANGED <<input, exec, row, attempt>>
        /\ pc' \in {"upload", "returned", "checklist", "last"}
        /\ pc' = "last" => input.mode # "apply"
    BY <1>3 DEF UploadEvidence, TakeResult, FinalizeEvidence, Catch, Inside, Elsewhere, At
  <2>2. Decided' = Decided BY <2>1, DecidedStays
  <2> QED BY <1>a, <2>1, <2>2 DEF StatusInv
<1>4. CASE \/ NoticeCancel \/ Throw \/ AnswerLost \/ EvidenceGone \/ PushRefused
           \/ (FinalizeEvidence /\ pc' = "last")
  <2>1. pc' = "last" /\ \E s \in {"cancelled", "blocked", "failed"} : exec' = [exec EXCEPT !.status = s]
    BY <1>4 DEF NoticeCancel, Throw, AnswerLost, EvidenceGone, PushRefused, FinalizeEvidence, Catch
  <2>2. exec'.status # "completed" BY <1>0, <2>1 DEF Locals
  <2> QED BY <2>1, <2>2 DEF StatusInv
<1>5. CASE EvaluateChecklist
  <2>1. /\ pc = "checklist" /\ pc' \in {"pull", "last"} /\ UNCHANGED <<input, row, attempt>>
        /\ exec'.verify = exec.verify /\ exec'.edit = exec.edit /\ exec'.guarded = exec.guarded
        /\ exec'.status = "completed" => exec.status = "completed" /\ exec'.checklist = "passed"
    BY <1>0, <1>5 DEF EvaluateChecklist, At, Elsewhere, Locals
  <2> QED BY <2>1, DecidedStays DEF StatusInv
<1>6. CASE PushBranch \/ CreatePull \/ Keep \/ NoPull \/ LastCheck \/ RewriteRunJson \/ RewriteFails
           \/ CheckLease \/ Record \/ InsertArtifact \/ Finish
  <2>1. /\ pc \in Pulling \cup (Ended \ {"dead"}) /\ pc' \in Pulling \cup Ended /\ input' = input
        /\ exec'.verify = exec.verify /\ exec'.edit = exec.edit /\ exec'.guarded = exec.guarded
        /\ exec'.checklist = exec.checklist
        /\ exec'.status = "completed" => exec.status = "completed"
    BY <1>0, <1>6
    DEF PushBranch, CreatePull, Keep, NoPull, LastCheck, RewriteRunJson, Rewrite, RewriteFails,
        CheckLease, Record, InsertArtifact, Finish, At, Inside, Elsewhere, Locals
  <2>2. Decided' = Decided BY <2>1, DecidedStays
  <2> QED BY <2>1, <2>2 DEF StatusInv
<1>7. CASE Crash
  <2>1. pc' = "dead" /\ UNCHANGED <<input, exec, row, attempt>> BY <1>7 DEF Crash, Elsewhere
  <2>2. Decided' = Decided BY <2>1, DecidedStays
  <2> QED BY <2>1, <2>2 DEF StatusInv
<1>8. CASE StartOver
  <2>1. pc' = "claimed" /\ exec'.status = "none" BY <1>8 DEF StartOver, Fresh
  <2> QED BY <2>1 DEF StatusInv
<1>9. CASE Begin
  <2>1. pc = "claimed" /\ pc' \in {"prepare", "done"} /\ UNCHANGED <<input, exec>> BY <1>9 DEF Begin, At
  <2>2. exec'.status = "none" BY <2>1 DEF StatusInv
  <2> QED BY <2>1, <2>2 DEF StatusInv
<1>10. CASE LoseLease \/ Abort \/ ReadForCancel \/ WriteCancel \/ CancelJob
  <2>1. UNCHANGED <<input, pc, exec, attempt>>
    BY <1>10 DEF LoseLease, Abort, ReadForCancel, WriteCancel, CancelJob
  <2>2. row'.by = row.by
    BY <1>0, <1>10 DEF LoseLease, Abort, ReadForCancel, WriteCancel, CancelJob, Row
  <2> QED BY <2>1, <2>2, DecidedStays DEF StatusInv
<1> QED
  BY <1>1, <1>2, <1>3, <1>4, <1>5, <1>6, <1>7, <1>8, <1>9, <1>10
  DEF Next, Execute, Disturb, CancelRun

LEMMA VerifyStep ==
  ASSUME TypeInv, PullInv, VerifyInv, Next
  PROVE  VerifyInv'
<1> USE DEF Checkpoints, Unchecked, Outside, Ended, Pulling, Early, Before, Checking
<1>0. exec \in Locals /\ input \in Inputs /\ input \in Input /\ aborted \in BOOLEAN
      /\ input' = input
  BY OutsideIsTyped DEF TypeInv, TypeOK
<1>1. CASE \/ PrepareWorkspace \/ StartWorkflow \/ ScanStep \/ PlanStep \/ StartVerify
           \/ SkipRemediation \/ StartRemediation \/ EndVerify
  <2>1. /\ exec' = exec /\ (pc' \in Before => pc \in Before) /\ pc' \notin {"checklist"} \cup Pulling
        /\ pc' \in {"apply", "verify", "verified"} \cup Checking =>
             \/ pc \in {"verify", "verified"} \cup Checking
             \/ input.mode = "apply"
    BY <1>1 DEF PrepareWorkspace, StartWorkflow, ScanStep, PlanStep, StartVerify, SkipRemediation,
                StartRemediation, EndVerify, Write, At
  <2> QED BY <1>0, <2>1 DEF VerifyInv
<1>2. CASE ApplyStep \/ SkipApply
  <2>1. /\ exec'.verify = exec.verify /\ pc \in {"apply", "skip"}
        /\ pc' \in {"verify", "verified", "decide"}
        /\ pc' \in {"verify", "verified"} => pc = "apply" \/ input.mode = "apply"
    BY <1>0, <1>2 DEF ApplyStep, SkipApply, Write, At, Locals
  <2>2. exec'.verify = Unverified(input.scan) BY <2>1 DEF VerifyInv
  <2>3. /\ exec'.verify.compile = NotRun /\ exec'.verify.tests = NotRun
        /\ exec'.verify.hasTests = input.scan.hasTests /\ NotRun.status # "passed"
    BY <2>2 DEF Unverified, NotRun
  <2> QED BY <1>0, <2>1, <2>2, <2>3 DEF VerifyInv
<1>3. CASE VerifyGuarded
  <2>1. /\ pc = "verify" /\ pc' = "verified"
        /\ exec' = [exec EXCEPT !.verify = [Unverified(input.scan) EXCEPT !.static = Passed]]
    BY <1>3 DEF VerifyGuarded, Write, At
  <2>2. /\ exec'.verify.compile = NotRun /\ exec'.verify.tests = NotRun
        /\ exec'.verify.hasTests = input.scan.hasTests /\ NotRun.status # "passed"
    BY <1>0, <2>1 DEF Unverified, NotRun, Locals
  <2> QED BY <1>0, <2>1, <2>2 DEF VerifyInv
<1>4. CASE Verify \/ Remediate
  <2>1. PICK v \in Answers : exec'.verify = v
    BY <1>0, <1>4 DEF Verify, Remediate, Locals
  <2>2. /\ pc \in {"verifying", "remediating"} /\ pc' \in {"remediate", "verified"}
        /\ exec'.guarded = exec.guarded
    BY <1>0, <1>4 DEF Verify, Remediate, Write, At, Locals
  <2>3. CanAnswer(input.scan, v, aborted) BY <1>0, AnswersAreTyped
  <2>4. ~exec.guarded /\ input.mode # "plan" BY <2>2 DEF PullInv, VerifyInv
  <2>5. v.hasTests = input.scan.hasTests
        /\ (v.compile.status = "passed" => HasCommand(input.scan))
    BY <2>3 DEF CanAnswer, Attempted
  <2> QED BY <1>0, <2>1, <2>2, <2>4, <2>5 DEF VerifyInv
<1>5. CASE \/ Decide \/ FinalizeEvidence \/ UploadEvidence \/ TakeResult \/ EvidenceGone
           \/ EvaluateChecklist \/ PushBranch \/ CreatePull \/ Keep \/ PushRefused \/ NoPull
           \/ LastCheck \/ RewriteRunJson \/ RewriteFails \/ CheckLease \/ Record \/ InsertArtifact
           \/ Finish \/ Crash \/ NoticeCancel \/ Throw \/ AnswerLost
  <2>1. exec'.verify = exec.verify /\ exec'.guarded = exec.guarded
    BY <1>0, <1>5
    DEF Decide, FinalizeEvidence, UploadEvidence, TakeResult, EvidenceGone, EvaluateChecklist,
        PushBranch, CreatePull, Keep, PushRefused, NoPull, LastCheck, RewriteRunJson, Rewrite,
        RewriteFails, CheckLease, Record, InsertArtifact, Finish, Crash, NoticeCancel, Throw,
        AnswerLost, Inside, Elsewhere, Catch, Locals
  <2>2. /\ pc' \in {"finalize", "upload", "returned", "checklist"} \cup Pulling \cup Ended
        /\ pc' \in {"checklist"} \cup Pulling =>
             pc \in {"checklist"} \cup Pulling \/ input.mode = "apply"
    BY <1>5
    DEF Decide, FinalizeEvidence, UploadEvidence, TakeResult, EvidenceGone, EvaluateChecklist,
        PushBranch, CreatePull, Keep, PushRefused, NoPull, LastCheck, RewriteRunJson, Rewrite,
        RewriteFails, CheckLease, Record, InsertArtifact, Finish, Crash, NoticeCancel, Throw,
        AnswerLost, Catch, At
  <2> QED BY <1>0, <2>1, <2>2 DEF VerifyInv
<1>6. CASE StartOver
  <2>1. pc' = "claimed" /\ exec'.verify = Unverified(input.scan) /\ ~exec'.guarded
    BY <1>6 DEF StartOver, Fresh
  <2>2. exec'.verify.hasTests = input.scan.hasTests /\ exec'.verify.compile.status # "passed"
    BY <2>1 DEF Unverified, NotRun
  <2> QED BY <1>0, <2>1, <2>2 DEF VerifyInv
<1>7. CASE Begin
  <2>1. pc = "claimed" /\ pc' \in {"prepare", "done"} /\ UNCHANGED exec BY <1>7 DEF Begin, At
  <2> QED BY <1>0, <2>1 DEF VerifyInv
<1>8. CASE LoseLease \/ Abort \/ ReadForCancel \/ WriteCancel \/ CancelJob
  <2>1. UNCHANGED <<pc, exec>>
    BY <1>8 DEF LoseLease, Abort, ReadForCancel, WriteCancel, CancelJob
  <2> QED BY <1>0, <2>1 DEF VerifyInv
<1> QED
  BY <1>1, <1>2, <1>3, <1>4, <1>5, <1>6, <1>7, <1>8 DEF Next, Execute, Disturb, CancelRun

LEMMA DecisionInvariant == Spec => []DecisionInv
<1>1. Init => DecisionInv
  <2> SUFFICES ASSUME Init PROVE DecisionInv OBVIOUS
  <2>1. exec = Fresh /\ pc = "claimed" BY DEF Init
  <2>2. StatusInv BY <2>1 DEF StatusInv, Fresh, Late, Pulling, Ended
  <2>3. VerifyInv BY <2>1 DEF VerifyInv, Fresh, Unverified, NotRun, Pulling, Checking
  <2> QED BY <2>2, <2>3 DEF DecisionInv
<1>2. TypeInv /\ FlowInv /\ PullInv /\ DecisionInv /\ [Next]_vars => DecisionInv'
  <2> SUFFICES ASSUME TypeInv, FlowInv, PullInv, DecisionInv, [Next]_vars PROVE DecisionInv' OBVIOUS
  <2>1. CASE Next BY <2>1, StatusStep, VerifyStep DEF DecisionInv
  <2>2. CASE UNCHANGED vars
    BY <2>2, DecidedStays DEF vars, DecisionInv, StatusInv, VerifyInv
  <2> QED BY <2>1, <2>2
<1> QED BY <1>1, <1>2, TypeInvariant, FlowInvariant, PullInvariant, PTL DEF Spec

(* For every policy with a threshold above 65, every project, edit and         *)
(* verification: a completed run compiled and was tested, and what it changed *)
(* is within the limits.  The points alone make the compilation and the tests *)
(* indispensable, not the lists of the policy (scoring.ts,              *)
(* workflow/index.ts 720-769, workflow-service.ts 1478-1544).                 *)
THEOREM CompletionsAreEarned == Spec => []CompletedIsEarned
<1>1. TypeInv /\ FlowInv /\ PullInv /\ DecisionInv => CompletedIsEarned
  <2> SUFFICES ASSUME TypeInv, FlowInv, PullInv, DecisionInv,
                      row.by = attempt, row.status = "completed", input.policy.pass > 65
               PROVE  CompletedIsEarned!2
    BY DEF CompletedIsEarned
  <2>1. exec.status = "completed" BY DEF FlowInv, Cancelled
  <2>2. Decided = "completed" /\ (input.mode = "apply" => exec.checklist = "passed")
    BY <2>1 DEF DecisionInv, StatusInv
  <2> QED BY <2>2, CompletionIsEarned DEF PullInv
<1> QED BY <1>1, TypeInvariant, FlowInvariant, PullInvariant, DecisionInvariant, PTL

(* For every policy that keeps code kinds out of its non-blocking list: what   *)
(* blocks a run is the infrastructure and nothing else, in plan, apply and    *)
(* guarded mode (policy.ts 483-531, workflow/index.ts 253-289, 736-769).      *)
THEOREM BlockedRunsHideNothing == Spec => []BlockedHidesNoFailure
<1>1. TypeInv /\ DecisionInv => BlockedHidesNoFailure
  <2> SUFFICES ASSUME TypeInv, DecisionInv, pc \in {"finalize", "upload"}, exec.status = "blocked",
                      input.policy.nonBlocking \cap CodeKinds = {}
               PROVE  BlockedHidesNoFailure!2
    BY DEF BlockedHidesNoFailure
  <2>1. IsBlocked(input.mode, Decisions, exec.verify, input.policy)
    BY DEF DecisionInv, StatusInv, Decided, StatusOf
  <2>2. /\ input.mode = "apply" /\ ~Blocking(Decisions)
        /\ GatheredKinds(exec.verify) # {}
        /\ GatheredKinds(exec.verify) \subseteq input.policy.nonBlocking
    BY <2>1 DEF IsBlocked, InfrastructureOnly
  <2>3. ~exec.guarded
    <3>1. SUFFICES ASSUME exec.guarded PROVE FALSE OBVIOUS
    <3>2. exec.verify.compile.kind = "none" /\ exec.verify.tests.kind = "none"
      BY <3>1 DEF DecisionInv, VerifyInv, NotRun
    <3> QED BY <2>2, <3>2 DEF GatheredKinds
  <2>4. exec.verify.static.status # "failed"
    <3>1. SUFFICES ASSUME exec.verify.static.status = "failed" PROVE FALSE OBVIOUS
    <3>2. Decision("static_checks", "deny") \in Decisions
      BY <2>2, <2>3, <3>1 DEF Decisions, VerifyDecisions
    <3> QED BY <2>2, <3>2 DEF Blocking, Decision
  <2>5. ASSUME NEW c \in {exec.verify.compile, exec.verify.tests}, c.status = "failed"
        PROVE  c.kind \notin CodeKinds
    <3>1. CASE c.kind = "none" BY <3>1 DEF CodeKinds
    <3>2. CASE c.kind # "none"
      <4>1. c.kind \in GatheredKinds(exec.verify) BY <2>5, <3>2 DEF GatheredKinds
      <4> QED BY <2>2, <4>1
    <3> QED BY <3>1, <3>2
  <2> QED BY <2>4, <2>5
<1> QED BY <1>1, TypeInvariant, DecisionInvariant, PTL
(* The cases of the coverage report are tried in their order: with none of the *)
(* first twelve true it is the last.                                          *)
LEMMA LastCase ==
  ASSUME NEW scan, NEW disposition, NEW kind, NEW status,
         \A i \in 1..12 : ~CoverageCases(scan, disposition, kind, status)[i].when
  PROVE  Coverage(scan, disposition, kind, status).outcome = "none"
<1> DEFINE cases == CoverageCases(scan, disposition, kind, status)
<1>1. cases[13].when /\ cases[13].outcome = "none" BY DEF CoverageCases
<1>2. \A i \in 1..12 : ~cases[i].when OBVIOUS
<1>3. Coverage(scan, disposition, kind, status)
        = cases[CHOOSE i \in 1..13 : cases[i].when /\ \A j \in 1..(i - 1) : ~cases[j].when]
  BY DEF Coverage
<1> HIDE DEF cases
<1>4. \E i \in 1..13 : cases[i].when /\ \A j \in 1..(i - 1) : ~cases[j].when
  BY <1>1, <1>2
<1>5. \A i \in 1..13 : cases[i].when => i = 13 BY <1>2
<1>6. (CHOOSE i \in 1..13 : cases[i].when /\ \A j \in 1..(i - 1) : ~cases[j].when) = 13
  BY <1>4, <1>5
<1> QED BY <1>1, <1>3, <1>6

(* For every policy with a threshold above 65: the coverage report excludes no *)
(* build system that a completed run was of, and reports no guarded baseline   *)
(* for it, because such a run needs a compilation that its build system lets   *)
(* the verifier start (coverage-classification.ts, workflow/index.ts 771-794). *)
THEOREM CoverageIsConsistent == Spec => []CoverageAgrees
<1>1. TypeInv /\ DecisionInv => CoverageAgrees
  <2> SUFFICES ASSUME TypeInv, DecisionInv, pc \in {"finalize", "upload"},
                      exec.status = "completed", input.policy.pass > 65
               PROVE  CoverageAgrees!2
    BY DEF CoverageAgrees
  <2> DEFINE disposition == Disposition(input.scan, input.policy)
             kind == FailureKindOf(input.mode, Decisions, exec.verify, input.scan, input.policy,
                                   exec.guarded, exec.edit.files, exec.status)
             cases == CoverageCases(input.scan, disposition, kind, exec.status)
  <2>1. Decided = "completed" BY DEF DecisionInv, StatusInv
  <2>2. /\ ~exec.guarded /\ disposition = "supported"
        /\ ~IsBlocked(input.mode, Decisions, exec.verify, input.policy)
        /\ HasCommand(input.scan)
    BY <2>1, CompletionIsEarned DEF DecisionInv, VerifyInv
  <2>3. kind = IF PrimaryKind(exec.verify) # "none" THEN PrimaryKind(exec.verify) ELSE "none"
    BY <2>2 DEF FailureKindOf
  <2>4. PrimaryKind(exec.verify) \in FailureKinds \cup {"none"}
    <3> DEFINE checks == <<exec.verify.compile, exec.verify.tests, exec.verify.static>>
               failed == {i \in 1..3 : checks[i].status = "failed" /\ checks[i].kind # "none"}
               other == {i \in 1..3 : checks[i].status = "not_run" /\ checks[i].kind # "none"}
               among == IF failed # {} THEN failed ELSE other
               first == CHOOSE i \in among : \A j \in among : i <= j
    <3>1. exec.verify \in Verification BY DEF TypeInv, TypeOK, Locals
    <3>2. \A i \in 1..3 : checks[i].kind \in FailureKinds \cup {"none"}
      BY <3>1 DEF Verification, Check
    <3>3. PrimaryKind(exec.verify) = IF among = {} THEN "none" ELSE checks[first].kind
      BY DEF PrimaryKind
    <3>4. among \subseteq 1..3 OBVIOUS
    <3> HIDE DEF checks, among
    <3>5. ASSUME among # {} PROVE \E i \in among : \A j \in among : i <= j
      <4>1. CASE 1 \in among BY <3>4, <4>1
      <4>2. CASE 1 \notin among /\ 2 \in among BY <3>4, <4>2
      <4>3. CASE 1 \notin among /\ 2 \notin among
        <5>1. \A j \in among : j = 3
          <6> SUFFICES ASSUME NEW j \in among PROVE j = 3 OBVIOUS
          <6>1. j \in 1..3 BY <3>4
          <6>2. j = 1 \/ j = 2 \/ j = 3 BY <6>1
          <6> QED BY <6>2, <4>3
        <5>2. PICK i \in among : TRUE BY <3>5
        <5>3. \A j \in among : i <= j BY <5>1, <5>2
        <5> QED BY <5>3
      <4> QED BY <4>1, <4>2, <4>3
    <3>6. among # {} => first \in among BY <3>5
    <3> HIDE DEF first
    <3> QED BY <3>2, <3>3, <3>4, <3>6
  <2>5. kind \in FailureKinds \cup {"none"} BY <2>3, <2>4
  <2>6. {"unsupported_build_system", "guarded_baseline_applied", "guarded_baseline_noop",
         "budget_guardrail"} \cap (FailureKinds \cup {"none"}) = {}
    BY DEF FailureKinds, CodeKinds, InfrastructureKinds
  <2>7. kind \notin {"unsupported_build_system", "guarded_baseline_applied",
                     "guarded_baseline_noop", "budget_guardrail"}
    BY <2>5, <2>6
  <2> HIDE DEF kind, disposition
  <2>8. input.scan.build = "gradle" => input.scan.wrapper BY <2>2 DEF HasCommand
  <2>9. /\ ~cases[1].when /\ ~cases[2].when /\ ~cases[3].when /\ ~cases[4].when
    BY <2>2, <2>7 DEF CoverageCases
  <2>10. /\ ~cases[5].when /\ ~cases[6].when /\ ~cases[7].when /\ ~cases[8].when
    BY <2>2, <2>7, <2>8 DEF CoverageCases
  <2>11. /\ ~cases[9].when /\ ~cases[10].when /\ ~cases[11].when /\ ~cases[12].when
    BY <2>2, <2>7 DEF CoverageCases
  <2> HIDE DEF cases
  <2>12. \A i \in 1..12 : ~cases[i].when
    <3>1. \A i \in 1..12 : i \in {1, 2, 3, 4, 5, 6, 7, 8, 9, 10, 11, 12} OBVIOUS
    <3> QED BY <2>9, <2>10, <2>11, <3>1
  <2>13. Coverage(input.scan, disposition, kind, exec.status).outcome = "none"
    BY <2>12, LastCase DEF cases
  <2> QED BY <2>7, <2>13 DEF kind, disposition
<1> QED BY <1>1, TypeInvariant, DecisionInvariant, PTL
-----------------------------------------------------------------------------
(* The evidence *)

Own(a) == disk[a].attempt = attempt

Verifies == {"verify", "verifying", "remediate", "remediating", "verified"}
Scanned == {"plan", "apply", "skip", "decide", "finalize"} \cup Verifies

(* What an execution has written by the time it is where it is.  *)
StageInv ==
  /\ pc \in {"scan"} \cup Scanned => Own("run")
  /\ pc \in Scanned => Own("scan")
  /\ pc \in Scanned \ {"plan"} => Own("plan")
  /\ pc \in Verifies \/ (pc \in {"decide", "finalize"} /\ input.mode = "apply") => Own("apply")
  /\ pc \in {"verified", "decide", "finalize"} => Own("verify")
  /\ pc \in Verifies \cup {"decide", "finalize"} /\ exec.commit = 1 => Own("diff")
  /\ pc \in Verifies \cup {"decide", "finalize"} /\ exec.rules => Own("remediation") /\ Own("patch")
  /\ pc = "finalize" =>
       Own("decisions") /\ Own("score") /\ Own("knowledge") /\ disk["run"].status # "none"

(* BundleIsComplete of the zip there is.  *)
Complete ==
  /\ \A a \in {"run", "scan", "plan", "verify", "decisions", "score", "knowledge"} :
       bundle[a].attempt = attempt
  /\ input.mode = "apply" => bundle["apply"].attempt = attempt
  /\ exec.commit = 1 => bundle["diff"].attempt = attempt
  /\ exec.rules => bundle["remediation"].attempt = attempt /\ bundle["patch"].attempt = attempt
  /\ bundle["run"].status # "none"

BundleInv ==
  /\ pc \in {"upload", "returned", "checklist"} => Complete
  /\ pc = "checklist" => listed = bundle /\ input.mode = "apply"
  /\ listed # Empty =>
       /\ Complete
       /\ pc \in {"checklist"} \cup Pulling \cup Ended
       /\ listed["run"].attempt = attempt

(* Zip, manifest and rows are of the directory as it is, as long as it is      *)
(* kept, but for a run.json cut off and for what a later execution wrote.      *)
DiskInv ==
  input.store # "s3_only" =>
    /\ pc \in {"upload", "returned"} => bundle = disk
    /\ listed # Empty => \A a \in Artifacts : listed[a] = disk[a] \/ disk[a].status = "torn"
    /\ exec.rewritten =>
         disk["run"] = [attempt |-> attempt, status |-> exec.status, pr |-> exec.pr]
    /\ \A e \in rows :
         \/ disk[e.name] = e.content
         \/ disk[e.name].attempt > e.by
         \/ disk[e.name].status = "torn"

(* The rows of this execution are inserted at its end, from the list; what it  *)
(* rewrites it rewrites before.                                                *)
InsertInv ==
  /\ \A e \in rows : e.by <= attempt /\ (e.by = attempt => pc \in {"insert", "done", "dead"})
  /\ exec.rewritten => pc \in {"lease", "record", "insert", "done", "dead"}
  /\ pc = "done" => {a \in Artifacts : listed[a] # Absent} \subseteq Inserted

CauseInv ==
  "failed" \in {exec.status, row.status} =>
    faults < MaxFaults \/ (input.store = "s3_only" /\ input.mode = "apply")

EvidenceInv == StageInv /\ BundleInv /\ DiskInv /\ InsertInv /\ CauseInv

(* A write adds to what is of this execution, and never takes from it.  *)
LEMMA WriteOwns ==
  ASSUME TypeInv, NEW names, disk' = With(names), attempt' = attempt
  PROVE  /\ \A a \in Artifacts : a \in names \/ Own(a) => Own(a)'
         /\ \A a \in Artifacts \ names : disk'[a] = disk[a]
         /\ \A a \in Artifacts \cap names : disk'[a] = Plain
BY DEF With, Own, Plain

LEMMA StageStep ==
  ASSUME TypeInv, PullInv, StageInv, Next
  PROVE  StageInv'
<1> USE DEF Artifacts, Verifies, Scanned
<1>0. exec \in Locals /\ disk \in Directory BY DEF TypeInv, TypeOK
<1>1. CASE PrepareWorkspace BY <1>1 DEF PrepareWorkspace, StageInv
<1>2. CASE StartWorkflow \/ ScanStep
  <2>1. PICK names \in SUBSET {"run", "scan"} :
          /\ disk' = With(names) /\ UNCHANGED <<input, exec, attempt>>
          /\ \/ pc = "start" /\ pc' = "scan" /\ names = {"run"}
             \/ pc = "scan" /\ pc' = "plan" /\ names = {"scan"}
    BY <1>2 DEF StartWorkflow, ScanStep, Write, At, Inside, Elsewhere
  <2>2. \A a \in Artifacts : a \in names \/ Own(a) => Own(a)' BY <2>1, WriteOwns
  <2> QED BY <2>1, <2>2 DEF StageInv
<1>3. CASE PlanStep
  <2>1. /\ disk' = With({"plan"}) /\ UNCHANGED <<input, exec, attempt>>
        /\ pc = "plan" /\ pc' \in {"apply", "skip"}
    BY <1>3 DEF PlanStep, Write, At, Inside, Elsewhere
  <2>2. \A a \in Artifacts : a \in {"plan"} \/ Own(a) => Own(a)' BY <2>1, WriteOwns
  <2> QED BY <2>1, <2>2 DEF StageInv
<1>4. CASE ApplyStep
  <2>1. PICK edit \in Edits, commit \in 0..1 :
          /\ Write("apply", {"apply"} \cup IF commit = 1 THEN {"diff"} ELSE {}, "verify")
          /\ exec' = [exec EXCEPT !.edit = edit, !.commit = commit,
                                  !.guarded = Guarded(input.scan, input.policy)]
    BY <1>4 DEF ApplyStep
  <2> DEFINE names == {"apply"} \cup IF commit = 1 THEN {"diff"} ELSE {}
  <2>2. /\ disk' = With(names) /\ UNCHANGED <<input, attempt>>
        /\ pc = "apply" /\ pc' = "verify" /\ exec'.commit = commit /\ exec'.rules = exec.rules
    BY <1>0, <2>1 DEF Write, At, Inside, Elsewhere, Locals
  <2>3. \A a \in Artifacts : a \in names \/ Own(a) => Own(a)' BY <2>2, WriteOwns
  <2>4. "apply" \in names /\ (commit = 1 => "diff" \in names) OBVIOUS
  <2>5. ~exec.rules BY <2>2 DEF PullInv
  <2> HIDE DEF names
  <2> QED BY <2>2, <2>3, <2>4, <2>5 DEF StageInv
<1>5. CASE SkipApply
  <2> DEFINE names == {"verify"} \cup IF input.mode = "apply" THEN {"apply"} ELSE {}
  <2>1. /\ disk' = With(names) /\ UNCHANGED <<input, attempt>> /\ pc = "skip"
        /\ pc' = IF input.mode = "apply" THEN "verified" ELSE "decide"
        /\ exec'.commit = exec.commit /\ exec'.rules = exec.rules
    BY <1>0, <1>5 DEF SkipApply, Write, At, Inside, Elsewhere, Locals
  <2>2. \A a \in Artifacts : a \in names \/ Own(a) => Own(a)' BY <2>1, WriteOwns
  <2>3. "verify" \in names /\ (input.mode = "apply" => "apply" \in names) OBVIOUS
  <2>4. exec.commit = 0 /\ ~exec.rules BY <2>1 DEF PullInv, Early
  <2> HIDE DEF names
  <2> QED BY <2>1, <2>2, <2>3, <2>4 DEF StageInv
<1>6. CASE StartVerify \/ Verify \/ StartRemediation
  <2>1. /\ disk' = With({}) /\ UNCHANGED <<input, attempt>>
        /\ pc \in Verifies /\ pc' \in {"verifying", "remediate", "remediating"}
        /\ exec'.commit = exec.commit /\ exec'.rules = exec.rules
    BY <1>0, <1>6 DEF StartVerify, Verify, StartRemediation, Write, At, Inside, Elsewhere, Locals
  <2>2. \A a \in Artifacts : a \in {} \/ Own(a) => Own(a)' BY <2>1, WriteOwns
  <2> QED BY <2>1, <2>2 DEF StageInv
<1>7. CASE VerifyGuarded \/ SkipRemediation
  <2>1. /\ disk' = With({"remediation", "verify"}) /\ UNCHANGED <<input, attempt>>
        /\ pc \in Verifies /\ pc' = "verified"
        /\ exec'.commit = exec.commit /\ exec'.rules = exec.rules
    BY <1>0, <1>7 DEF VerifyGuarded, SkipRemediation, Write, At, Inside, Elsewhere, Locals
  <2>2. \A a \in Artifacts : a \in {"remediation", "verify"} \/ Own(a) => Own(a)'
    BY <2>1, WriteOwns
  <2> QED BY <2>1, <2>2 DEF StageInv
<1>8. CASE Remediate
  <2>1. PICK fixed \in BOOLEAN :
          /\ Write("remediating",
                   {"remediation", "verify"} \cup IF fixed THEN {"patch"} ELSE {}, "verified")
          /\ \E v \in Answers :
               exec' = [exec EXCEPT !.verify = v, !.rules = fixed,
                                    !.commit = IF fixed THEN 2 ELSE exec.commit]
    BY <1>8 DEF Remediate
  <2> DEFINE names == {"remediation", "verify"} \cup IF fixed THEN {"patch"} ELSE {}
  <2>2. /\ disk' = With(names) /\ UNCHANGED <<input, attempt>>
        /\ pc = "remediating" /\ pc' = "verified"
    BY <2>1 DEF Write, At, Inside, Elsewhere
  <2>3. exec'.rules = fixed /\ (exec'.commit = 1 => exec.commit = 1)
    BY <1>0, <2>1 DEF Locals
  <2>4. \A a \in Artifacts : a \in names \/ Own(a) => Own(a)' BY <2>2, WriteOwns
  <2>5. "verify" \in names /\ "remediation" \in names /\ (fixed => "patch" \in names) OBVIOUS
  <2> HIDE DEF names
  <2> QED BY <2>2, <2>3, <2>4, <2>5 DEF StageInv
<1>9. CASE EndVerify
  <2>1. PICK names : Write("verified", names, "decide") /\ UNCHANGED exec BY <1>9 DEF EndVerify
  <2>2. /\ disk' = With(names) /\ UNCHANGED <<input, exec, attempt>>
        /\ pc = "verified" /\ pc' = "decide"
    BY <2>1 DEF Write, At, Inside, Elsewhere
  <2>3. \A a \in Artifacts : a \in names \/ Own(a) => Own(a)' BY <2>2, WriteOwns
  <2> QED BY <2>2, <2>3 DEF StageInv
<1>10. CASE Decide
  <2> DEFINE names == {"decisions", "score", "knowledge"}
  <2>1. /\ pc = "decide" /\ pc' = "finalize" /\ UNCHANGED <<input, attempt>>
        /\ exec'.commit = exec.commit /\ exec'.rules = exec.rules
        /\ disk' = [With(names) EXCEPT !["run"] = [Plain EXCEPT !.status = Decided]]
    BY <1>0, <1>10 DEF Decide, At, Inside, Elsewhere, Locals
  <2>2. \A a \in Artifacts \ {"run"} : a \in names \/ Own(a) => Own(a)'
    BY <2>1 DEF With, Own, Plain
  <2>3. disk'["run"] = [Plain EXCEPT !.status = Decided] BY <2>1 DEF With
  <2>4. Own("run")' /\ disk'["run"].status # "none"
    BY <2>1, <2>3, DecidedIsTyped DEF Own, Plain
  <2> QED BY <2>1, <2>2, <2>4 DEF StageInv
<1>11. CASE \/ FinalizeEvidence \/ UploadEvidence \/ TakeResult \/ EvaluateChecklist
            \/ EvidenceGone \/ PushBranch \/ CreatePull \/ Keep \/ PushRefused \/ NoPull \/ LastCheck
            \/ RewriteRunJson \/ RewriteFails \/ CheckLease \/ Record \/ InsertArtifact \/ Finish
            \/ Crash \/ NoticeCancel \/ Throw \/ AnswerLost \/ StartOver \/ Begin
  <2>1. pc' \notin {"scan"} \cup Scanned
    BY <1>11 DEF FinalizeEvidence, UploadEvidence, TakeResult, EvaluateChecklist, EvidenceGone,
         PushBranch, CreatePull, Keep, PushRefused, NoPull, LastCheck, RewriteRunJson, Rewrite,
         RewriteFails, CheckLease, Record, InsertArtifact, Finish, Crash, NoticeCancel, Throw,
         AnswerLost, StartOver, Begin, Catch, At
  <2> QED BY <2>1 DEF StageInv
<1>12. CASE LoseLease \/ Abort \/ ReadForCancel \/ WriteCancel \/ CancelJob
  <2>1. UNCHANGED <<input, pc, exec, disk, attempt>>
    BY <1>12 DEF LoseLease, Abort, ReadForCancel, WriteCancel, CancelJob
  <2> QED BY <2>1 DEF StageInv, Own
<1> QED
  BY <1>1, <1>2, <1>3, <1>4, <1>5, <1>6, <1>7, <1>8, <1>9, <1>10, <1>11, <1>12
  DEF Next, Execute, Disturb, CancelRun

LEMMA BundleStep ==
  ASSUME TypeInv, StageInv, BundleInv, Next
  PROVE  BundleInv'
<1> USE DEF Outside, Ended, Pulling, Artifacts
<1>0. /\ exec \in Locals /\ disk \in Directory /\ listed \in Directory /\ bundle \in Directory
      /\ attempt \in Nat /\ attempt # 0
  BY WorkflowAssumption DEF TypeInv, TypeOK, Attempts
<1>1. CASE \/ PrepareWorkspace \/ StartWorkflow \/ ScanStep \/ PlanStep \/ ApplyStep \/ SkipApply
           \/ VerifyGuarded \/ StartVerify \/ Verify \/ SkipRemediation \/ StartRemediation
           \/ Remediate \/ EndVerify \/ Decide \/ Begin
  <2>1. /\ pc \notin {"checklist"} \cup Pulling \cup Ended
        /\ pc' \notin {"upload", "returned", "checklist"}
    BY <1>1
    DEF PrepareWorkspace, StartWorkflow, ScanStep, PlanStep, ApplyStep, SkipApply, VerifyGuarded,
        StartVerify, Verify, SkipRemediation, StartRemediation, Remediate, EndVerify, Decide, Begin,
        Write, At
  <2>2. listed' = listed BY <1>1, InsideStays DEF InsideStep, Begin
  <2> QED BY <2>1, <2>2 DEF BundleInv
<1>2. CASE FinalizeEvidence
  <2>1. /\ pc = "finalize" /\ pc' \in {"upload", "returned", "last"} /\ bundle' = disk
        /\ UNCHANGED <<input, listed, attempt>>
        /\ exec'.commit = exec.commit /\ exec'.rules = exec.rules
    BY <1>0, <1>2 DEF FinalizeEvidence, At, Catch, Elsewhere, Locals
  <2>2. Complete' BY <2>1 DEF StageInv, Complete, Own, Scanned
  <2> QED BY <2>1, <2>2 DEF BundleInv
<1>3. CASE UploadEvidence
  <2>1. pc = "upload" /\ pc' = "returned" /\ UNCHANGED <<input, exec, bundle, listed, attempt>>
    BY <1>3 DEF UploadEvidence, At, Inside, Elsewhere
  <2> QED BY <2>1 DEF BundleInv, Complete
<1>4. CASE TakeResult
  <2>1. /\ pc = "returned" /\ pc' = IF input.mode = "apply" THEN "checklist" ELSE "last"
        /\ listed' = bundle /\ UNCHANGED <<input, exec, bundle, attempt>>
    BY <1>4 DEF TakeResult, At, Elsewhere
  <2>2. Complete /\ Complete' BY <2>1 DEF BundleInv, Complete
  <2>3. listed'["run"].attempt = attempt' BY <2>1, <2>2 DEF Complete
  <2> QED BY <2>1, <2>2, <2>3 DEF BundleInv
<1>5. CASE EvaluateChecklist
  <2>1. /\ pc = "checklist" /\ pc' \in {"pull", "last"}
        /\ listed' = [listed EXCEPT !["checklist"] = Plain]
        /\ UNCHANGED <<input, bundle, attempt>>
        /\ exec'.commit = exec.commit /\ exec'.rules = exec.rules
    BY <1>0, <1>5 DEF EvaluateChecklist, At, Elsewhere, Locals
  <2>2. Complete /\ Complete' BY <2>1 DEF BundleInv, Complete
  <2>3. listed'["run"] = bundle["run"] BY <1>0, <2>1 DEF BundleInv, Directory
  <2>4. listed'["run"].attempt = attempt' BY <2>1, <2>2, <2>3 DEF Complete
  <2> QED BY <2>1, <2>2, <2>4 DEF BundleInv
<1>6. CASE \/ EvidenceGone \/ PushBranch \/ CreatePull \/ Keep \/ PushRefused \/ NoPull \/ LastCheck
           \/ RewriteFails \/ CheckLease \/ Record \/ InsertArtifact \/ Finish \/ Crash
           \/ NoticeCancel \/ Throw \/ AnswerLost
  <2>1. pc' \in Pulling \cup Ended
    BY <1>6 DEF EvidenceGone, PushBranch, CreatePull, Keep, PushRefused, NoPull, LastCheck,
         RewriteFails, CheckLease, Record, InsertArtifact, Finish, Crash, NoticeCancel, Throw,
         AnswerLost, Catch, At
  <2>2. /\ UNCHANGED <<input, bundle, listed, attempt>>
        /\ exec'.commit = exec.commit /\ exec'.rules = exec.rules
    BY <1>0, <1>6 DEF EvidenceGone, PushBranch, CreatePull, Keep, PushRefused, NoPull, LastCheck,
         RewriteFails, CheckLease, Record, InsertArtifact, Finish, Crash, NoticeCancel, Throw,
         AnswerLost, Inside, Elsewhere, Catch, Locals
  <2> QED BY <2>1, <2>2 DEF BundleInv, Complete
<1>7. CASE RewriteRunJson
  <2> DEFINE told == [attempt |-> attempt, status |-> exec.status, pr |-> exec.pr]
  <2>1. /\ pc = "rewrite" /\ pc' = "lease" /\ UNCHANGED <<input, bundle, attempt>>
        /\ exec'.commit = exec.commit /\ exec'.rules = exec.rules
        /\ \/ listed' = listed
           \/ listed # Empty /\ listed' = [listed EXCEPT !["run"] = told]
    BY <1>0, <1>7 DEF RewriteRunJson, Rewrite, Relist, At, Elsewhere, Locals
  <2>2. CASE listed' = listed BY <2>1, <2>2 DEF BundleInv, Complete
  <2>3. CASE listed # Empty /\ listed' = [listed EXCEPT !["run"] = told]
    <3>1. listed'["run"].attempt = attempt' BY <1>0, <2>1, <2>3 DEF Directory
    <3> QED BY <2>1, <2>3, <3>1 DEF BundleInv, Complete
  <2> QED BY <2>1, <2>2, <2>3
<1>8. CASE StartOver BY <1>8 DEF StartOver, BundleInv
<1>9. CASE LoseLease \/ Abort \/ ReadForCancel \/ WriteCancel \/ CancelJob
  <2>1. UNCHANGED <<input, pc, exec, bundle, listed, attempt>>
    BY <1>9 DEF LoseLease, Abort, ReadForCancel, WriteCancel, CancelJob
  <2> QED BY <2>1 DEF BundleInv, Complete
<1> QED
  BY <1>1, <1>2, <1>3, <1>4, <1>5, <1>6, <1>7, <1>8, <1>9 DEF Next, Execute, Disturb, CancelRun

(* Before its end an execution has inserted nothing, and what it writes is     *)
(* newer than any row there is.                                               *)
LEMMA WritesAreNewer ==
  ASSUME TypeInv, InsertInv, pc \notin {"insert", "done", "dead"},
         NEW e \in rows, disk'[e.name] = disk[e.name] \/ disk'[e.name].attempt = attempt
  PROVE  disk'[e.name] = disk[e.name] \/ disk'[e.name].attempt > e.by
<1>1. e.by <= attempt /\ e.by # attempt BY DEF InsertInv
<1>2. e.by \in Nat /\ attempt \in Nat
  BY WorkflowAssumption DEF TypeInv, TypeOK, Evidence, Attempts
<1> QED BY <1>1, <1>2

LEMMA DiskStep ==
  ASSUME TypeInv, BundleInv, DiskInv, InsertInv, Next
  PROVE  DiskInv'
<1> SUFFICES ASSUME input.store # "s3_only" PROVE DiskInv'
  BY OutsideIsTyped DEF DiskInv
<1> USE DEF Outside, Ended, Pulling
<1>0. /\ exec \in Locals /\ disk \in Directory /\ listed \in Directory /\ bundle \in Directory
      /\ attempt \in Nat /\ attempt # 0 /\ rows \subseteq Evidence
  BY WorkflowAssumption DEF TypeInv, TypeOK, Attempts
<1> DEFINE Agree(e, d) == d[e.name] = e.content \/ d[e.name].attempt > e.by \/ d[e.name].status = "torn"
<1>a. \A e \in rows : Agree(e, disk) /\ e.name \in Artifacts BY <1>0 DEF DiskInv, Evidence
<1>1. CASE \/ PrepareWorkspace \/ StartWorkflow \/ ScanStep \/ PlanStep \/ ApplyStep \/ SkipApply
           \/ VerifyGuarded \/ StartVerify \/ Verify \/ SkipRemediation \/ StartRemediation
           \/ Remediate \/ EndVerify \/ Decide
  <2>1. /\ pc \notin {"checklist"} \cup Pulling \cup Ended
        /\ pc' \notin {"upload", "returned"}
    BY <1>1
    DEF PrepareWorkspace, StartWorkflow, ScanStep, PlanStep, ApplyStep, SkipApply, VerifyGuarded,
        StartVerify, Verify, SkipRemediation, StartRemediation, Remediate, EndVerify, Decide,
        Write, At
  <2>2. UNCHANGED <<input, listed, rows>> BY <1>1, InsideStays DEF InsideStep
  <2>3. listed = Empty BY <2>1 DEF BundleInv
  <2>4. ~exec.rewritten /\ exec'.rewritten = exec.rewritten
    <3>1. ~exec.rewritten BY <2>1 DEF InsertInv
    <3>2. exec'.rewritten = exec.rewritten
      BY <1>0, <1>1
      DEF PrepareWorkspace, StartWorkflow, ScanStep, PlanStep, ApplyStep, SkipApply, VerifyGuarded,
          StartVerify, Verify, SkipRemediation, StartRemediation, Remediate, EndVerify, Decide,
          Write, Locals
    <3> QED BY <3>1, <3>2
  <2>5. \A a \in Artifacts : disk'[a] = disk[a] \/ disk'[a].attempt = attempt
    <3>1. CASE Decide
      <4>1. disk' = [With({"decisions", "score", "knowledge"}) EXCEPT
                       !["run"] = [Plain EXCEPT !.status = Decided]]
        BY <3>1 DEF Decide
      <4> QED BY <4>1 DEF With, Plain
    <3>2. CASE PrepareWorkspace BY <3>2 DEF PrepareWorkspace
    <3>3. CASE ~Decide /\ ~PrepareWorkspace
      <4>1. \E names : disk' = With(names)
        BY <1>1, <3>3
        DEF StartWorkflow, ScanStep, PlanStep, ApplyStep, SkipApply, VerifyGuarded, StartVerify,
            Verify, SkipRemediation, StartRemediation, Remediate, EndVerify, Write
      <4> QED BY <4>1 DEF With, Plain
    <3> QED BY <3>1, <3>2, <3>3
  <2>6. ASSUME NEW e \in rows PROVE Agree(e, disk')
    <3>1. disk'[e.name] = disk[e.name] \/ disk'[e.name].attempt > e.by
      BY <1>a, <2>1, <2>5, WritesAreNewer
    <3> QED BY <1>a, <3>1
  <2> QED BY <2>1, <2>2, <2>3, <2>4, <2>6 DEF DiskInv
<1>2. CASE FinalizeEvidence
  <2>1. /\ pc = "finalize" /\ pc' \in {"upload", "returned", "last"} /\ bundle' = disk
        /\ UNCHANGED <<input, disk, listed, rows>> /\ exec'.rewritten = exec.rewritten
    BY <1>0, <1>2 DEF FinalizeEvidence, At, Elsewhere, Catch, Locals
  <2>2. listed = Empty /\ ~exec.rewritten BY <2>1 DEF BundleInv, InsertInv
  <2> QED BY <1>a, <2>1, <2>2 DEF DiskInv
<1>3. CASE UploadEvidence
  <2>1. /\ pc = "upload" /\ pc' = "returned" /\ UNCHANGED <<input, exec, disk, bundle, listed, rows>>
    BY <1>3 DEF UploadEvidence, At, Inside, Elsewhere
  <2>2. listed = Empty /\ ~exec.rewritten BY <2>1 DEF BundleInv, InsertInv
  <2> QED BY <1>a, <2>1, <2>2 DEF DiskInv
<1>4. CASE TakeResult
  <2>1. /\ pc = "returned" /\ pc' \in {"checklist", "last"}
        /\ listed' = bundle /\ UNCHANGED <<input, exec, disk, bundle, rows>>
    BY <1>4 DEF TakeResult, At, Elsewhere
  <2>2. bundle = disk /\ ~exec.rewritten BY <2>1 DEF DiskInv, InsertInv
  <2> QED BY <1>a, <2>1, <2>2 DEF DiskInv
<1>5. CASE EvaluateChecklist
  <2>1. /\ pc = "checklist" /\ pc' \in {"pull", "last"} /\ UNCHANGED <<input, rows>>
        /\ disk' = With({"checklist"}) /\ listed' = [listed EXCEPT !["checklist"] = Plain]
        /\ exec'.rewritten = exec.rewritten
    BY <1>0, <1>5 DEF EvaluateChecklist, At, Elsewhere, Locals
  <2>2. ~exec.rewritten BY <2>1 DEF InsertInv
  <2>3. Complete /\ listed = bundle BY <2>1 DEF BundleInv
  <2>4. listed # Empty BY <1>0, <2>3 DEF Complete, Empty, Absent, Artifacts
  <2>5. \A a \in Artifacts : listed'[a] = disk'[a] \/ disk'[a].status = "torn"
    <3> SUFFICES ASSUME NEW a \in Artifacts PROVE listed'[a] = disk'[a] \/ disk'[a].status = "torn"
      OBVIOUS
    <3>1. listed[a] = disk[a] \/ disk[a].status = "torn" BY <2>4 DEF DiskInv
    <3>2. listed'[a] = IF a = "checklist" THEN Plain ELSE listed[a] BY <1>0, <2>1 DEF Directory
    <3>3. disk'[a] = IF a = "checklist" THEN Plain ELSE disk[a] BY <2>1 DEF With
    <3> QED BY <3>1, <3>2, <3>3
  <2>6. ASSUME NEW e \in rows PROVE Agree(e, disk')
    <3>1. disk'[e.name] = disk[e.name] \/ disk'[e.name].attempt = attempt
      BY <1>a, <2>1 DEF With, Plain
    <3>2. disk'[e.name] = disk[e.name] \/ disk'[e.name].attempt > e.by
      BY <2>1, <3>1, WritesAreNewer
    <3> QED BY <1>a, <3>2
  <2> QED BY <2>1, <2>2, <2>5, <2>6 DEF DiskInv
<1>6. CASE \/ EvidenceGone \/ PushBranch \/ CreatePull \/ Keep \/ PushRefused \/ NoPull \/ LastCheck
           \/ NoticeCancel \/ Throw \/ AnswerLost
  <2>1. pc' \in {"create", "keep", "last", "rewrite"}
    BY <1>6 DEF EvidenceGone, PushBranch, CreatePull, Keep, PushRefused, NoPull, LastCheck,
         NoticeCancel, Throw, AnswerLost, Catch
  <2>2. UNCHANGED <<input, disk, bundle, listed, rows, attempt>> /\ exec'.rewritten = exec.rewritten
    BY <1>0, <1>6 DEF EvidenceGone, PushBranch, CreatePull, Keep, PushRefused, NoPull, LastCheck,
         NoticeCancel, Throw, AnswerLost, Inside, Elsewhere, Catch, Locals
  <2>3. ~exec.rewritten
    BY <1>6 DEF InsertInv, EvidenceGone, PushBranch, CreatePull, Keep, PushRefused, NoPull, LastCheck,
         NoticeCancel, Throw, AnswerLost, Checkpoints, Unchecked, At
  <2> QED BY <1>a, <2>1, <2>2, <2>3 DEF DiskInv
<1>7. CASE RewriteRunJson
  <2> DEFINE told == [attempt |-> attempt, status |-> exec.status, pr |-> exec.pr]
  <2>1. /\ pc = "rewrite" /\ pc' = "lease" /\ UNCHANGED <<input, bundle, attempt, rows>>
        /\ exec'.status = exec.status /\ exec'.pr = exec.pr
        /\ \/ /\ disk' = [disk EXCEPT !["run"] = told] /\ listed' = [listed EXCEPT !["run"] = told]
              /\ listed # Empty
           \/ UNCHANGED <<disk, listed, exec>>
    BY <1>0, <1>7 DEF RewriteRunJson, Rewrite, Relist, At, Elsewhere, Locals
  <2>2. ~exec.rewritten BY <2>1 DEF InsertInv
  <2>3. CASE UNCHANGED <<disk, listed, exec>> BY <1>a, <2>1, <2>2, <2>3 DEF DiskInv
  <2>4. CASE /\ disk' = [disk EXCEPT !["run"] = told] /\ listed' = [listed EXCEPT !["run"] = told]
             /\ listed # Empty
    <3>1. disk'["run"] = [attempt |-> attempt', status |-> exec'.status, pr |-> exec'.pr]
      BY <1>0, <2>1, <2>4 DEF Directory, Artifacts
    <3>2. \A a \in Artifacts : listed'[a] = disk'[a] \/ disk'[a].status = "torn"
      <4> SUFFICES ASSUME NEW a \in Artifacts PROVE listed'[a] = disk'[a] \/ disk'[a].status = "torn"
        OBVIOUS
      <4>1. listed[a] = disk[a] \/ disk[a].status = "torn" BY <2>4 DEF DiskInv
      <4>2. CASE a = "run" BY <1>0, <2>4, <4>2 DEF Directory
      <4>3. CASE a # "run" BY <1>0, <2>4, <4>1, <4>3 DEF Directory
      <4> QED BY <4>2, <4>3
    <3>3. ASSUME NEW e \in rows PROVE Agree(e, disk')
      <4>1. disk'[e.name] = disk[e.name] \/ disk'[e.name].attempt = attempt
        BY <1>0, <1>a, <2>4 DEF Directory
      <4>2. disk'[e.name] = disk[e.name] \/ disk'[e.name].attempt > e.by
        BY <2>1, <4>1, WritesAreNewer
      <4> QED BY <1>a, <4>2
    <3> QED BY <2>1, <3>1, <3>2, <3>3 DEF DiskInv
  <2> QED BY <2>1, <2>3, <2>4
<1>8. CASE RewriteFails
  <2> DEFINE cut == [Plain EXCEPT !.status = "torn"]
  <2>1. /\ pc = "rewrite" /\ pc' = "lease" /\ UNCHANGED <<input, exec, bundle, listed, rows>>
        /\ disk' = disk \/ disk' = [disk EXCEPT !["run"] = cut]
    BY <1>8 DEF RewriteFails, At, Elsewhere
  <2>2. ~exec.rewritten BY <2>1 DEF InsertInv
  <2>3. cut.status = "torn" BY DEF Plain
  <2> HIDE DEF cut
  <2>4. \A a \in Artifacts : disk'[a] = disk[a] \/ disk'[a].status = "torn"
    BY <1>0, <2>1, <2>3 DEF Directory
  <2> QED BY <1>a, <2>1, <2>2, <2>4 DEF DiskInv
<1>9. CASE InsertArtifact
  <2>1. /\ pc = "insert" /\ pc' = "insert"
        /\ UNCHANGED <<input, exec, disk, listed, attempt>>
    BY <1>9 DEF InsertArtifact, At
  <2>2. PICK a \in ToInsert :
          rows' = rows \cup {[name |-> a, content |-> listed[a], by |-> attempt]}
    BY <1>9 DEF InsertArtifact
  <2>3. a \in Artifacts /\ listed[a] # Absent BY <2>2 DEF ToInsert
  <2>4. listed # Empty BY <2>3 DEF Empty
  <2>5. listed[a] = disk[a] \/ disk[a].status = "torn" BY <2>3, <2>4 DEF DiskInv
  <2>6. ASSUME NEW e \in rows' PROVE Agree(e, disk)
    <3>1. CASE e \in rows BY <1>a, <3>1
    <3>2. CASE e \notin rows
      <4>1. e.name = a /\ e.content = listed[a] BY <2>2, <3>2
      <4> QED BY <2>5, <4>1
    <3> QED BY <3>1, <3>2
  <2> QED BY <2>1, <2>6 DEF DiskInv
<1>10. CASE Begin \/ CheckLease \/ Record \/ Finish \/ Crash
  <2>1. /\ pc' \in {"prepare", "record", "insert", "done", "dead"}
        /\ UNCHANGED <<input, exec, disk, listed, rows, attempt>>
    BY <1>10 DEF Begin, CheckLease, Record, Finish, Crash, Inside, Elsewhere
  <2> QED BY <1>a, <2>1 DEF DiskInv
<1>11. CASE StartOver
  <2>1. pc' = "claimed" /\ listed' = Empty /\ UNCHANGED <<input, disk, rows>> /\ ~exec'.rewritten
    BY <1>11 DEF StartOver, Fresh
  <2> QED BY <1>a, <2>1 DEF DiskInv
<1>12. CASE LoseLease \/ Abort \/ ReadForCancel \/ WriteCancel \/ CancelJob
  <2>1. UNCHANGED <<input, pc, exec, disk, bundle, listed, rows, attempt>>
    BY <1>12 DEF LoseLease, Abort, ReadForCancel, WriteCancel, CancelJob
  <2> QED BY <2>1 DEF DiskInv
<1> QED
  BY <1>1, <1>2, <1>3, <1>4, <1>5, <1>6, <1>7, <1>8, <1>9, <1>10, <1>11, <1>12
  DEF Next, Execute, Disturb, CancelRun

LEMMA InsertStep ==
  ASSUME TypeInv, BundleInv, InsertInv, Next
  PROVE  InsertInv'
<1> USE DEF Outside, Ended
<1>0. /\ exec \in Locals /\ attempt \in Nat /\ rows \subseteq Evidence /\ \A e \in rows : e.by \in Nat
  BY WorkflowAssumption DEF TypeInv, TypeOK, Attempts, Evidence
<1>1. CASE InsertArtifact
  <2>1. PICK a \in ToInsert :
          rows' = rows \cup {[name |-> a, content |-> listed[a], by |-> attempt]}
    BY <1>1 DEF InsertArtifact
  <2>2. pc = "insert" /\ UNCHANGED <<pc, exec, listed, attempt>> BY <1>1 DEF InsertArtifact, At
  <2>3. ASSUME NEW e \in rows' PROVE e.by <= attempt /\ (e.by = attempt => pc = "insert")
    <3>1. CASE e \in rows BY <2>2, <3>1 DEF InsertInv
    <3>2. CASE e \notin rows
      <4>1. e.by = attempt BY <2>1, <3>2
      <4> QED BY <1>0, <2>2, <4>1
    <3> QED BY <3>1, <3>2
  <2> QED BY <2>2, <2>3 DEF InsertInv
<1>2. CASE Finish
  <2>1. pc = "insert" /\ pc' = "done" /\ ToInsert = {} /\ UNCHANGED <<exec, listed, rows, attempt>>
    BY <1>2 DEF Finish, At, Inside, Elsewhere
  <2>2. {a \in Artifacts : listed[a] # Absent} \subseteq Inserted BY <2>1 DEF ToInsert
  <2>3. {a \in Artifacts : listed'[a] # Absent} \subseteq Inserted'
    BY <2>1, <2>2 DEF Inserted
  <2>4. \A e \in rows : e.by <= attempt BY DEF InsertInv
  <2>5. \A e \in rows' : e.by <= attempt' BY <2>1, <2>4
  <2> QED BY <2>1, <2>3, <2>5 DEF InsertInv
<1>3. CASE Begin
  <2>1. pc = "claimed" /\ pc' \in {"prepare", "done"} /\ UNCHANGED <<exec, listed, rows, attempt>>
    BY <1>3 DEF Begin, At
  <2>2. listed = Empty BY <2>1 DEF BundleInv, Pulling
  <2>3. {a \in Artifacts : listed'[a] # Absent} = {} BY <2>1, <2>2 DEF Empty
  <2>4. \A e \in rows' : e.by <= attempt' /\ e.by # attempt' BY <2>1 DEF InsertInv
  <2>5. ~exec'.rewritten BY <2>1 DEF InsertInv
  <2> QED BY <2>1, <2>3, <2>4, <2>5 DEF InsertInv
<1>4. CASE StartOver
  <2>1. pc' = "claimed" /\ rows' = rows /\ attempt' = attempt + 1 /\ ~exec'.rewritten
    BY <1>4 DEF StartOver, Fresh
  <2>2. \A e \in rows : e.by <= attempt BY DEF InsertInv
  <2>3. \A e \in rows : e.by < attempt' BY <1>0, <2>1, <2>2
  <2>4. \A e \in rows' : e.by <= attempt' /\ e.by # attempt' BY <1>0, <2>1, <2>3
  <2> QED BY <2>1, <2>4 DEF InsertInv
<1>5. CASE LoseLease \/ Abort \/ ReadForCancel \/ WriteCancel \/ CancelJob
  <2>1. UNCHANGED <<pc, exec, listed, rows, attempt>>
    BY <1>5 DEF LoseLease, Abort, ReadForCancel, WriteCancel, CancelJob
  <2> QED BY <2>1 DEF InsertInv, Inserted
<1>6. CASE RewriteRunJson \/ RewriteFails \/ CheckLease \/ Record \/ Crash
  <2>1. /\ rows' = rows /\ attempt' = attempt
        /\ pc' \in {"lease", "record", "insert", "dead"}
        /\ pc \in {"insert", "done", "dead"} => pc' = "dead"
    BY <1>6 DEF RewriteRunJson, Rewrite, RewriteFails, CheckLease, Record, Crash, At, Inside, Elsewhere
  <2> QED BY <2>1 DEF InsertInv
<1>7. CASE \/ (InsideStep /\ ~CheckLease /\ ~Finish)
           \/ FinalizeEvidence \/ TakeResult \/ EvaluateChecklist \/ PushBranch \/ CreatePull
           \/ Throw \/ AnswerLost
  <2>1. rows' = rows /\ attempt' = attempt BY <1>7, InsideStays, ExportStays DEF ExportStep
  <2>2. pc \notin {"lease", "record", "insert", "done", "dead"} /\ pc' # "done"
    BY <1>7
    DEF InsideStep, PrepareWorkspace, StartWorkflow, ScanStep, PlanStep, ApplyStep, SkipApply,
        VerifyGuarded, StartVerify, Verify, SkipRemediation, StartRemediation, Remediate, EndVerify,
        Decide, UploadEvidence, EvidenceGone, PushRefused, Keep, NoPull, LastCheck, NoticeCancel,
        FinalizeEvidence, TakeResult, EvaluateChecklist, PushBranch, CreatePull, Throw, AnswerLost,
        Write, Catch, At, Checkpoints, Unchecked
  <2>3. exec'.rewritten = exec.rewritten
    <3>1. CASE \/ PrepareWorkspace \/ StartWorkflow \/ ScanStep \/ PlanStep \/ ApplyStep \/ SkipApply
               \/ VerifyGuarded \/ StartVerify \/ Verify \/ SkipRemediation \/ StartRemediation
               \/ Remediate \/ EndVerify \/ Decide
      BY <1>0, <3>1
      DEF PrepareWorkspace, StartWorkflow, ScanStep, PlanStep, ApplyStep, SkipApply, VerifyGuarded,
          StartVerify, Verify, SkipRemediation, StartRemediation, Remediate, EndVerify, Decide, Locals
    <3>2. CASE \/ UploadEvidence \/ EvidenceGone \/ PushRefused \/ Keep \/ NoPull \/ LastCheck
               \/ NoticeCancel \/ FinalizeEvidence \/ TakeResult \/ EvaluateChecklist \/ PushBranch
               \/ CreatePull \/ Throw \/ AnswerLost
      BY <1>0, <3>2
      DEF UploadEvidence, EvidenceGone, PushRefused, Keep, NoPull, LastCheck, NoticeCancel,
          FinalizeEvidence, TakeResult, EvaluateChecklist, PushBranch, CreatePull, Throw, AnswerLost,
          Catch, Locals
    <3> QED BY <1>7, <3>1, <3>2 DEF InsideStep
  <2> QED BY <2>1, <2>2, <2>3 DEF InsertInv
<1> QED
  BY <1>1, <1>2, <1>3, <1>4, <1>5, <1>6, <1>7, StepsAreSorted DEF ExportStep, RecordStep

LEMMA CauseStep ==
  ASSUME TypeInv, BundleInv, DiskInv, CauseInv, Next
  PROVE  CauseInv'
<1>0. /\ exec \in Locals /\ faults \in 0..MaxFaults /\ MaxFaults \in Nat
      /\ attempt \in Nat /\ attempt # 0 /\ row \in Row
  BY WorkflowAssumption DEF TypeInv, TypeOK, Attempts
<1>1. CASE InsideStep /\ ~EvidenceGone
  <2>1. exec'.status = exec.status \/ exec'.status \in {"blocked", "cancelled", Decided}
    <3>1. CASE \/ PrepareWorkspace \/ StartWorkflow \/ ScanStep \/ PlanStep \/ ApplyStep \/ SkipApply
               \/ VerifyGuarded \/ StartVerify \/ Verify \/ SkipRemediation \/ StartRemediation
               \/ Remediate \/ EndVerify \/ Decide
      BY <1>0, <3>1
      DEF PrepareWorkspace, StartWorkflow, ScanStep, PlanStep, ApplyStep, SkipApply, VerifyGuarded,
          StartVerify, Verify, SkipRemediation, StartRemediation, Remediate, EndVerify, Decide, Locals
    <3>2. CASE \/ UploadEvidence \/ PushRefused \/ Keep \/ NoPull \/ LastCheck \/ CheckLease
               \/ Finish \/ NoticeCancel
      BY <1>0, <3>2
      DEF UploadEvidence, PushRefused, Keep, NoPull, LastCheck, CheckLease, Finish, NoticeCancel,
          Catch, Locals
    <3> QED BY <1>1, <3>1, <3>2 DEF InsideStep
  <2>2. UNCHANGED <<input, faults, row>> BY <1>1, InsideStays
  <2> QED BY <2>1, <2>2, DecidedIsTyped DEF CauseInv
<1>2. CASE EvidenceGone
  <2>1. pc = "checklist" /\ disk["scan"] = Absent /\ UNCHANGED <<input, faults>>
    BY <1>2 DEF EvidenceGone, At, Inside, Elsewhere
  <2>2. Complete /\ listed = bundle /\ input.mode = "apply" BY <2>1 DEF BundleInv
  <2>3. listed["scan"].attempt = attempt BY <2>2 DEF Complete
  <2>4. listed # Empty BY <1>0, <2>3 DEF Empty, Absent, Artifacts
  <2>5. listed["scan"] # disk["scan"] /\ disk["scan"].status # "torn"
    BY <1>0, <2>1, <2>3 DEF Absent
  <2>6. input.store = "s3_only" BY <2>4, <2>5 DEF DiskInv, Artifacts
  <2> QED BY <2>1, <2>2, <2>6 DEF CauseInv
<1>3. CASE Throw \/ AnswerLost \/ RewriteFails \/ Crash \/ LoseLease \/ ReadForCancel
  <2>1. faults' < MaxFaults
    BY <1>0, <1>3 DEF Throw, AnswerLost, RewriteFails, Crash, LoseLease, ReadForCancel, SpendFault
  <2> QED BY <2>1 DEF CauseInv
<1>4. CASE \/ FinalizeEvidence \/ TakeResult \/ EvaluateChecklist \/ PushBranch \/ CreatePull
           \/ RewriteRunJson \/ InsertArtifact \/ Abort \/ CancelJob
  <2>1. exec'.status = exec.status \/ exec'.status \in {"blocked", "needs_review"}
    BY <1>0, <1>4
    DEF FinalizeEvidence, TakeResult, EvaluateChecklist, PushBranch, CreatePull, RewriteRunJson,
        Rewrite, InsertArtifact, Abort, CancelJob, Catch, Locals
  <2>2. UNCHANGED <<input, faults, row>>
    BY <1>4
    DEF FinalizeEvidence, TakeResult, EvaluateChecklist, PushBranch, CreatePull, RewriteRunJson,
        Rewrite, InsertArtifact, Abort, CancelJob, Elsewhere
  <2> QED BY <2>1, <2>2 DEF CauseInv
<1>5. CASE Begin \/ Record \/ WriteCancel
  <2>1. row'.status \in {row.status, exec.status, "running", "cancelling", "cancelled"}
    BY <1>0, <1>5 DEF Begin, Record, WriteCancel, Row
  <2>2. UNCHANGED <<input, exec, faults>> BY <1>5 DEF Begin, Record, WriteCancel
  <2> QED BY <2>1, <2>2 DEF CauseInv
<1>6. CASE StartOver
  <2>1. exec'.status = "none" /\ UNCHANGED <<input, row, faults>> BY <1>6 DEF StartOver, Fresh
  <2> QED BY <2>1 DEF CauseInv
<1> QED
  BY <1>1, <1>2, <1>3, <1>4, <1>5, <1>6, StepsAreSorted DEF ExportStep, RecordStep

LEMMA EvidenceInvariant == Spec => []EvidenceInv
<1>1. Init => EvidenceInv
  BY DEF Init, Fresh, EvidenceInv, StageInv, BundleInv, DiskInv, InsertInv, CauseInv, Scanned,
         Verifies
<1>2. TypeInv /\ PullInv /\ EvidenceInv /\ [Next]_vars => EvidenceInv'
  <2> SUFFICES ASSUME TypeInv, PullInv, EvidenceInv, [Next]_vars PROVE EvidenceInv' OBVIOUS
  <2>1. CASE Next
    BY <2>1, StageStep, BundleStep, DiskStep, InsertStep, CauseStep DEF EvidenceInv
  <2>2. CASE UNCHANGED vars
    <3>1. StageInv' BY <2>2 DEF vars, EvidenceInv, StageInv, Own
    <3>2. BundleInv' BY <2>2 DEF vars, EvidenceInv, BundleInv, Complete
    <3>3. DiskInv' BY <2>2 DEF vars, EvidenceInv, DiskInv
    <3>4. InsertInv' BY <2>2 DEF vars, EvidenceInv, InsertInv, Inserted
    <3>5. CauseInv' BY <2>2 DEF vars, EvidenceInv, CauseInv
    <3> QED BY <3>1, <3>2, <3>3, <3>4, <3>5 DEF EvidenceInv
  <2> QED BY <2>1, <2>2
<1> QED BY <1>1, <1>2, TypeInvariant, PullInvariant, PTL DEF Spec

(* For any number of restarts over one evidence directory: whatever is listed  *)
(* of a bundle is listed of a complete one, written by the execution that      *)
(* exports it (writer.ts 56-88, store.ts 123-183).                            *)
THEOREM BundlesAreComplete == Spec => []BundleIsComplete
<1>1. EvidenceInv => BundleIsComplete
  <2> SUFFICES ASSUME EvidenceInv, listed # Empty PROVE BundleIsComplete
    BY DEF BundleIsComplete
  <2> DEFINE own == {a \in Artifacts : bundle[a].attempt = attempt}
  <2>1. Complete BY DEF EvidenceInv, BundleInv
  <2>2. {"run", "scan", "plan", "verify", "decisions", "score", "knowledge"} \subseteq own
    BY <2>1 DEF Complete, Artifacts
  <2>3. input.mode = "apply" => "apply" \in own BY <2>1 DEF Complete, Artifacts
  <2>4. exec.commit = 1 => "diff" \in own BY <2>1 DEF Complete, Artifacts
  <2>5. exec.rules => {"remediation", "patch"} \subseteq own BY <2>1 DEF Complete, Artifacts
  <2>6. bundle["run"].status # "none" BY <2>1 DEF Complete
  <2> QED BY <2>2, <2>3, <2>4, <2>5, <2>6 DEF BundleIsComplete
<1> QED BY <1>1, EvidenceInvariant, PTL

(* For any number of executions over one evidence directory, and inserts that  *)
(* fail half way: the rows that are there name the files as they are, or as    *)
(* they were before a later execution wrote them anew, and an execution that  *)
(* comes to its end has inserted all it listed, the checklist and the         *)
(* rewritten run.json among them (workflow-service.ts 505-548, 1508-1518,     *)
(* 1903-1921, 1967-1984).                                                     *)
THEOREM RowsAgreeWithDisk == Spec => []RowsMatchDisk
<1>1. EvidenceInv => RowsMatchDisk BY DEF EvidenceInv, DiskInv, InsertInv, RowsMatchDisk
<1> QED BY <1>1, EvidenceInvariant, PTL

(* For every way an execution may end, and every cancel that is written while  *)
(* it does or afterwards: run.json as it was rewritten tells the status and    *)
(* the pull request that the row tells, or the row is that of a cancel         *)
(* (workflow-service.ts 505-548, 1173, 1883-1966).                            *)
THEOREM RunJsonAgrees == Spec => []RunJsonMatchesRow
<1>1. FlowInv /\ EvidenceInv => RunJsonMatchesRow
  <2> SUFFICES ASSUME FlowInv, EvidenceInv, row.by = attempt, exec.rewritten,
                      input.store # "s3_only"
               PROVE  /\ disk["run"].attempt = attempt
                      /\ disk["run"].pr = row.pr
                      /\ disk["run"].status = row.status \/ Cancelled
    BY DEF RunJsonMatchesRow
  <2>1. row.pr = exec.pr /\ (row.status = exec.status \/ Cancelled) BY DEF FlowInv
  <2>2. disk["run"] = [attempt |-> attempt, status |-> exec.status, pr |-> exec.pr]
    BY DEF EvidenceInv, DiskInv
  <2> QED BY <2>1, <2>2
<1> QED BY <1>1, FlowInvariant, EvidenceInvariant, PTL

(* For every input: a run that fails met a failing call, or is an apply run    *)
(* whose evidence was removed before the checklist read it (store.ts 306-309). *)
THEOREM FailuresHaveACause == Spec => []FailureHasACause
<1>1. EvidenceInv => FailureHasACause BY DEF EvidenceInv, CauseInv, FailureHasACause
<1> QED BY <1>1, EvidenceInvariant, PTL
=============================================================================
