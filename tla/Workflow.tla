------------------------------ MODULE Workflow ------------------------------
(***************************************************************************)
(* One execution of a run after another: executeRunById                    *)
(* (apps/api/src/workflow-service.ts), executeWorkflow in it               *)
(* (packages/core/src/workflow/index.ts), the evidence it writes and       *)
(* exports (packages/evidence/src) and the merge checklist, with the       *)
(* cancel requests and the loss of its lease that come in between.         *)
(*                                                                         *)
(* The verifier and the remediators are modelled in Verification; here     *)
(* they answer what CanAnswer allows.  The pull request is opened here and *)
(* kept in PullRequests.  A run may be executed again after a crash or a   *)
(* lost lease, over the evidence the earlier execution left: the execution *)
(* that takes over starts when the earlier one is at its end, although it  *)
(* claimed the run before.  The claims themselves and the giving up after  *)
(* too many attempts are RunWorker's.                                      *)
(***************************************************************************)
EXTENDS Policy

CONSTANTS
  Inputs,     \* the runs: [mode, file, scan, plan, store, github]
  Edits,      \* what the recipes may change: [files, lines, inScope, parses]
  Kinds,      \* failure kinds the verifier meets
  Place,      \* Place[a]: where an artifact is in the list of artifacts
  MaxFaults   \* bound on failing calls, crashes, lost leases and cancel requests

Stores == {"local", "s3", "s3_only"}  \* "s3_only": EVIDENCE_KEEP_LOCAL_DISK=false
Edit == [files : Nat, lines : Nat, inScope : BOOLEAN, parses : BOOLEAN]
Input == [mode : {"plan", "apply"}, policy : Policies, scan : Scan,
          plan : [files : Nat, lines : Nat], store : Stores, github : BOOLEAN]

(* remediation: remediation.json and agentic-remediation.json; patch:         *)
(* artifacts/remediation*.patch.                                              *)
Artifacts == {"run", "scan", "plan", "apply", "diff", "remediation", "patch", "verify",
              "retrieval", "decisions", "score", "knowledge", "checklist"}

ASSUME WorkflowAssumption ==
  /\ Inputs \subseteq Input
  /\ Edits \subseteq Edit
  /\ Kinds \subseteq FailureKinds
  /\ Place \in [Artifacts -> Nat]
  /\ MaxFaults \in Nat

VARIABLES
  input,    \* the run, its project and its policy, once loaded
  pc,       \* where executeRunById is
  exec,     \* its local variables
  disk,     \* the evidence directory of the run
  bundle,   \* evidence.zip: the directory as it was zipped
  listed,   \* manifestArtifacts, the rows to be inserted
  rows,     \* evidence_artifacts
  row,      \* the row in runs
  lease,    \* run_jobs: who holds the lease
  asked,    \* what a cancel request has read, and is about to write
  remote,   \* the run's branch and pull request on GitHub
  aborted,  \* the execution's abort signal
  attempt,
  faults

vars == <<input, pc, exec, disk, bundle, listed, rows, row, lease, asked, remote, aborted,
          attempt, faults>>

Statuses == {"completed", "needs_review", "blocked", "failed", "cancelled"}
Attempts == 1..(MaxFaults + 1)

(* The content of a file: the attempt that wrote it, 0 if there is none, and  *)
(* the status and pull request that run.json tells; torn: a write that failed *)
(* left it cut off.                                                           *)
Content == [attempt : 0..(MaxFaults + 1), status : Statuses \cup {"none", "torn"}, pr : BOOLEAN]
Directory == [Artifacts -> Content]

(* A row of evidence_artifacts, and the attempt that inserted it.  *)
Evidence == [name : Artifacts, content : Content, by : Attempts]

(* The row in runs; by: the attempt whose outcome it has, 0 before. *)
Row == [status : Statuses \cup {"queued", "running", "cancelling"}, pr : BOOLEAN,
        by : 0..(MaxFaults + 1)]

Active == row.status \in {"queued", "running", "cancelling"}

(* getRunCancellationState. *)
Cancelled == row.status \in {"cancelling", "cancelled"}

(* held: by this execution; lost: by the worker that takes over from it;      *)
(* void: by nobody, for a cancel took the job.                                *)
Leases == {"held", "lost", "void"}

Absent == [attempt |-> 0, status |-> "none", pr |-> FALSE]
Empty == [a \in Artifacts |-> Absent]

Plain == [attempt |-> attempt, status |-> "none", pr |-> FALSE]
With(names) == [a \in Artifacts |-> IF a \in names THEN Plain ELSE disk[a]]

(* commit: 0 without, 1 the recipes', 2 the remediators' on top of it.  *)
Locals ==
  [verify : Verification, edit : Edit, commit : 0..2, rules : BOOLEAN, guarded : BOOLEAN,
   status : Statuses \cup {"none"}, checklist : {"none", "passed", "failed"},
   pr : BOOLEAN, rewritten : BOOLEAN]

NoEdit == [files |-> 0, lines |-> 0, inScope |-> TRUE, parses |-> TRUE]
Unverified(scan) ==
  [hasTests |-> scan.hasTests, compile |-> NotRun, tests |-> NotRun, static |-> NotRun]

Fresh ==
  [verify |-> Unverified(input.scan), edit |-> NoEdit, commit |-> 0, rules |-> FALSE,
   guarded |-> FALSE, status |-> "none", checklist |-> "none", pr |-> FALSE,
   rewritten |-> FALSE]

-----------------------------------------------------------------------------
(* Points at which the run's row is asked for a cancel before going on: the   *)
(* events of executeWorkflow and the checks of executeRunById.                *)
Checkpoints == {"start", "scan", "plan", "apply", "skip", "verify", "verified", "finalize",
                "returned", "pull"}

(* The others inside the try block of executeRunById, and those outside it. *)
Unchecked == {"prepare", "verifying", "remediate", "remediating", "decide", "upload",
              "checklist", "create", "keep"}
Outside == {"claimed", "last", "rewrite", "lease", "record", "insert", "done", "dead"}

At(step) == pc = step /\ (step \in Checkpoints => ~Cancelled)

(* A bounded disturbance: a call fails, a process dies or stalls, an operator *)
(* cancels.                                                                   *)
SpendFault == faults > 0 /\ faults' = faults - 1

(* What the execution leaves to others, and to its ends. *)
Elsewhere == UNCHANGED <<input, rows, row, lease, asked, aborted, attempt>>

(* Nothing but the step itself, the locals and the evidence directory. *)
Inside == Elsewhere /\ UNCHANGED <<bundle, listed, remote, faults>>

Catch(status) ==
  /\ pc' = "last"
  /\ exec' = [exec EXCEPT !.status = status]

NoticeCancel ==
  /\ pc \in Checkpoints
  /\ Cancelled
  /\ Catch("cancelled")
  /\ UNCHANGED disk
  /\ Inside

(* A call fails: of git or GitHub, which blocks the run, or any other.  The   *)
(* errors of GitHub are caught by the keeper automation, those of queries are *)
(* not.                                                                       *)
Throw ==
  /\ pc \in Checkpoints \cup Unchecked
  /\ SpendFault
  /\ \E status \in {"blocked", "failed"} :
       /\ pc = "keep" => status = "failed"
       /\ Catch(status)
  /\ Elsewhere
  /\ UNCHANGED <<disk, bundle, listed, remote>>

-----------------------------------------------------------------------------
(* executeRunById, before the workflow *)

(* loadRunExecutionContext; `update runs set status = 'running' ... and       *)
(* status = 'queued'`.                                                        *)
Begin ==
  /\ At("claimed")
  /\ pc' = IF row.status = "cancelled" THEN "done" ELSE "prepare"
  /\ row' = IF row.status = "queued" THEN [row EXCEPT !.status = "running"] ELSE row
  /\ UNCHANGED <<input, exec, disk, bundle, listed, rows, lease, asked, remote, aborted,
                 attempt, faults>>

-----------------------------------------------------------------------------
(* executeWorkflow *)

(* prepareWorkspace and createBranch, on a directory it has removed first. *)
PrepareWorkspace ==
  /\ At("prepare")
  /\ pc' = "start"
  /\ UNCHANGED <<exec, disk>>
  /\ Inside

Write(from, names, to) ==
  /\ At(from)
  /\ disk' = With(names)
  /\ pc' = to
  /\ Inside

StartWorkflow == Write("start", {"run"}, "scan") /\ UNCHANGED exec
ScanStep == Write("scan", {"scan"}, "plan") /\ UNCHANGED exec

Planned == PlanDecisions(input.scan, input.plan.files, input.plan.lines, input.policy)

PlanStep ==
  /\ Write("plan", {"plan"}, IF input.mode = "apply" /\ ~Blocking(Planned) THEN "apply" ELSE "skip")
  /\ UNCHANGED exec

(* runApplyStep. The recipes' edits are committed if git's patch of them is   *)
(* not empty: of a Gradle build, the only edit may be a gradle.properties     *)
(* that git does not track yet (Recipes, CommitAll).                          *)
ApplyStep ==
  \E edit \in Edits, commit \in 0..1 :
    /\ edit.files = 0 => commit = 0
    /\ edit.files = 1 \/ (edit.files > 0) = (commit = 1)
    /\ edit.files = 1 /\ commit = 0 => input.scan.build = "gradle" /\ edit.inScope
    /\ Write("apply", {"apply"} \cup IF commit = 1 THEN {"diff"} ELSE {}, "verify")
    /\ exec' = [exec EXCEPT !.edit = edit, !.commit = commit,
                            !.guarded = Guarded(input.scan, input.policy)]

PlannedEdit == [NoEdit EXCEPT !.files = input.plan.files, !.lines = input.plan.lines]

(* Mutant of SkipApply: verify.json is left to the runs that verify. *)
SkipApplyUnverified ==
  /\ Write("skip", IF input.mode = "apply" THEN {"apply"} ELSE {},
           IF input.mode = "apply" THEN "verified" ELSE "decide")
  /\ exec' = [exec EXCEPT !.edit = PlannedEdit]

(* Plan mode, or the plan is denied: the checks are not run. *)
SkipApply ==
  /\ Write("skip", {"verify"} \cup IF input.mode = "apply" THEN {"apply"} ELSE {},
           IF input.mode = "apply" THEN "verified" ELSE "decide")
  /\ exec' = [exec EXCEPT !.edit = PlannedEdit]

(* verifyForGuardedAndroidMode. *)
VerifyGuarded ==
  /\ exec.guarded
  /\ Write("verify", {"remediation", "verify"}, "verified")
  /\ exec' = [exec EXCEPT !.verify = [Unverified(input.scan) EXCEPT !.static = Passed]]

StartVerify == ~exec.guarded /\ Write("verify", {}, "verifying") /\ UNCHANGED exec

(* The summaries the verifier may answer, for each scan, aborted or not. *)
AnswersOf ==
  LET met(checks) == {c \in checks : c.kind \in Kinds \cup {"none"}}
      all(scan) == [hasTests : {scan.hasTests},
                    compile : met(Attempted(scan, CompileKinds)),
                    tests : met(Attempted(scan, TestKinds)) \cup {NotRun},
                    static : met({Passed, NotRun, [status |-> "failed", kind |-> "code_failure"]})]
  IN [scan \in {i.scan : i \in Inputs} |->
        [signal \in BOOLEAN |-> {v \in all(scan) : CanAnswer(scan, v, signal)}]]

Answers == AnswersOf[input.scan][aborted]

Verify ==
  /\ Write("verifying", {}, "remediate")
  /\ \E v \in Answers : exec' = [exec EXCEPT !.verify = v]

(* executionInterrupted, or the remediators do not apply. *)
SkipRemediation ==
  /\ \/ aborted \/ Cancelled \/ input.scan.build # "maven"
     \/ exec.verify.compile.status = "passed" /\ exec.verify.tests.status # "failed"
  /\ Write("remediate", {"remediation", "verify"}, "verified")
  /\ UNCHANGED exec

StartRemediation ==
  /\ ~(aborted \/ Cancelled) /\ input.scan.build = "maven"
  /\ exec.verify.compile.status # "passed" \/ exec.verify.tests.status # "passed"
  /\ Write("remediate", {}, "remediating")
  /\ UNCHANGED exec

(* The last verification replaces the first; a fix is committed.  *)
Remediate ==
  \E fixed \in BOOLEAN :
    /\ Write("remediating",
             {"remediation", "verify"} \cup IF fixed THEN {"patch"} ELSE {}, "verified")
    /\ \E v \in Answers :
         exec' = [exec EXCEPT !.verify = v, !.rules = fixed,
                              !.commit = IF fixed THEN 2 ELSE @]

(* Semantic retrieval, for a failed check; its errors are written, not thrown. *)
EndVerify ==
  LET failed == "failed" \in {exec.verify.compile.status, exec.verify.tests.status,
                              exec.verify.static.status}
  IN \E names \in {{}} \cup IF failed /\ ~aborted THEN {{"retrieval"}} ELSE {} :
       Write("verified", names, "decide") /\ UNCHANGED exec

Decisions ==
  Planned \cup IF input.mode = "apply" /\ ~exec.guarded
                 THEN VerifyDecisions(exec.verify, input.policy) ELSE {}

Decided == StatusOf(input.mode, Decisions, exec.verify, exec.edit.files, exec.edit.lines,
                    input.policy)

(* Policy decisions, score, status; then knowledge.json and run.json. *)
Decide ==
  /\ At("decide")
  /\ exec' = [exec EXCEPT !.status = Decided]
  /\ disk' = [With({"decisions", "score", "knowledge"}) EXCEPT
                !["run"] = [Plain EXCEPT !.status = Decided]]
  /\ pc' = "finalize"
  /\ Inside

-----------------------------------------------------------------------------
(* Evidence *)

(* finalize and the zip: manifest.json lists, and evidence.zip holds, the     *)
(* files there are.  Then the zip may be larger than the policy allows.       *)
FinalizeEvidence ==
  /\ At("finalize")
  /\ bundle' = disk
  /\ \/ /\ pc' = IF input.store = "local" THEN "returned" ELSE "upload"
        /\ UNCHANGED exec
     \/ Catch("blocked")
  /\ Elsewhere
  /\ UNCHANGED <<disk, listed, remote, faults>>

(* Mutant of UploadEvidence: the local directory is removed whatever is configured. *)
UploadEvidenceAndRemove ==
  /\ At("upload")
  /\ disk' = Empty
  /\ pc' = "returned"
  /\ UNCHANGED exec
  /\ Inside

(* S3CompatibleEvidenceStore: zip and manifest are uploaded, and unless the   *)
(* local disk is kept the directory is removed.                               *)
UploadEvidence ==
  /\ At("upload")
  /\ disk' = IF input.store = "s3_only" THEN Empty ELSE disk
  /\ pc' = "returned"
  /\ UNCHANGED exec
  /\ Inside

-----------------------------------------------------------------------------
(* executeRunById, after the workflow *)

OpensPulls == input.github /\ input.mode = "apply"

TakeResult ==
  /\ At("returned")
  /\ listed' = bundle
  /\ pc' = IF input.mode = "apply" THEN "checklist" ELSE "last"
  /\ Elsewhere
  /\ UNCHANGED <<exec, disk, bundle, remote, faults>>

(* buildAllowedFileScope is empty for other build systems. *)
Scoped == input.scan.build \in {"maven", "gradle"}

(* Mutant of ChecklistPasses: the size of the applied change is not looked at. *)
ChecklistIgnoresSize ==
  /\ Scoped /\ exec.commit > 0 => exec.edit.inScope
  /\ disk["verify"] # Absent
  /\ exec.rules => disk["remediation"] # Absent /\ disk["patch"] # Absent
  /\ exec.commit > 0 => exec.edit.parses

(* evaluateMergeChecklist. *)
ChecklistPasses ==
  /\ Scoped /\ exec.commit > 0 => exec.edit.inScope
  /\ exec.edit.files <= input.policy.maxFiles
  /\ exec.edit.lines <= input.policy.maxLines
  /\ disk["verify"] # Absent
  /\ exec.rules => disk["remediation"] # Absent /\ disk["patch"] # Absent
  /\ exec.commit > 0 => exec.edit.parses

EvaluateChecklist ==
  /\ At("checklist")
  /\ disk["scan"] # Absent
  /\ disk' = With({"checklist"})
  /\ listed' = [listed EXCEPT !["checklist"] = Plain]
  /\ exec' = [exec EXCEPT
       !.checklist = IF ChecklistPasses THEN "passed" ELSE "failed",
       !.status = IF @ = "completed" /\ ~ChecklistPasses THEN "needs_review" ELSE @]
  /\ pc' = IF OpensPulls THEN "pull" ELSE "last"
  /\ Elsewhere
  /\ UNCHANGED <<bundle, remote, faults>>

(* scan.json cannot be read back. *)
EvidenceGone ==
  /\ At("checklist")
  /\ disk["scan"] = Absent
  /\ Catch("failed")
  /\ UNCHANGED disk
  /\ Inside

(* Mutant of MayOpenPull: a failed checklist is reported, and that is all. *)
MayOpenPullUnchecked == exec.commit > 0

MayOpenPull == exec.commit > 0 /\ exec.checklist = "passed"

(* createPullRequest: the branch, which is named for the run, is pushed. *)
PushBranch ==
  /\ At("pull")
  /\ MayOpenPull
  /\ remote = "none"
  /\ remote' = "pushed"
  /\ pc' = "create"
  /\ Elsewhere
  /\ UNCHANGED <<exec, disk, bundle, listed, faults>>

(* An earlier execution pushed its own commit there: the push is refused. *)
PushRefused ==
  /\ At("pull")
  /\ MayOpenPull
  /\ remote # "none"
  /\ Catch("blocked")
  /\ UNCHANGED disk
  /\ Inside

CreatePull ==
  /\ At("create")
  /\ remote' = "opened"
  /\ exec' = [exec EXCEPT !.pr = TRUE]
  /\ pc' = "keep"
  /\ Elsewhere
  /\ UNCHANGED <<disk, bundle, listed, faults>>

(* GitHub opens the pull request and its answer is lost or not understood. *)
AnswerLost ==
  /\ At("create")
  /\ SpendFault
  /\ remote' = "opened"
  /\ \E status \in {"blocked", "failed"} : Catch(status)
  /\ Elsewhere
  /\ UNCHANGED <<disk, bundle, listed>>

(* The keeper automation. *)
Keep ==
  /\ At("keep")
  /\ pc' = "last"
  /\ UNCHANGED <<exec, disk>>
  /\ Inside

NoPull ==
  /\ At("pull")
  /\ ~MayOpenPull
  /\ pc' = "last"
  /\ UNCHANGED <<exec, disk>>
  /\ Inside

(* Mutant of LastCheck: the status read is copied, a cancel still in progress. *)
LastCheckCopied ==
  /\ At("last")
  /\ exec' = [exec EXCEPT !.status = IF Cancelled THEN "cancelling" ELSE @]
  /\ pc' = "rewrite"
  /\ UNCHANGED disk
  /\ Inside

(* The workspace is cleaned up and the row asked for a cancel once more. *)
LastCheck ==
  /\ At("last")
  /\ exec' = [exec EXCEPT !.status = IF Cancelled THEN "cancelled" ELSE @]
  /\ pc' = "rewrite"
  /\ UNCHANGED disk
  /\ Inside

(* Mutant of Relist: the rewritten file is left listed as it was. *)
RelistNothing(content) == listed

(* replaceManifestArtifact. *)
Relist(content) == [listed EXCEPT !["run"] = content]

Rewrite(told) ==
  /\ At("rewrite")
  /\ IF listed # Empty /\ disk["run"] # Absent
       THEN /\ disk' = [disk EXCEPT !["run"] = told] /\ listed' = Relist(told)
            /\ exec' = [exec EXCEPT !.rewritten = TRUE]
       ELSE UNCHANGED <<disk, listed, exec>>
  /\ pc' = "lease"
  /\ Elsewhere
  /\ UNCHANGED <<bundle, remote, faults>>

(* Mutant of RewriteRunJson: with the status that the workflow gave. *)
RewriteRunJsonOfResult ==
  Rewrite([attempt |-> attempt, status |-> bundle["run"].status, pr |-> exec.pr])

(* rewriteRunJsonArtifact, if the workflow gave a manifest and run.json can   *)
(* be read.                                                                   *)
RewriteRunJson == Rewrite([attempt |-> attempt, status |-> exec.status, pr |-> exec.pr])

(* Its error is swallowed: the file is as it was, or cut off, and listed as   *)
(* it was.                                                                    *)
RewriteFails ==
  /\ At("rewrite")
  /\ listed # Empty /\ disk["run"] # Absent
  /\ SpendFault
  /\ \/ UNCHANGED disk
     \/ disk' = [disk EXCEPT !["run"] = [Plain EXCEPT !.status = "torn"]]
  /\ pc' = "lease"
  /\ Elsewhere
  /\ UNCHANGED <<exec, bundle, listed, remote>>

(* Mutant of CheckLease: the guard of the update is relied on instead. *)
CheckLeaseNot ==
  /\ At("lease")
  /\ pc' = "record"
  /\ UNCHANGED <<exec, disk>>
  /\ Inside

(* isRunLeaseOwnedByWorker; without the lease the execution ends here.  *)
CheckLease ==
  /\ At("lease")
  /\ pc' = IF lease = "held" THEN "record" ELSE "dead"
  /\ UNCHANGED <<exec, disk>>
  /\ Inside

(* The finalizing update.  That it matches no row is not noticed.  *)
Record ==
  /\ At("record")
  /\ row' = IF Active \/ (row.status = "cancelled" /\ exec.status = "cancelled")
              THEN [status |-> exec.status, pr |-> exec.pr, by |-> attempt]
              ELSE row
  /\ pc' = "insert"
  /\ UNCHANGED <<input, exec, disk, bundle, listed, rows, lease, asked, remote, aborted,
                 attempt, faults>>

Inserted == {e.name : e \in {e \in rows : e.by = attempt}}
ToInsert == {a \in Artifacts : listed[a] # Absent} \ Inserted

(* One statement for each artifact, in the order of the list. *)
InsertArtifact ==
  /\ At("insert")
  /\ \E a \in ToInsert :
       /\ \A b \in ToInsert : Place[a] <= Place[b]
       /\ rows' = rows \cup {[name |-> a, content |-> listed[a], by |-> attempt]}
  /\ UNCHANGED <<input, pc, exec, disk, bundle, listed, row, lease, asked, remote, aborted,
                 attempt, faults>>

(* The run is over and its job completed. *)
Finish ==
  /\ At("insert")
  /\ ToInsert = {}
  /\ pc' = "done"
  /\ UNCHANGED <<exec, disk>>
  /\ Inside

-----------------------------------------------------------------------------
(* The worker *)

(* The process dies, or a statement outside the try block fails and the       *)
(* worker requeues the job: the execution is over.                            *)
Crash ==
  /\ pc \notin {"done", "dead"}
  /\ SpendFault
  /\ pc' = "dead"
  /\ Elsewhere
  /\ UNCHANGED <<exec, disk, bundle, listed, remote>>

(* The lease of an execution that goes on expires, and another worker claims  *)
(* the run, which claimNextRunJob allows while the run is not over.           *)
LoseLease ==
  /\ pc \notin {"done", "dead"}
  /\ lease = "held"
  /\ Active
  /\ SpendFault
  /\ lease' = "lost"
  /\ UNCHANGED <<input, pc, exec, disk, bundle, listed, rows, row, asked, remote, aborted,
                 attempt>>

(* The next execution: of the worker that claimed the run meanwhile, or of one *)
(* that claims it now.                                                        *)
StartOver ==
  /\ \/ lease = "lost" /\ pc \in {"done", "dead"}
     \/ lease = "held" /\ pc = "dead" /\ Active
  /\ attempt' = attempt + 1
  /\ lease' = "held"
  /\ pc' = "claimed"
  /\ exec' = Fresh
  /\ listed' = Empty
  /\ aborted' = FALSE
  /\ UNCHANGED <<input, disk, bundle, rows, row, asked, remote, faults>>

(* Where the abort signal is still looked at. *)
Listening == {"prepare", "start", "scan", "plan", "apply", "skip", "verify", "verifying",
              "remediate", "remediating", "verified"}

(* The poll of the row every RUN_CANCELLATION_POLL_MS, or the heartbeat that  *)
(* could not extend the lease.                                                *)
Abort ==
  /\ Cancelled \/ lease # "held"
  /\ ~aborted
  /\ pc \in Listening
  /\ aborted' = TRUE
  /\ UNCHANGED <<input, pc, exec, disk, bundle, listed, rows, row, lease, asked, remote,
                 attempt, faults>>

-----------------------------------------------------------------------------
(* cancelRun: a read and one or two writes by id, whatever came in between. *)

ReadForCancel ==
  /\ asked = "none"
  /\ Active
  /\ SpendFault
  /\ asked' = IF row.status = "queued" THEN "queued" ELSE "running"
  /\ UNCHANGED <<input, pc, exec, disk, bundle, listed, rows, row, lease, remote, aborted,
                 attempt>>

WriteCancel ==
  /\ asked \in {"queued", "running"}
  /\ row' = [row EXCEPT !.status = IF asked = "queued" THEN "cancelled" ELSE "cancelling"]
  /\ asked' = IF asked = "queued" THEN "job" ELSE "none"
  /\ UNCHANGED <<input, pc, exec, disk, bundle, listed, rows, lease, remote, aborted,
                 attempt, faults>>

CancelJob ==
  /\ asked = "job"
  /\ lease' = "void"
  /\ asked' = "none"
  /\ UNCHANGED <<input, pc, exec, disk, bundle, listed, rows, row, remote, aborted,
                 attempt, faults>>

-----------------------------------------------------------------------------
Init ==
  /\ input \in Inputs
  /\ pc = "claimed"
  /\ exec = Fresh
  /\ disk = Empty /\ bundle = Empty /\ listed = Empty /\ rows = {}
  /\ row = [status |-> "queued", pr |-> FALSE, by |-> 0]
  /\ lease = "held" /\ asked = "none" /\ remote = "none" /\ aborted = FALSE
  /\ attempt = 1
  /\ faults = MaxFaults

Execute ==
  \/ Begin \/ PrepareWorkspace \/ StartWorkflow \/ ScanStep \/ PlanStep \/ ApplyStep
  \/ SkipApply \/ VerifyGuarded \/ StartVerify \/ Verify \/ SkipRemediation
  \/ StartRemediation \/ Remediate \/ EndVerify \/ Decide \/ FinalizeEvidence
  \/ UploadEvidence \/ TakeResult \/ EvaluateChecklist \/ EvidenceGone \/ PushBranch
  \/ PushRefused \/ CreatePull \/ Keep \/ NoPull \/ LastCheck \/ RewriteRunJson
  \/ CheckLease \/ Record \/ InsertArtifact \/ Finish \/ NoticeCancel

Disturb == Throw \/ AnswerLost \/ RewriteFails \/ Crash \/ LoseLease

CancelRun == ReadForCancel \/ WriteCancel \/ CancelJob

Next == Execute \/ Disturb \/ StartOver \/ Abort \/ CancelRun

Spec == Init /\ [][Next]_vars

-----------------------------------------------------------------------------
TypeOK ==
  /\ input \in Input
  /\ pc \in Checkpoints \cup Unchecked \cup Outside
  /\ exec \in Locals
  /\ {disk, bundle, listed} \subseteq Directory
  /\ rows \subseteq Evidence
  /\ row \in Row
  /\ lease \in Leases
  /\ asked \in {"none", "queued", "running", "job"}
  /\ remote \in {"none", "pushed", "opened"}
  /\ aborted \in BOOLEAN
  /\ attempt \in Attempts
  /\ faults \in 0..MaxFaults

(* A run that completes is an apply run whose last verification compiled and  *)
(* tested what it changed, within the limits of the policy as applied and not *)
(* only as planned: decisions, score, checklist and cancel checks together    *)
(* (policy.ts 625-698, scoring.ts, workflow/index.ts 720-769,                 *)
(* workflow-service.ts 1478-1544).  Under a threshold of 65 or less it could  *)
(* complete with failed tests that the policy only warns about.               *)
CompletedIsEarned ==
  row.by = attempt /\ row.status = "completed" /\ input.policy.pass > 65 =>
    /\ input.mode = "apply"
    /\ Disposition(input.scan, input.policy) = "supported"
    /\ exec.verify.compile.status = "passed"
    /\ \/ exec.verify.tests.status = "passed"
       \/ ~input.scan.hasTests /\ ~input.policy.requireTests
    /\ exec.verify.static.status # "failed"
    /\ exec.edit.files <= input.policy.maxFiles
    /\ exec.edit.lines <= input.policy.maxLines

(* A run blocked for its verification hides no failure of the code: under a   *)
(* policy that keeps code kinds out of its non-blocking list, every check     *)
(* that failed failed for the infrastructure (policy.ts 483-531,              *)
(* workflow/index.ts 253-289, 736-769).                                       *)
BlockedHidesNoFailure ==
  /\ pc \in {"finalize", "upload"} /\ exec.status = "blocked"
  /\ input.policy.nonBlocking \cap CodeKinds = {}
  => /\ exec.verify.static.status # "failed"
     /\ \A c \in {exec.verify.compile, exec.verify.tests} :
          c.status = "failed" => c.kind \notin CodeKinds

(* The evidence that is exported is of the execution that exports it, and     *)
(* holds every step of it, although the directory may hold files of earlier   *)
(* executions (writer.ts 56-88, store.ts 123-183; RC.md "verify.json exists   *)
(* and reflects terminal state").                                             *)
BundleIsComplete ==
  listed # Empty =>
    LET own == {a \in Artifacts : bundle[a].attempt = attempt} IN
      /\ {"run", "scan", "plan", "verify", "decisions", "score", "knowledge"} \subseteq own
      /\ input.mode = "apply" => "apply" \in own
      /\ exec.commit = 1 => "diff" \in own
      /\ exec.rules => {"remediation", "patch"} \subseteq own
      /\ bundle["run"].status # "none"

(* The rows of evidence_artifacts name files as they are on the local disk,   *)
(* as long as it is kept: what is written after the manifest was made is      *)
(* listed again, and also where an insert fails half way, the rows that are   *)
(* there agree.  A later execution may have written the file anew, and a      *)
(* rewrite that failed may have cut run.json off.  An execution that gets to  *)
(* its end leaves no file it listed without a row (workflow-service.ts        *)
(* 505-548, 1508-1518, 1903-1921, 1967-1984).                                 *)
RowsMatchDisk ==
  input.store # "s3_only" =>
    /\ \A e \in rows :
         \/ disk[e.name] = e.content
         \/ disk[e.name].attempt > e.by
         \/ disk[e.name].status = "torn"
    /\ pc = "done" => {a \in Artifacts : listed[a] # Absent} \subseteq Inserted

(* run.json tells what the row of the run tells, whichever way the execution  *)
(* ended whose outcome it is, if its rewrite succeeded; only a cancel that    *)
(* read the row before the execution ended and writes it afterwards comes in  *)
(* between (workflow-service.ts 505-548, 1173, 1903-1966; V1_STAGE11.md:92    *)
(* "`run.json` matches `/runs/:id`").                                         *)
RunJsonMatchesRow ==
  row.by = attempt /\ exec.rewritten /\ input.store # "s3_only" =>
    /\ disk["run"].attempt = attempt
    /\ disk["run"].pr = row.pr
    /\ disk["run"].status = row.status \/ Cancelled

(* A pull request that an execution opened has a commit and a checklist that  *)
(* passed on it, both of the same execution (RC.md "merge-checklist.json      *)
(* exists and records pass/fail reasons before PR creation",                  *)
(* workflow-service.ts 1562).                                                 *)
PullIsBacked ==
  exec.pr =>
    /\ remote = "opened"
    /\ exec.commit > 0 /\ exec.checklist = "passed"
    /\ exec.edit.files <= input.policy.maxFiles /\ exec.edit.lines <= input.policy.maxLines
    /\ disk["checklist"].attempt = attempt
    /\ exec.guarded => exec.edit.files > 0

(* Nothing fails without a failing call: the one configuration that fails     *)
(* every apply run removes the evidence before the checklist reads it         *)
(* (store.ts 306-309, workflow-service.ts 1490-1492).                         *)
FailureHasACause ==
  row.status = "failed" =>
    faults < MaxFaults \/ (input.store = "s3_only" /\ input.mode = "apply")

(* A build system that the coverage report excludes, or a guarded baseline    *)
(* reported as blocked, is not of a run that completed                        *)
(* (coverage-classification.ts, workflow/index.ts 771-794).                   *)
CoverageAgrees ==
  pc \in {"finalize", "upload"} /\ exec.status = "completed" /\ input.policy.pass > 65 =>
    LET disposition == Disposition(input.scan, input.policy)
        kind == FailureKindOf(input.mode, Decisions, exec.verify, input.scan, input.policy,
                              exec.guarded, exec.edit.files, exec.status)
    IN /\ kind \notin {"budget_guardrail", "unsupported_build_system"}
       /\ Coverage(input.scan, disposition, kind, exec.status).outcome = "none"

(* A verification that was aborted never makes an outcome: the run is         *)
(* recorded as cancelled, also if a call fails meanwhile, or by another       *)
(* execution, to which this one lost its lease.  Only such an execution opens *)
(* a pull request still, for nothing asks for the lease before its end        *)
(* (workflow/index.ts 556-636, 720; run-worker.ts 158-188;                    *)
(* workflow-service.ts 1306-1336, 1381-1420, 1546-1596, 1883-1926).           *)
AbortedIsNoResult ==
  aborted =>
    /\ row.by = attempt => Cancelled
    /\ exec.pr => lease # "held"
=============================================================================
