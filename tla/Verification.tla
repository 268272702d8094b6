---------------------------- MODULE Verification ----------------------------
(***************************************************************************)
(* The verification of a run and its deterministic remediation             *)
(* (packages/verifier/src): DefaultVerifier.run with its phases, retries   *)
(* and time budget, runCommand with its race of exit, timeout and abort,   *)
(* and the three remediators that CompositeDeterministicRemediator calls   *)
(* one after the other.  Workflow replaces all of it by what CanAnswer     *)
(* allows; AnswerIsAllowed is the other half of that bargain.              *)
(*                                                                         *)
(* What a command prints is kept as what the classifier and the            *)
(* remediators find in it: its failure kind, whether it tells of a cached  *)
(* resolution, of Lombok symptoms, and of packages the tests may not open. *)
(***************************************************************************)
EXTENDS Policy

CONSTANTS
  Inputs,      \* [scan, policy, tool, pom]; tool: toolAvailability
  CompileEnds, \* how a compilation that is left alone may end
  TestEnds,    \* how the tests may
  PatchSizes,  \* lines that a fix may change
  Budget       \* ticks until the deadline of one DefaultVerifier.run

(* A command that ended: a check, with what its output tells. *)
Result == [status : {"passed", "failed", "not_run"}, kind : FailureKinds \cup {"none"},
           cached : BOOLEAN, lombok : BOOLEAN, rules : SUBSET TestRules]

(* pom.xml: has a build with plugins, a compiler plugin, Lombok among its     *)
(* annotation processors, proc:none, a Lombok version, a surefire or failsafe *)
(* plugin; opened packages.                                                   *)
Pom == [plugins : BOOLEAN, compiler : BOOLEAN, path : BOOLEAN, procNone : BOOLEAN, lombok : BOOLEAN,
        runner : BOOLEAN, opens : SUBSET TestRules]

(* What classifyVerifyFailure makes of an exit: a failure has one of the       *)
(* kinds of its phase, a success has none.                                    *)
Classified(kinds) ==
  {r \in Result : \/ r.status = "passed" /\ r.kind = "none"
                  \/ r.status = "failed" /\ r.kind \in kinds}

Input == [scan : Scan, policy : Policies, tool : BOOLEAN, pom : Pom]

ASSUME VerificationAssumption ==
  /\ Inputs \subseteq Input
  /\ CompileEnds \subseteq Classified(CompileKinds)
  /\ TestEnds \subseteq Classified(TestKinds)
  /\ PatchSizes \subseteq Nat
  /\ Budget \in Nat

VARIABLES
  input,
  pc,        \* where the innermost of the functions is
  by,        \* whose call of DefaultVerifier.run, or what follows it
  task,      \* the command: its phase and which try it is
  cmd,       \* the child process: how it ended and the flags of runCommand
  got,       \* the result of the last command
  retried,   \* retryCount
  left,      \* ticks until the deadline
  part,      \* the checks of the verification in progress
  verify,    \* verifySummary: the last complete verification
  of,        \* the pom it saw
  pom,       \* the pom in the workspace
  head,      \* the pom as committed
  todo,      \* the commands that remediation has still to run
  fixed,     \* of this remediator: iterations, files and lines of its fixes
  commit,    \* commitAfter: the pom of the last commit of a remediator, in a set
  aborted    \* the execution's abort signal

vars == <<input, pc, by, task, cmd, got, retried, left, part, verify, of, pom, head, todo,
          fixed, commit, aborted>>

Bare(status, kind) ==
  [status |-> status, kind |-> kind, cached |-> FALSE, lombok |-> FALSE, rules |-> {}]

NotYet == Bare("not_run", "none")
MissingCommand == Bare("not_run", "tool_missing")
RetriesUsedUp == Bare("failed", "budget_exceeded")
Failed(kind) == Bare("failed", kind)

Running == NotYet   \* what an exit is before there is one
NoFixes == [tries |-> 0, files |-> 0, lines |-> 0]

IsMaven == input.scan.build = "maven"
Policy == input.policy

(* commandSpecAvailable, with getBuildCommand and getTestCommand. *)
Available == HasCommand(input.scan) /\ (input.scan.build = "gradle" \/ input.tool)

Tasks == [phase : {"prefetch", "compile", "tests", "action"},
          try : {"first", "forced", "purge", "again"}]
NoTask == [phase |-> "prefetch", try |-> "first"]
NoCommand == [exit |-> Running, timedOut |-> FALSE, aborted |-> FALSE]

(* Mutant of Bounded: the prefetch is left to itself. *)
BoundedBuilds(t) == t.phase \in {"compile", "tests"}

(* A verifier's command has a deadline and listens to the signal; a command   *)
(* that the infrastructure remediator runs by itself (runAction) has neither. *)
Bounded(t) == t.phase # "action"

Launch(phase, try) == task' = [phase |-> phase, try |-> try] /\ pc' = "spawn"

-----------------------------------------------------------------------------
(* runCommand *)

Untouched == UNCHANGED <<input, by, task, retried, part, verify, of, pom, head, todo, fixed,
                         commit>>

(* runCommandWithClassification does not start what it has no time for. *)
OutOfTime ==
  /\ pc = "spawn"
  /\ Bounded(task) /\ left = 0
  /\ got' = Failed("verify_timeout")
  /\ pc' = "judge"
  /\ UNCHANGED <<cmd, left, aborted>>
  /\ Untouched

Spawn ==
  /\ pc = "spawn"
  /\ Bounded(task) => left > 0
  /\ cmd' = [exit |-> Running, timedOut |-> FALSE, aborted |-> Bounded(task) /\ aborted]
  /\ pc' = "running"
  /\ UNCHANGED <<got, left, aborted>>
  /\ Untouched

IsRunning == pc = "running" /\ cmd.exit = Running

TimePasses ==
  /\ IsRunning /\ Bounded(task)
  /\ left > 0
  /\ left' = left - 1
  /\ UNCHANGED <<pc, cmd, got, aborted>>
  /\ Untouched

(* The timer of the phase or of the deadline, also when the child has ended   *)
(* and its streams are not closed yet.                                        *)
TimerFires ==
  /\ pc = "running" /\ Bounded(task) /\ ~cmd.timedOut
  /\ cmd' = [cmd EXCEPT !.timedOut = TRUE]
  /\ UNCHANGED <<pc, got, left, aborted>>
  /\ Untouched

(* The poll for cancels aborts the execution, while it waits for a command,   *)
(* for files or for the database: between these no event is handled.          *)
Abort ==
  /\ ~aborted /\ pc \in {"running", "walk", "answered", "fix"}
  /\ aborted' = TRUE
  /\ cmd' = IF pc = "running" /\ Bounded(task) THEN [cmd EXCEPT !.aborted = TRUE] ELSE cmd
  /\ UNCHANGED <<pc, got, left>>
  /\ Untouched

Passes == Bare("passed", "none")
Ends(t) ==
  CASE t.phase = "compile" /\ t.try # "purge" -> CompileEnds
    [] t.phase = "tests" /\ t.try # "purge" -> TestEnds
    [] OTHER -> {Passes, Failed("unknown")}

Killed == Failed("unknown")

ChildEnds ==
  /\ IsRunning
  /\ \E r \in Ends(task) \cup IF cmd.timedOut \/ cmd.aborted THEN {Killed} ELSE {} :
       cmd' = [cmd EXCEPT !.exit = r]
  /\ UNCHANGED <<pc, got, left, aborted>>
  /\ Untouched

(* The "error" event: the child could not be started. *)
CannotStart ==
  /\ IsRunning
  /\ got' = Failed(IF cmd.timedOut THEN "verify_timeout" ELSE "verifier_infrastructure_failure")
  /\ pc' = "judge"
  /\ UNCHANGED <<cmd, left, aborted>>
  /\ Untouched

FailedAs(r, kind) == [r EXCEPT !.status = "failed", !.kind = kind]

(* Mutant of Judged: a child that came to its end is believed. *)
JudgedByExit(c) ==
  IF c.exit.status = "passed" \/ ~(c.timedOut \/ c.aborted) THEN c.exit
  ELSE FailedAs(c.exit, IF c.timedOut THEN "verify_timeout" ELSE "verifier_infrastructure_failure")

(* The "close" event and the classification of what it finalized. *)
Judged(c) ==
  IF c.timedOut THEN FailedAs(c.exit, "verify_timeout")
  ELSE IF c.aborted THEN FailedAs(c.exit, "verifier_infrastructure_failure")
  ELSE c.exit

Close ==
  /\ pc = "running" /\ cmd.exit # Running
  /\ got' = Judged(cmd)
  /\ pc' = "judge"
  /\ UNCHANGED <<cmd, left, aborted>>
  /\ Untouched

-----------------------------------------------------------------------------
(* DefaultVerifier.run *)

Verifies == UNCHANGED <<input, by, cmd, got, verify, of, pom, head, todo, fixed, commit, aborted>>
NoAnswer == [compile |-> NotYet, tests |-> NotYet, static |-> NotYet]

(* maybeRunMavenPrefetch, for Maven where there is one. *)
StartRun ==
  /\ pc = "start"
  /\ left' = Budget
  /\ part' = [compile |-> NotYet, tests |-> NotYet]
  /\ retried' = 0
  /\ IF IsMaven /\ Policy.prefetch /\ input.tool
       THEN Launch("prefetch", "first")
       ELSE pc' = "compile" /\ UNCHANGED task
  /\ verify' = NoAnswer
  /\ UNCHANGED <<input, by, cmd, got, of, pom, head, todo, fixed, commit, aborted>>

Prefetched ==
  /\ pc = "judge" /\ task.phase = "prefetch"
  /\ pc' = "compile"
  /\ UNCHANGED <<task, retried, left, part>>
  /\ Verifies

(* The compilation, or none for want of a command. *)
BeginCompile ==
  /\ pc = "compile"
  /\ retried' = 0
  /\ IF Available
       THEN Launch("compile", "first") /\ UNCHANGED part
       ELSE /\ part' = [part EXCEPT !.compile = MissingCommand]
            /\ pc' = "tests"
            /\ UNCHANGED task
  /\ UNCHANGED left
  /\ Verifies

(* Mutant of SkipTests: tests run whatever became of the compilation. *)
SkipTestsUnlessMissing == aborted \/ ~input.scan.hasTests

SkipTests == aborted \/ ~input.scan.hasTests \/ ~CompiledCleanly(part.compile)

BeginTests ==
  /\ pc = "tests"
  /\ retried' = 0
  /\ IF ~SkipTests /\ Available
       THEN Launch("tests", "first") /\ UNCHANGED part
       ELSE /\ part' = [part EXCEPT !.tests = IF SkipTests THEN NotYet ELSE MissingCommand]
            /\ pc' = "static"
            /\ UNCHANGED task
  /\ UNCHANGED left
  /\ Verifies

IsBuild == pc = "judge" /\ task.phase \in {"compile", "tests"}

CachedResolution(r) == r.status = "failed" /\ r.kind = "artifact_resolution" /\ r.cached

(* shouldRetryArtifactResolution. *)
Retries == /\ IsMaven /\ task.try = "first"
           /\ Policy.retryCached /\ Policy.forceUpdate /\ CachedResolution(got)

Purges == /\ IsMaven /\ task.try \in {"first", "forced"} /\ ~Retries
          /\ Policy.purge /\ CachedResolution(got)

(* Mutant of MayRetry: the first retry is not counted. *)
MayRetryOnceMore == retried <= Policy.retries

MayRetry == retried < Policy.retries

RetryForced ==
  /\ IsBuild /\ Retries /\ MayRetry
  /\ retried' = retried + 1
  /\ Launch(task.phase, "forced")
  /\ UNCHANGED <<left, part>>
  /\ Verifies

PurgeCache ==
  /\ IsBuild /\ Purges /\ MayRetry
  /\ Launch(task.phase, "purge")
  /\ UNCHANGED <<retried, left, part>>
  /\ Verifies

RetryPurged ==
  /\ IsBuild /\ task.try = "purge"
  /\ retried' = retried + 1
  /\ Launch(task.phase, "again")
  /\ UNCHANGED <<left, part>>
  /\ Verifies

(* runBuildCheck returns: the last result, or that the retries are used up. *)
PhaseEnds ==
  /\ IsBuild /\ task.try # "purge"
  /\ ~((Retries \/ Purges) /\ MayRetry)
  /\ part' = [part EXCEPT ![task.phase] = IF Retries \/ Purges THEN RetriesUsedUp ELSE got]
  /\ pc' = IF task.phase = "compile" THEN "tests" ELSE "static"
  /\ UNCHANGED <<task, retried, left>>
  /\ Verifies

(* runBasicStaticChecks walks the files, unless it has been aborted. *)
BeginStatic ==
  /\ pc = "static" /\ ~aborted
  /\ pc' = "walk"
  /\ UNCHANGED <<task, retried, left, part>>
  /\ Verifies

(* What the call's locals are again once it has returned.                     *)
NoLocals ==
  /\ task' = NoTask /\ cmd' = NoCommand
  /\ got' = NotYet
  /\ retried' = 0 /\ left' = Budget
  /\ part' = [compile |-> NotYet, tests |-> NotYet]

Answer(static) ==
  /\ verify' = [compile |-> part.compile, tests |-> part.tests, static |-> static]
  /\ of' = pom
  /\ pc' = "answered"
  /\ NoLocals
  /\ UNCHANGED <<input, by, pom, head, todo, fixed, commit, aborted>>

EndStatic == pc = "walk" /\ \E r \in {Passes, Failed("code_failure")} : Answer(r)
SkipStatic == pc = "static" /\ aborted /\ Answer(NotYet)

-----------------------------------------------------------------------------
(* The remediators.  `by` says who asked for the verification that has been   *)
(* answered, or which remediator is asked whether it applies.                 *)

Remediates == UNCHANGED <<input, cmd, got, retried, left, part, verify, of, aborted>>

CallVerifier(caller) == by' = caller /\ pc' = "start"

(* verify as Policy knows it. *)
Plain(r) == [status |-> r.status, kind |-> r.kind]
Summary == [hasTests |-> input.scan.hasTests, compile |-> Plain(verify.compile),
            tests |-> Plain(verify.tests), static |-> Plain(verify.static)]

(* executeWorkflow goes on without remediation once it has been interrupted;  *)
(* otherwise it asks the composite.                                           *)
AfterFirst ==
  /\ pc = "answered" /\ by = "workflow"
  /\ IF aborted THEN pc' = "done" /\ UNCHANGED by ELSE pc' = "ask" /\ by' = "infra"
  /\ UNCHANGED <<task, pom, head, todo, fixed, commit>>
  /\ Remediates

InfraApplies == IsMaven /\ InfrastructureOnly(Summary, Policy)
CompileApplies == IsMaven /\ Policy.compileFixes.on /\ verify.compile.kind = "code_compile_failure"
TestsApply ==
  IsMaven /\ Policy.testFixes.on /\ verify.tests.kind = "java17_module_access_test_failure"

(* MavenInfraDeterministicRemediator: prefetch and the forced updates, each a *)
(* command of its own, whose result is only noted.                            *)
InfraCommands ==
  LET forced == Policy.retryCached /\ Policy.forceUpdate
      needs(r) == forced /\ r.kind = "artifact_resolution"
  IN (IF Policy.prefetch THEN 1 ELSE 0) + (IF needs(verify.compile) THEN 1 ELSE 0)
       + (IF input.scan.hasTests /\ needs(verify.tests) THEN 1 ELSE 0)

AskInfra ==
  /\ pc = "ask" /\ by = "infra"
  /\ IF InfraApplies THEN pc' = "act" /\ todo' = InfraCommands /\ UNCHANGED by
                     ELSE pc' = "ask" /\ by' = "compile" /\ UNCHANGED todo
  /\ fixed' = NoFixes
  /\ UNCHANGED <<task, pom, head, commit>>
  /\ Remediates

(* Mutant of RunAction: it looks for another command when there is none. *)
RunActionOneMore ==
  /\ pc = "act" /\ todo >= 0
  /\ todo' = todo - 1
  /\ Launch("action", "first")
  /\ UNCHANGED <<by, pom, head, fixed, commit>>
  /\ Remediates

RunAction ==
  /\ pc = "act" /\ todo > 0
  /\ todo' = todo - 1
  /\ Launch("action", "first")
  /\ UNCHANGED <<by, pom, head, fixed, commit>>
  /\ Remediates

ActionEnds ==
  /\ pc = "judge" /\ task.phase = "action"
  /\ pc' = "act"
  /\ UNCHANGED <<by, task, pom, head, todo, fixed, commit>>
  /\ Remediates

VerifyAgain ==
  /\ pc = "act" /\ todo = 0
  /\ CallVerifier(by)
  /\ UNCHANGED <<task, pom, head, todo, fixed, commit>>
  /\ Remediates

(* One purge of the local repository, and one verification more. *)
AfterInfra ==
  /\ pc = "answered" /\ by \in {"infra", "infra purged"}
  /\ IF by = "infra" /\ Policy.purge /\ (verify.compile.cached \/ verify.tests.cached)
       THEN pc' = "act" /\ by' = "infra purged" /\ todo' = 1
       ELSE pc' = "ask" /\ by' = "compile" /\ UNCHANGED todo
  /\ UNCHANGED <<task, pom, head, fixed, commit>>
  /\ Remediates

(* Whether a remediator of the pom starts. *)
AskCompile ==
  /\ pc = "ask" /\ by = "compile"
  /\ IF CompileApplies THEN pc' = "fix" /\ UNCHANGED by ELSE pc' = "ask" /\ by' = "tests"
  /\ fixed' = NoFixes
  /\ UNCHANGED <<task, pom, head, todo, commit>>
  /\ Remediates

AskTests ==
  /\ pc = "ask" /\ by = "tests"
  /\ pc' = IF TestsApply THEN "fix" ELSE "done"
  /\ fixed' = NoFixes
  /\ UNCHANGED <<by, task, pom, head, todo, commit>>
  /\ Remediates

(* The limits of the remediator at work. *)
Limits == IF by = "compile" THEN Policy.compileFixes ELSE Policy.testFixes

(* ensureMavenCompilerPluginForLombok, ensureLombokAnnotationProcessorPath    *)
(* and removeProcNone: the poms that an allowed rule with an effect gives.    *)
(* The first is taken, in the order of the policy's list, which may be any.   *)
CompileFix(p) ==
  LET given(rule, when, q) == IF rule \in Limits.allowed /\ when THEN {q} ELSE {} IN
  IF verify.compile.lombok
    THEN given("plugin", p.lombok /\ p.plugins /\ ~p.compiler,
               [p EXCEPT !.compiler = TRUE, !.path = TRUE])
         \cup given("processor path", p.lombok /\ p.compiler /\ ~p.path, [p EXCEPT !.path = TRUE])
         \cup given("proc none", p.compiler /\ p.procNone, [p EXCEPT !.procNone = FALSE])
    ELSE {}

(* ensureModuleAccessOpenInPom, for one of the required and allowed rules. *)
TestFix(p) ==
  IF p.runner
    THEN {[p EXCEPT !.opens = @ \cup {r}] :
            r \in (verify.tests.rules \cap Limits.allowed) \ p.opens}
    ELSE {}

(* isSupportedModuleAccessFailure: once in its loop, the remediator also goes *)
(* on after tests that timed out with the signature in their output.          *)
SupportedTestFailure ==
  /\ verify.tests.status = "failed" /\ verify.tests.rules # {}
  /\ verify.tests.kind \in {"java17_module_access_test_failure", "verify_timeout"}

Fixes ==
  IF fixed.tries = Limits.tries THEN {}
  ELSE IF by = "compile"
         THEN IF verify.compile.kind = "code_compile_failure" THEN CompileFix(pom) ELSE {}
         ELSE IF SupportedTestFailure THEN TestFix(pom) ELSE {}

(* Mutant of WithinLimits: a fix is measured, not the sum of the fixes. *)
EachWithinLimits(f, lines) ==
  1 <= Limits.filesPerFix /\ lines <= Limits.linesPerFix /\ f.files <= Limits.files

(* A fix changes one file, the pom. *)
WithinLimits(f, lines) ==
  /\ 1 <= Limits.filesPerFix /\ lines <= Limits.linesPerFix
  /\ f.files <= Limits.files /\ f.lines <= Limits.lines

Grown(lines) ==
  [tries |-> fixed.tries + 1, files |-> fixed.files + 1, lines |-> fixed.lines + lines]

(* Mutant of ApplyFix: nothing will be fixed after the last iteration, so it  *)
(* is not verified.                                                           *)
ApplyFixUnverified ==
  /\ pc = "fix"
  /\ \E p \in Fixes, lines \in PatchSizes :
       /\ WithinLimits(Grown(lines), lines)
       /\ pom' = p
       /\ fixed' = Grown(lines)
  /\ IF fixed'.tries < Limits.tries THEN pc' = "start" ELSE pc' = "fix"
  /\ UNCHANGED <<by, task, head, todo, commit>>
  /\ Remediates

(* The pom is written, and verified again. *)
ApplyFix ==
  /\ pc = "fix"
  /\ \E p \in Fixes, lines \in PatchSizes :
       /\ WithinLimits(Grown(lines), lines)
       /\ pom' = p
       /\ fixed' = Grown(lines)
  /\ CallVerifier(by)
  /\ UNCHANGED <<task, head, todo, commit>>
  /\ Remediates

AfterFix ==
  /\ pc = "answered" /\ by \in {"compile", "tests"}
  /\ pc' = "fix"
  /\ UNCHANGED <<by, task, pom, head, todo, fixed, commit>>
  /\ Remediates

(* Mutant of LastCommit: the composite takes what the last remediator tells. *)
LastCommitOfLast == IF fixed.tries > 0 /\ pom # head THEN {pom} ELSE {}

(* commitPendingPomChanges, and the commitAfter that the composite keeps. *)
LastCommit == IF fixed.tries > 0 /\ pom # head THEN {pom} ELSE commit

(* No rule matches, one exceeds a limit, or the iterations are used up.  *)
EndFixes ==
  /\ pc = "fix"
  /\ Fixes = {} \/ \E lines \in PatchSizes : ~WithinLimits(Grown(lines), lines)
  /\ head' = pom
  /\ commit' = LastCommit
  /\ IF by = "compile" THEN pc' = "ask" /\ by' = "tests" ELSE pc' = "done" /\ UNCHANGED by
  /\ UNCHANGED <<task, pom, todo, fixed>>
  /\ Remediates

-----------------------------------------------------------------------------
Init ==
  /\ input \in Inputs
  /\ pc = "start" /\ by = "workflow"
  /\ task = NoTask /\ cmd = NoCommand
  /\ got = NotYet
  /\ retried = 0 /\ left = Budget /\ todo = 0
  /\ part = [compile |-> NotYet, tests |-> NotYet]
  /\ verify = NoAnswer
  /\ pom = input.pom /\ head = input.pom /\ of = input.pom
  /\ fixed = NoFixes
  /\ commit = {}
  /\ aborted = FALSE

Proceed ==
  \/ OutOfTime \/ Spawn \/ Close \/ StartRun \/ Prefetched \/ BeginCompile
  \/ BeginTests \/ RetryForced \/ PurgeCache \/ RetryPurged \/ PhaseEnds \/ BeginStatic \/ EndStatic \/ SkipStatic
  \/ AfterFirst \/ AskInfra \/ RunAction \/ ActionEnds \/ VerifyAgain \/ AfterInfra
  \/ AskCompile \/ AskTests \/ ApplyFix \/ AfterFix \/ EndFixes

Next == Proceed \/ CannotStart \/ TimePasses \/ TimerFires \/ Abort \/ ChildEnds

Spec == Init /\ [][Next]_vars

(* The event loop runs, timers fire, and a child that has been killed ends.   *)
(* The code bounds no command of the infrastructure remediator: that these    *)
(* end by themselves is an assumption on Maven.                               *)
FairSpec ==
  /\ Spec
  /\ WF_vars(Proceed)
  /\ WF_vars(TimerFires)
  /\ WF_vars(ChildEnds /\ cmd.timedOut)
  /\ WF_vars(ChildEnds /\ task.phase = "action")

-----------------------------------------------------------------------------
Phases == {"start", "spawn", "running", "judge", "compile", "tests", "static", "walk",
           "answered", "ask", "act", "fix", "done"}

TypeOK ==
  /\ input \in Input
  /\ pc \in Phases
  /\ by \in {"workflow", "infra", "infra purged", "compile", "tests"}
  /\ task \in Tasks
  /\ cmd \in [exit : Result, timedOut : BOOLEAN, aborted : BOOLEAN]
  /\ got \in Result
  /\ retried \in Nat /\ left \in 0..Budget /\ todo \in 0..3
  /\ part \in [compile : Result, tests : Result]
  /\ verify \in [compile : Result, tests : Result, static : Result]
  /\ {of, pom, head} \cup commit \subseteq Pom
  /\ fixed \in [tries : Nat, files : Nat, lines : Nat]
  /\ aborted \in BOOLEAN

(* Whatever happens to its commands, DefaultVerifier answers what Workflow    *)
(* takes for possible (verifier/index.ts 588-692).                            *)
AnswerIsAllowed == pc = "answered" => CanAnswer(input.scan, Summary, aborted)

(* A phase that ends after the execution was aborted, or whose command timed  *)
(* out, neither passes nor blames the code, in whichever order the exit, the  *)
(* timer and the abort came (commands.ts 93-227, index.ts 314-402).           *)
NoVerdictOnceStopped ==
  [][\A phase \in {"compile", "tests"} :
       part'[phase] # part[phase] /\ part'[phase].status # "not_run"
         /\ (aborted \/ cmd.timedOut)
       => part'[phase].status = "failed" /\ part'[phase].kind \notin CodeKinds]_vars

(* The verdict that decides about a run is of the pom that was committed:     *)
(* every fix is verified before it is kept, and a fix that exceeds the limits *)
(* is not written (compile-remediator.ts 384-486, test-runtime-remediator.ts  *)
(* 381-507, remediator.ts 203-262).                                           *)
VerdictIsOfTheCommit == pc = "done" => of = pom /\ pom = head

(* commitAfter, which decides whether there is a pull request, names the last *)
(* commit of whichever remediator made one (remediator.ts 225-248).           *)
CommitIsNamed == pc = "done" => commit = IF head = input.pom THEN {} ELSE {head}

(* The retries of a phase stay within the policy, and so do the iterations,   *)
(* files and lines of a remediator, each within its own limits                *)
(* (index.ts 442-586, compile-remediator.ts 392-428, test-runtime-remediator.ts *)
(* 402-448).                                                                  *)
StaysWithinPolicy ==
  /\ retried <= Policy.retries
  /\ by \in {"compile", "tests"} /\ pc # "ask" =>
       /\ fixed.tries <= Limits.tries
       /\ fixed.files <= Limits.files /\ fixed.lines <= Limits.lines

(* A verification ends with its remediation: every command of the verifier is *)
(* killed in time and no loop of retries or fixes goes on for ever (hangs of  *)
(* the children, index.ts 588-692, remediator.ts, commands.ts 42-61).         *)
VerificationEnds == <>(pc = "done")
=============================================================================
