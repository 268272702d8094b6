------------------------- MODULE VerificationProofs -------------------------
(***************************************************************************)
(* The safety of Verification, for every project, policy, output of the    *)
(* commands and deadline: the verdict a run is decided by is of the pom    *)
(* that was committed, and a command that was stopped never passes and     *)
(* never blames the code.                                                  *)
(***************************************************************************)
EXTENDS Verification, TLAPS

-----------------------------------------------------------------------------
(* Types *)

Child == [exit : Result, timedOut : BOOLEAN, aborted : BOOLEAN]

LEMMA InputIsTyped ==
  ASSUME input \in Input
  PROVE  /\ input.scan \in Scan /\ Policy \in Policies /\ input.tool \in BOOLEAN /\ input.pom \in Pom
         /\ Policy.retries \in Nat
         /\ Policy.compileFixes \in Remediations /\ Policy.testFixes \in Remediations
<1>1. input \in [scan : Scan, policy : Policies, tool : BOOLEAN, pom : Pom]
  BY DEF Input
<1>2. Policy \in Policies BY <1>1 DEF Policy
<1> QED BY <1>1, <1>2 DEF Policies, Policy

LEMMA BareIsResult ==
  ASSUME NEW status \in {"passed", "failed", "not_run"}, NEW kind \in FailureKinds \cup {"none"}
  PROVE  Bare(status, kind) \in Result
BY DEF Bare, Result

LEMMA KindsAreFailureKinds ==
  /\ CompileKinds \subseteq FailureKinds /\ TestKinds \subseteq FailureKinds
  /\ {"tool_missing", "budget_exceeded", "unknown", "code_failure", "verify_timeout",
      "verifier_infrastructure_failure"} \subseteq FailureKinds
BY DEF CompileKinds, TestKinds, FailureKinds, CodeKinds, InfrastructureKinds

LEMMA NamedResults ==
  /\ NotYet \in Result /\ MissingCommand \in Result /\ RetriesUsedUp \in Result
  /\ Passes \in Result /\ Killed \in Result /\ Failed("code_failure") \in Result
  /\ Failed("verify_timeout") \in Result
  /\ Failed("verifier_infrastructure_failure") \in Result
BY BareIsResult, KindsAreFailureKinds
   DEF NotYet, MissingCommand, RetriesUsedUp, Passes, Killed, Failed

LEMMA FailedAsIsResult ==
  ASSUME NEW r \in Result, NEW kind \in FailureKinds
  PROVE  /\ FailedAs(r, kind) \in Result
         /\ FailedAs(r, kind).status = "failed" /\ FailedAs(r, kind).kind = kind
BY DEF FailedAs, Result

LEMMA JudgedIsResult ==
  ASSUME NEW c \in Child
  PROVE  Judged(c) \in Result
BY FailedAsIsResult, KindsAreFailureKinds DEF Judged, Child

LEMMA EndsAreResults ==
  ASSUME NEW t
  PROVE  Ends(t) \subseteq Result
<1>1. CompileEnds \subseteq Result /\ TestEnds \subseteq Result
  BY VerificationAssumption DEF Classified
<1>2. {Passes, Failed("unknown")} \subseteq Result BY NamedResults DEF Killed
<1> QED BY <1>1, <1>2 DEF Ends

LEMMA NothingIsTyped ==
  /\ NoTask \in Tasks /\ NoCommand \in Child
  /\ NoAnswer \in [compile : Result, tests : Result, static : Result]
BY NamedResults DEF NoTask, Tasks, NoCommand, Child, Running, NoAnswer

(* A fix gives a pom.  *)
LEMMA FixesArePoms ==
  ASSUME TypeOK
  PROVE  Fixes \subseteq Pom
<1>1. pom \in Pom BY DEF TypeOK
<1>2. CompileFix(pom) \subseteq Pom BY <1>1 DEF CompileFix, Pom
<1>3. TestFix(pom) \subseteq Pom
  <2>1. verify.tests.rules \subseteq TestRules BY DEF TypeOK, Result
  <2> QED BY <1>1, <2>1 DEF TestFix, Pom
<1> QED BY <1>2, <1>3 DEF Fixes

LEMMA GrownIsTyped ==
  ASSUME TypeOK, NEW lines \in Nat
  PROVE  Grown(lines) \in [tries : Nat, files : Nat, lines : Nat]
<1>1. fixed \in [tries : Nat, files : Nat, lines : Nat] BY DEF TypeOK
<1>2. fixed.tries \in Nat /\ fixed.files \in Nat /\ fixed.lines \in Nat BY <1>1
<1>3. fixed.tries + 1 \in Nat /\ fixed.files + 1 \in Nat /\ fixed.lines + lines \in Nat BY <1>2
<1> QED BY <1>3 DEF Grown

LEMMA InfraCommandsAtMost3 == InfraCommands \in 0..3
<1> DEFINE forced == Policy.retryCached /\ Policy.forceUpdate
           needs(r) == forced /\ r.kind = "artifact_resolution"
           a == IF Policy.prefetch THEN 1 ELSE 0
           b == IF needs(verify.compile) THEN 1 ELSE 0
           c == IF input.scan.hasTests /\ needs(verify.tests) THEN 1 ELSE 0
<1>1. a \in 0..1 /\ b \in 0..1 /\ c \in 0..1 OBVIOUS
<1>2. InfraCommands = a + b + c BY DEF InfraCommands
<1> HIDE DEF a, b, c
<1> QED BY <1>1, <1>2
(* A step of the commands and of DefaultVerifier.run leaves to the             *)
(* remediators what is theirs, and they leave it what is its.                 *)
LEMMA CommandsKeepTypes ==
  ASSUME TypeOK,
         \/ OutOfTime \/ Spawn \/ Close \/ CannotStart \/ TimePasses \/ TimerFires
         \/ Abort \/ ChildEnds
  PROVE  TypeOK'
<1> USE NamedResults, VerificationAssumption DEF Untouched
<1>0. cmd \in Child /\ pc \in Phases /\ left \in 0..Budget BY DEF TypeOK, Child
<1>1. /\ input' = input /\ by' = by /\ task' = task /\ retried' = retried /\ part' = part
      /\ verify' = verify /\ of' = of /\ pom' = pom /\ head' = head /\ todo' = todo
      /\ fixed' = fixed /\ commit' = commit
  BY DEF OutOfTime, Spawn, Close, CannotStart, TimePasses, TimerFires, Abort, ChildEnds
<1>2. pc' \in Phases
  BY <1>0
  DEF OutOfTime, Spawn, Close, CannotStart, TimePasses, TimerFires, Abort, ChildEnds, Phases
<1>3. left' \in 0..Budget /\ aborted' \in BOOLEAN
  <2>1. CASE TimePasses
    <3>1. left > 0 /\ left' = left - 1 /\ aborted' = aborted BY <2>1 DEF TimePasses
    <3>2. left' \in 0..Budget BY <1>0, <3>1
    <3> QED BY <3>1, <3>2 DEF TypeOK
  <2>2. CASE Abort BY <1>0, <2>2 DEF Abort
  <2>3. CASE ~TimePasses /\ ~Abort
    BY <1>0, <2>3 DEF OutOfTime, Spawn, Close, CannotStart, TimerFires, ChildEnds, TypeOK
  <2> QED BY <2>1, <2>2, <2>3
<1>4. cmd' \in Child
  <2>1. CASE Spawn
    <3> DEFINE b == Bounded(task) /\ aborted
    <3>1. b \in BOOLEAN OBVIOUS
    <3>2. cmd' = [exit |-> Running, timedOut |-> FALSE, aborted |-> b] BY <2>1 DEF Spawn
    <3> HIDE DEF b
    <3> QED BY <3>1, <3>2 DEF Child, Running
  <2>2. CASE TimerFires BY <1>0, <2>2 DEF TimerFires, Child
  <2>3. CASE Abort BY <1>0, <2>3 DEF Abort, Child
  <2>4. CASE ChildEnds
    <3>1. PICK r \in Result : cmd' = [cmd EXCEPT !.exit = r]
      BY <2>4, EndsAreResults DEF ChildEnds
    <3> QED BY <1>0, <3>1 DEF Child
  <2>5. CASE OutOfTime \/ Close \/ CannotStart \/ TimePasses
    BY <1>0, <2>5 DEF OutOfTime, Close, CannotStart, TimePasses
  <2> QED BY <2>1, <2>2, <2>3, <2>4, <2>5
<1>5. got' \in Result
  <2>1. CASE OutOfTime BY <2>1 DEF OutOfTime
  <2>2. CASE Close BY <1>0, <2>2, JudgedIsResult DEF Close
  <2>3. CASE CannotStart BY <2>3 DEF CannotStart
  <2>4. CASE Spawn \/ TimePasses \/ TimerFires \/ Abort \/ ChildEnds
    BY <2>4 DEF Spawn, TimePasses, TimerFires, Abort, ChildEnds, TypeOK
  <2> QED BY <2>1, <2>2, <2>3, <2>4
<1> QED BY <1>1, <1>2, <1>3, <1>4, <1>5 DEF TypeOK, Child

LEMMA VerifierKeepsTypes ==
  ASSUME TypeOK,
         \/ StartRun \/ Prefetched \/ BeginCompile \/ BeginTests \/ RetryForced \/ PurgeCache
         \/ RetryPurged \/ PhaseEnds \/ BeginStatic
  PROVE  TypeOK'
<1> USE NamedResults, VerificationAssumption DEF Verifies
<1>0. /\ part \in [compile : Result, tests : Result] /\ left \in 0..Budget /\ retried \in Nat
      /\ got \in Result /\ pc \in Phases /\ task \in Tasks
  BY DEF TypeOK
<1>1. /\ input' = input /\ by' = by /\ cmd' = cmd /\ got' = got /\ of' = of
      /\ pom' = pom /\ head' = head /\ todo' = todo /\ fixed' = fixed /\ commit' = commit
      /\ aborted' = aborted
      /\ verify' \in {verify, NoAnswer}
  BY DEF StartRun, Prefetched, BeginCompile, BeginTests, RetryForced, PurgeCache, RetryPurged,
         PhaseEnds, BeginStatic
<1>2. pc' \in Phases /\ left' \in 0..Budget /\ retried' \in Nat
  BY <1>0
  DEF StartRun, Prefetched, BeginCompile, BeginTests, RetryForced, PurgeCache, RetryPurged,
      PhaseEnds, BeginStatic, Launch, Phases
<1>3. task' \in Tasks
  <2>1. CASE RetryForced \/ PurgeCache \/ RetryPurged
    BY <1>0, <2>1 DEF RetryForced, PurgeCache, RetryPurged, Launch, Tasks
  <2>2. CASE StartRun \/ BeginCompile \/ BeginTests
    BY <1>0, <2>2 DEF StartRun, BeginCompile, BeginTests, Launch, Tasks
  <2>3. CASE Prefetched \/ PhaseEnds \/ BeginStatic
    BY <1>0, <2>3 DEF Prefetched, PhaseEnds, BeginStatic
  <2> QED BY <2>1, <2>2, <2>3
<1>4. part' \in [compile : Result, tests : Result]
  <2>1. CASE StartRun BY <2>1 DEF StartRun
  <2>2. CASE BeginCompile BY <1>0, <2>2 DEF BeginCompile
  <2>3. CASE BeginTests BY <1>0, <2>3 DEF BeginTests
  <2>4. CASE PhaseEnds
    <3>1. PICK r \in Result : part' = [part EXCEPT ![task.phase] = r]
      BY <1>0, <2>4 DEF PhaseEnds
    <3>2. task.phase \in {"compile", "tests"} BY <2>4 DEF PhaseEnds, IsBuild
    <3> QED BY <1>0, <3>1, <3>2
  <2>5. CASE Prefetched \/ RetryForced \/ PurgeCache \/ RetryPurged \/ BeginStatic
    BY <1>0, <2>5 DEF Prefetched, RetryForced, PurgeCache, RetryPurged, BeginStatic
  <2> QED BY <2>1, <2>2, <2>3, <2>4, <2>5
<1> QED BY <1>1, <1>2, <1>3, <1>4, NothingIsTyped DEF TypeOK

LEMMA RemediatorsKeepTypes ==
  ASSUME TypeOK,
         \/ AfterFirst \/ AskInfra \/ RunAction \/ ActionEnds \/ VerifyAgain \/ AfterInfra
         \/ AskCompile \/ AskTests \/ ApplyFix \/ AfterFix \/ EndFixes
  PROVE  TypeOK'
<1> USE DEF Remediates
<1>0. /\ todo \in 0..3 /\ pc \in Phases /\ task \in Tasks /\ {of, pom, head} \cup commit \subseteq Pom
      /\ fixed \in [tries : Nat, files : Nat, lines : Nat]
      /\ by \in {"workflow", "infra", "infra purged", "compile", "tests"}
  BY DEF TypeOK
<1>1. /\ input' = input /\ cmd' = cmd /\ got' = got /\ retried' = retried /\ left' = left
      /\ part' = part /\ verify' = verify /\ of' = of /\ aborted' = aborted
  BY DEF AfterFirst, AskInfra, RunAction, ActionEnds, VerifyAgain, AfterInfra, AskCompile,
         AskTests, ApplyFix, AfterFix, EndFixes
<1>2. pc' \in Phases /\ by' \in {"workflow", "infra", "infra purged", "compile", "tests"}
  BY <1>0
  DEF AfterFirst, AskInfra, RunAction, ActionEnds, VerifyAgain, AfterInfra, AskCompile, AskTests,
      ApplyFix, AfterFix, EndFixes, CallVerifier, Launch, Phases
<1>3. task' \in Tasks
  <2>1. CASE RunAction BY <2>1 DEF RunAction, Launch, Tasks
  <2>2. CASE ~RunAction
    BY <1>0, <2>2 DEF AfterFirst, AskInfra, ActionEnds, VerifyAgain, AfterInfra, AskCompile,
                      AskTests, ApplyFix, AfterFix, EndFixes
  <2> QED BY <2>1, <2>2
<1>4. todo' \in 0..3
  <2>1. CASE AskInfra BY <1>0, <2>1, InfraCommandsAtMost3 DEF AskInfra
  <2>2. CASE RunAction
    <3>1. todo > 0 /\ todo' = todo - 1 BY <2>2 DEF RunAction
    <3>2. todo \in 0..3 BY <1>0
    <3> QED BY <3>1, <3>2
  <2>3. CASE AfterInfra
    <3>1. todo' = 1 \/ todo' = todo BY <2>3 DEF AfterInfra
    <3>2. todo \in 0..3 BY <1>0
    <3> QED BY <3>1, <3>2
  <2>4. CASE ~AskInfra /\ ~RunAction /\ ~AfterInfra
    BY <1>0, <2>4 DEF AfterFirst, ActionEnds, VerifyAgain, AskCompile, AskTests, ApplyFix,
                      AfterFix, EndFixes
  <2> QED BY <2>1, <2>2, <2>3, <2>4
<1>5. {of, pom', head'} \cup commit' \subseteq Pom
  <2>1. CASE ApplyFix BY <1>0, <2>1, FixesArePoms DEF ApplyFix
  <2>2. CASE EndFixes BY <1>0, <2>2 DEF EndFixes, LastCommit
  <2>3. CASE ~ApplyFix /\ ~EndFixes
    BY <1>0, <2>3 DEF AfterFirst, AskInfra, RunAction, ActionEnds, VerifyAgain, AfterInfra,
                      AskCompile, AskTests, AfterFix
  <2> QED BY <2>1, <2>2, <2>3
<1>6. fixed' \in [tries : Nat, files : Nat, lines : Nat]
  <2>1. CASE AskInfra \/ AskCompile \/ AskTests
    BY <2>1 DEF AskInfra, AskCompile, AskTests, NoFixes
  <2>2. CASE ApplyFix
    <3>1. PICK lines \in PatchSizes : fixed' = Grown(lines) BY <2>2 DEF ApplyFix
    <3>2. lines \in Nat BY VerificationAssumption
    <3> QED BY <3>1, <3>2, GrownIsTyped
  <2>3. CASE ~AskInfra /\ ~AskCompile /\ ~AskTests /\ ~ApplyFix
    BY <1>0, <2>3 DEF AfterFirst, RunAction, ActionEnds, VerifyAgain, AfterInfra, AfterFix, EndFixes
  <2> QED BY <2>1, <2>2, <2>3
<1> QED BY <1>1, <1>2, <1>3, <1>4, <1>5, <1>6 DEF TypeOK

LEMMA AnswerKeepsTypes ==
  ASSUME TypeOK, EndStatic \/ SkipStatic
  PROVE  TypeOK'
<1>1. PICK r \in Result : Answer(r)
  BY NamedResults DEF EndStatic, SkipStatic
<1>2. verify' \in [compile : Result, tests : Result, static : Result]
  BY <1>1 DEF Answer, TypeOK
<1>3. /\ task' \in Tasks /\ cmd' \in Child /\ got' \in Result /\ retried' \in Nat
      /\ left' \in 0..Budget /\ part' \in [compile : Result, tests : Result]
  BY <1>1, NothingIsTyped, NamedResults, VerificationAssumption DEF Answer, NoLocals
<1> QED BY <1>1, <1>2, <1>3 DEF Answer, TypeOK, Child, Phases

LEMMA InitTypes == Init => TypeOK
<1> SUFFICES ASSUME Init PROVE TypeOK OBVIOUS
<1>0. input \in Input BY VerificationAssumption DEF Init
<1>1. input.pom \in Pom BY <1>0, InputIsTyped
<1>2. task \in Tasks /\ cmd \in [exit : Result, timedOut : BOOLEAN, aborted : BOOLEAN]
  BY NothingIsTyped DEF Init, Child
<1>3. pc \in Phases /\ left \in 0..Budget /\ retried \in Nat /\ todo \in 0..3
  BY VerificationAssumption DEF Init, Phases
<1>4. fixed \in [tries : Nat, files : Nat, lines : Nat] BY DEF Init, NoFixes
<1> QED BY <1>0, <1>1, <1>2, <1>3, <1>4, NamedResults, NothingIsTyped DEF Init, TypeOK

LEMMA StepTypes == TypeOK /\ [Next]_vars => TypeOK'
<1> SUFFICES ASSUME TypeOK, [Next]_vars PROVE TypeOK' OBVIOUS
<1>1. CASE UNCHANGED vars BY <1>1 DEF vars, TypeOK
<1>2. CASE Next
  BY <1>2, CommandsKeepTypes, VerifierKeepsTypes, RemediatorsKeepTypes, AnswerKeepsTypes
  DEF Next, Proceed
<1> QED BY <1>1, <1>2

(* The variables of the verification keep their types for every policy,       *)
(* whatever the commands print.                                               *)
THEOREM VerificationTypes == Spec => []TypeOK
BY InitTypes, StepTypes, PTL DEF Spec

-----------------------------------------------------------------------------
(* The verdict and the commit *)

Infra == {"infra", "infra purged"}
OfThePom == {"compile", "tests"}
Verifying == {"start", "spawn", "running", "judge", "compile", "tests", "static", "walk"}
WithCommand == {"spawn", "running", "judge"}

(* Who may be where: the commands of the infrastructure remediator are run    *)
(* for it alone, and the pom is fixed by the other two.                       *)
Where ==
  /\ pc \in WithCommand /\ task.phase = "action" => by \in Infra
  /\ pc = "act" => by \in Infra
  /\ pc = "fix" => by \in OfThePom
  /\ pc = "ask" => by \in {"infra"} \cup OfThePom
  /\ pc = "done" => by \in {"workflow", "tests"}

(* What fixes do to a pom: no rule takes back what another has done.  *)
Grows(p, q) ==
  /\ p.compiler => q.compiler
  /\ p.path => q.path
  /\ q.procNone => p.procNone
  /\ p.plugins = q.plugins /\ p.lombok = q.lombok /\ p.runner = q.runner
  /\ p.opens \subseteq q.opens

(* Only while a fix is being verified is the last verdict not of the pom; only *)
(* while a remediator of the pom is at work is the pom not the committed one, *)
(* and then it has grown since.                                               *)
CommitInv ==
  /\ (by \in OfThePom /\ pc \in Verifying) \/ of = pom
  /\ (by \in OfThePom /\ pc \in Verifying \cup {"answered", "fix"}) \/ pom = head
  /\ Grows(input.pom, head) /\ Grows(head, pom)
  /\ fixed.tries = 0 => pom = head
  /\ commit = IF head = input.pom THEN {} ELSE {head}

LEMMA GrowsIsAnOrder ==
  ASSUME NEW p \in Pom, NEW q \in Pom, NEW r \in Pom
  PROVE  /\ Grows(p, p)
         /\ Grows(p, q) /\ Grows(q, r) => Grows(p, r)
         /\ Grows(p, q) /\ Grows(q, p) => p = q
<1>1. Grows(p, p) BY DEF Grows
<1>2. Grows(p, q) /\ Grows(q, r) => Grows(p, r) BY DEF Grows, Pom
<1>3. ASSUME Grows(p, q), Grows(q, p) PROVE p = q
  <2>1. /\ p.compiler = q.compiler /\ p.path = q.path /\ p.procNone = q.procNone
        /\ p.plugins = q.plugins /\ p.lombok = q.lombok /\ p.runner = q.runner
        /\ p.opens = q.opens
    BY <1>3 DEF Grows, Pom
  <2> QED BY <2>1 DEF Pom
<1> QED BY <1>1, <1>2, <1>3

LEMMA FixesGrow ==
  ASSUME TypeOK, NEW p \in Fixes
  PROVE  Grows(pom, p)
<1>1. pom \in Pom BY DEF TypeOK
<1>2. ASSUME p \in CompileFix(pom) PROVE Grows(pom, p)
  BY <1>1, <1>2 DEF CompileFix, Grows, Pom
<1>3. ASSUME p \in TestFix(pom) PROVE Grows(pom, p)
  BY <1>1, <1>3 DEF TestFix, Grows, Pom
<1> QED BY <1>2, <1>3 DEF Fixes

(* Commands and the steps of DefaultVerifier.run stay among themselves.  *)
LEMMA VerifierStays ==
  ASSUME TypeOK, Where,
         \/ OutOfTime \/ Spawn \/ Close \/ CannotStart \/ TimePasses \/ TimerFires \/ Abort
         \/ ChildEnds \/ StartRun \/ Prefetched \/ BeginCompile \/ BeginTests \/ RetryForced
         \/ PurgeCache \/ RetryPurged \/ PhaseEnds \/ BeginStatic
  PROVE  /\ UNCHANGED <<input, by, of, pom, head, fixed, commit>>
         /\ pc' = pc \/ (pc \in Verifying /\ pc' \in Verifying)
         /\ Where'
<1>1. CASE \/ OutOfTime \/ Spawn \/ Close \/ CannotStart \/ TimePasses \/ TimerFires \/ Abort
           \/ ChildEnds
  <2>1. UNCHANGED <<input, by, task, of, pom, head, fixed, commit>>
    BY <1>1 DEF OutOfTime, Spawn, Close, CannotStart, TimePasses, TimerFires, Abort, ChildEnds,
                Untouched
  <2>2. pc' = pc \/ (pc \in WithCommand /\ pc' \in WithCommand)
    <3>1. CASE OutOfTime \/ Spawn \/ Close \/ CannotStart
      BY <3>1 DEF OutOfTime, Spawn, Close, CannotStart, IsRunning, WithCommand
    <3>2. CASE TimePasses \/ TimerFires \/ ChildEnds
      BY <3>2 DEF TimePasses, TimerFires, ChildEnds
    <3>3. CASE Abort BY <3>3 DEF Abort
    <3> QED BY <1>1, <3>1, <3>2, <3>3
  <2> QED BY <2>1, <2>2 DEF Where, WithCommand, Verifying
<1>2. CASE \/ StartRun \/ Prefetched \/ BeginCompile \/ BeginTests \/ RetryForced \/ PurgeCache
           \/ RetryPurged \/ PhaseEnds \/ BeginStatic
  <2>1. UNCHANGED <<input, by, of, pom, head, fixed, commit>>
    BY <1>2 DEF StartRun, Prefetched, BeginCompile, BeginTests, RetryForced, PurgeCache,
                RetryPurged, PhaseEnds, BeginStatic, Verifies
  <2>2. pc \in Verifying /\ pc' \in Verifying
    BY <1>2 DEF StartRun, Prefetched, BeginCompile, BeginTests, RetryForced, PurgeCache,
                RetryPurged, PhaseEnds, BeginStatic, Launch, IsBuild, Verifying
  <2>3. pc' \in WithCommand => task'.phase # "action"
    BY <1>2 DEF StartRun, Prefetched, BeginCompile, BeginTests, RetryForced, PurgeCache,
                RetryPurged, PhaseEnds, BeginStatic, Launch, IsBuild, WithCommand
  <2> QED BY <2>1, <2>2, <2>3 DEF Where, Verifying
<1> QED BY <1>1, <1>2

LEMMA CommitStep ==
  ASSUME TypeOK, Where, CommitInv, Next
  PROVE  Where' /\ CommitInv'
<1> USE DEF Remediates
<1>0. /\ pom \in Pom /\ head \in Pom /\ input.pom \in Pom
      /\ by \in {"workflow"} \cup Infra \cup OfThePom
  BY InputIsTyped DEF TypeOK, Infra, OfThePom
<1>1. CASE \/ OutOfTime \/ Spawn \/ Close \/ CannotStart \/ TimePasses \/ TimerFires \/ Abort
           \/ ChildEnds \/ StartRun \/ Prefetched \/ BeginCompile \/ BeginTests \/ RetryForced
           \/ PurgeCache \/ RetryPurged \/ PhaseEnds \/ BeginStatic
  BY <1>1, VerifierStays DEF CommitInv, Verifying
<1>2. CASE EndStatic \/ SkipStatic
  <2>1. PICK r : Answer(r) /\ pc \in {"static", "walk"} BY <1>2 DEF EndStatic, SkipStatic
  <2> QED BY <2>1 DEF Answer, Where, CommitInv, Verifying, WithCommand
<1>3. CASE AfterFirst
  <2>1. by = "workflow" /\ of = pom /\ pom = head
    BY <1>3 DEF AfterFirst, CommitInv, OfThePom
  <2> QED BY <1>3, <2>1 DEF AfterFirst, Where, CommitInv, WithCommand, OfThePom
<1>4. CASE AskInfra
  <2>1. of = pom /\ pom = head BY <1>4 DEF AskInfra, CommitInv, OfThePom
  <2>2. pc' \in {"act", "ask"} /\ by' \in {"infra", "compile"} /\ (pc' = "act" => by' = "infra")
    BY <1>4 DEF AskInfra
  <2> QED
    BY <1>4, <2>1, <2>2 DEF AskInfra, NoFixes, Where, CommitInv, WithCommand, Infra, OfThePom
<1>5. CASE RunAction
  <2>1. by \in Infra /\ of = pom /\ pom = head
    BY <1>5 DEF RunAction, Where, CommitInv, Infra, OfThePom
  <2> QED BY <1>5, <2>1 DEF RunAction, Launch, Where, CommitInv, WithCommand, Infra
<1>6. CASE ActionEnds
  <2>1. by \in Infra /\ of = pom /\ pom = head
    BY <1>6 DEF ActionEnds, Where, CommitInv, WithCommand, Infra, OfThePom
  <2> QED BY <1>6, <2>1 DEF ActionEnds, Where, CommitInv, WithCommand, Infra
<1>7. CASE VerifyAgain
  <2>1. by \in Infra /\ of = pom /\ pom = head
    BY <1>7 DEF VerifyAgain, Where, CommitInv, Infra, OfThePom
  <2> QED BY <1>7, <2>1 DEF VerifyAgain, CallVerifier, Where, CommitInv, WithCommand, Infra
<1>8. CASE AfterInfra
  <2>1. of = pom /\ pom = head BY <1>8 DEF AfterInfra, CommitInv, OfThePom
  <2>2. \/ pc' = "act" /\ by' = "infra purged"
        \/ pc' = "ask" /\ by' = "compile"
    BY <1>8 DEF AfterInfra
  <2> QED BY <1>8, <2>1, <2>2 DEF AfterInfra, Where, CommitInv, WithCommand, Infra, OfThePom
<1>9. CASE AskCompile
  <2>1. of = pom /\ pom = head BY <1>9 DEF AskCompile, CommitInv, Verifying
  <2>2. \/ pc' = "fix" /\ by' = "compile"
        \/ pc' = "ask" /\ by' = "tests"
    BY <1>9 DEF AskCompile
  <2> QED
    BY <1>9, <2>1, <2>2 DEF AskCompile, NoFixes, Where, CommitInv, WithCommand, OfThePom
<1>10. CASE AskTests
  <2>1. of = pom /\ pom = head BY <1>10 DEF AskTests, CommitInv, Verifying
  <2>2. pc' \in {"fix", "done"} /\ by' = "tests" BY <1>10 DEF AskTests
  <2> QED
    BY <1>10, <2>1, <2>2 DEF AskTests, NoFixes, Where, CommitInv, WithCommand, OfThePom
<1>11. CASE ApplyFix
  <2>1. PICK p \in Fixes, lines \in PatchSizes : pom' = p /\ fixed' = Grown(lines)
    BY <1>11 DEF ApplyFix
  <2>2. by \in OfThePom BY <1>11 DEF ApplyFix, Where
  <2>3. Grows(head, pom')
    <3>1. p \in Pom /\ Grows(pom, p) BY FixesArePoms, FixesGrow
    <3> QED BY <1>0, <2>1, <3>1, GrowsIsAnOrder DEF CommitInv
  <2>4. fixed'.tries # 0
    <3>1. fixed'.tries = fixed.tries + 1 BY <2>1 DEF Grown
    <3>2. fixed.tries \in Nat BY DEF TypeOK
    <3> QED BY <3>1, <3>2
  <2>5. /\ pc' = "start" /\ by' = by
        /\ UNCHANGED <<input, head, commit>>
    BY <1>11 DEF ApplyFix, CallVerifier
  <2> QED BY <2>2, <2>3, <2>4, <2>5 DEF Where, CommitInv, Verifying, WithCommand
<1>12. CASE AfterFix
  <2>1. of = pom BY <1>12 DEF AfterFix, CommitInv, Verifying
  <2> QED BY <1>12, <2>1 DEF AfterFix, Where, CommitInv, WithCommand, OfThePom
<1>13. CASE EndFixes
  <2>1. of = pom BY <1>13 DEF EndFixes, CommitInv, Verifying
  <2>2. by \in OfThePom BY <1>13 DEF EndFixes, Where
  <2>3. commit' = IF pom = input.pom THEN {} ELSE {pom}
    <3>1. commit' = IF fixed.tries > 0 /\ pom # head THEN {pom} ELSE commit
      BY <1>13 DEF EndFixes, LastCommit
    <3>2. CASE pom = head BY <3>1, <3>2 DEF CommitInv
    <3>3. CASE pom # head
      <4>1. fixed.tries > 0
        <5>1. fixed.tries \in Nat BY DEF TypeOK
        <5>2. fixed.tries # 0 BY <3>3 DEF CommitInv
        <5> QED BY <5>1, <5>2
      <4>2. pom # input.pom BY <1>0, <3>3, GrowsIsAnOrder DEF CommitInv
      <4> QED BY <3>1, <3>3, <4>1, <4>2
    <3> QED BY <3>2, <3>3
  <2>4. /\ head' = pom /\ UNCHANGED <<input, pom, fixed, of>>
        /\ \/ pc' = "ask" /\ by' = "tests"
           \/ pc' = "done" /\ by' = by /\ by # "compile"
    BY <1>13 DEF EndFixes
  <2>5. Grows(input.pom, head') /\ Grows(head', pom')
    BY <1>0, <2>4, GrowsIsAnOrder DEF CommitInv
  <2> QED BY <2>1, <2>2, <2>3, <2>4, <2>5 DEF Where, CommitInv, WithCommand, OfThePom
<1> QED
  BY <1>1, <1>2, <1>3, <1>4, <1>5, <1>6, <1>7, <1>8, <1>9, <1>10, <1>11, <1>12, <1>13
  DEF Next, Proceed

CommitIInv == TypeOK /\ Where /\ CommitInv

LEMMA CommitInvariant == Spec => []CommitIInv
<1>1. Init => CommitIInv
  <2> SUFFICES ASSUME Init PROVE CommitIInv OBVIOUS
  <2>1. TypeOK BY InitTypes
  <2>2. Where BY DEF Init, Where, WithCommand, Infra
  <2>3. Grows(input.pom, input.pom) BY <2>1, InputIsTyped, GrowsIsAnOrder DEF TypeOK
  <2> QED BY <2>1, <2>2, <2>3 DEF Init, CommitIInv, CommitInv
<1>2. CommitIInv /\ [Next]_vars => CommitIInv'
  <2> SUFFICES ASSUME CommitIInv, [Next]_vars PROVE CommitIInv' OBVIOUS
  <2>1. TypeOK' BY StepTypes DEF CommitIInv
  <2>2. CASE Next BY <2>1, <2>2, CommitStep DEF CommitIInv
  <2>3. CASE UNCHANGED vars BY <2>1, <2>3 DEF CommitIInv, Where, CommitInv, vars
  <2> QED BY <2>2, <2>3
<1> QED BY <1>1, <1>2, PTL DEF Spec

(* For every policy, every pom and whatever the commands print: the verdict    *)
(* that decides about a run was given on the pom as it is committed, also when *)
(* the second remediator goes on from where the first one stopped             *)
(* (compile-remediator.ts 384-486, test-runtime-remediator.ts 381-507).       *)
THEOREM VerdictIsOfTheCommitted == Spec => []VerdictIsOfTheCommit
<1>1. CommitIInv => VerdictIsOfTheCommit
  BY DEF CommitIInv, CommitInv, VerdictIsOfTheCommit, Verifying
<1> QED BY <1>1, CommitInvariant, PTL

(* The commit that the pull request is opened from is named exactly when a     *)
(* remediator made one, and it is the last: no fix undoes the pom to what it   *)
(* was (remediator.ts 225-248).                                               *)
THEOREM TheCommitIsNamed == Spec => []CommitIsNamed
<1>1. CommitIInv => CommitIsNamed
  BY DEF CommitIInv, CommitInv, CommitIsNamed
<1> QED BY <1>1, CommitInvariant, PTL

-----------------------------------------------------------------------------
(* Retries, iterations and limits *)

(* A purge that runs has been granted one retry more. *)
LimitsInv ==
  /\ StaysWithinPolicy
  /\ pc \in WithCommand /\ task.try = "purge" => retried < Policy.retries

LEMMA LimitsStep ==
  ASSUME TypeOK, LimitsInv, Next
  PROVE  LimitsInv'
<1>0. /\ Policy.retries \in Nat /\ Limits \in Remediations
      /\ retried \in Nat /\ fixed \in [tries : Nat, files : Nat, lines : Nat]
      /\ retried <= Policy.retries
  BY InputIsTyped DEF TypeOK, Limits, LimitsInv, StaysWithinPolicy
<1>1. Policy' = Policy
  <2>1. input' = input
    BY DEF Next, Proceed, OutOfTime, Spawn, Close, StartRun, Prefetched, BeginCompile, BeginTests,
           RetryForced, PurgeCache, RetryPurged, PhaseEnds, BeginStatic, EndStatic, SkipStatic,
           AfterFirst, AskInfra, RunAction, ActionEnds, VerifyAgain, AfterInfra, AskCompile,
           AskTests, ApplyFix, AfterFix, EndFixes, CannotStart, TimePasses, TimerFires, Abort,
           ChildEnds, Untouched, Verifies, Remediates, Answer
  <2> QED BY <2>1 DEF Policy
\* A step of the remediator at work, and a step to where none is.
<1>s. ASSUME UNCHANGED <<by, fixed>>, pc' = pc \/ pc # "ask", retried' <= Policy.retries
      PROVE  StaysWithinPolicy'
  BY <1>1, <1>s DEF LimitsInv, StaysWithinPolicy, Limits
<1>n. ASSUME by' \notin {"compile", "tests"} \/ pc' = "ask", retried' = retried
      PROVE  StaysWithinPolicy'
  BY <1>0, <1>1, <1>n DEF StaysWithinPolicy
<1>2. CASE \/ OutOfTime \/ Spawn \/ Close \/ CannotStart \/ TimePasses \/ TimerFires \/ Abort
           \/ ChildEnds
  <2>1. UNCHANGED <<by, task, retried, fixed>>
    BY <1>2 DEF OutOfTime, Spawn, Close, CannotStart, TimePasses, TimerFires, Abort, ChildEnds,
                Untouched
  <2>2. /\ pc' \in WithCommand => pc \in WithCommand
        /\ pc' = pc \/ pc # "ask"
    BY <1>2 DEF OutOfTime, Spawn, Close, CannotStart, TimePasses, TimerFires, Abort, ChildEnds,
                WithCommand, IsRunning
  <2>3. StaysWithinPolicy' BY <1>0, <1>s, <2>1, <2>2
  <2> QED BY <1>1, <2>1, <2>2, <2>3 DEF LimitsInv
<1>3. CASE StartRun \/ BeginCompile \/ BeginTests
  <2>1. retried' = 0 /\ UNCHANGED <<by, fixed>> /\ pc # "ask"
    BY <1>3 DEF StartRun, BeginCompile, BeginTests, Verifies
  <2>2. pc' \in WithCommand => task'.try = "first"
    BY <1>3 DEF StartRun, BeginCompile, BeginTests, Launch, WithCommand
  <2>3. StaysWithinPolicy' BY <1>0, <1>s, <2>1
  <2> QED BY <2>2, <2>3 DEF LimitsInv
<1>4. CASE RetryForced
  <2>1. /\ retried < Policy.retries /\ retried' = retried + 1 /\ task'.try = "forced"
        /\ UNCHANGED <<by, fixed>> /\ pc # "ask"
    BY <1>4 DEF RetryForced, MayRetry, IsBuild, Launch, Verifies
  <2>2. retried' <= Policy.retries BY <1>0, <2>1
  <2>3. StaysWithinPolicy' BY <1>s, <2>1, <2>2
  <2> QED BY <2>1, <2>3 DEF LimitsInv
<1>5. CASE PurgeCache
  <2>1. retried < Policy.retries /\ UNCHANGED <<by, retried, fixed>> /\ pc # "ask"
    BY <1>5 DEF PurgeCache, MayRetry, IsBuild, Verifies
  <2>2. StaysWithinPolicy' BY <1>0, <1>s, <2>1
  <2> QED BY <1>1, <2>1, <2>2 DEF LimitsInv
<1>6. CASE RetryPurged
  <2>1. retried < Policy.retries
    BY <1>6 DEF RetryPurged, IsBuild, LimitsInv, WithCommand
  <2>2. /\ retried' = retried + 1 /\ task'.try = "again"
        /\ UNCHANGED <<by, fixed>> /\ pc # "ask"
    BY <1>6 DEF RetryPurged, IsBuild, Launch, Verifies
  <2>3. retried' <= Policy.retries BY <1>0, <2>1, <2>2
  <2>4. StaysWithinPolicy' BY <1>s, <2>2, <2>3
  <2> QED BY <2>2, <2>4 DEF LimitsInv
<1>7. CASE Prefetched \/ PhaseEnds \/ BeginStatic \/ EndStatic \/ SkipStatic
  <2>1. /\ retried' \in {retried, 0} /\ pc' \notin WithCommand
        /\ UNCHANGED <<by, fixed>> /\ pc # "ask"
    BY <1>7 DEF Prefetched, PhaseEnds, BeginStatic, EndStatic, SkipStatic, Answer, NoLocals,
                IsBuild, Verifies, WithCommand
  <2>2. retried' <= Policy.retries BY <1>0, <2>1
  <2>3. StaysWithinPolicy' BY <1>s, <2>1, <2>2
  <2> QED BY <2>1, <2>3 DEF LimitsInv
<1>8. CASE ActionEnds \/ VerifyAgain \/ AfterFix
  <2>1. UNCHANGED <<by, retried, fixed>> /\ pc # "ask" /\ pc' \notin WithCommand
    BY <1>8 DEF ActionEnds, VerifyAgain, AfterFix, CallVerifier, Remediates, WithCommand
  <2>2. StaysWithinPolicy' BY <1>0, <1>s, <2>1
  <2> QED BY <2>1, <2>2 DEF LimitsInv
<1>9. CASE AfterFirst \/ AfterInfra
  <2>1. /\ by' \notin {"compile", "tests"} \/ pc' = "ask"
        /\ retried' = retried /\ pc' \notin WithCommand
    BY <1>9 DEF AfterFirst, AfterInfra, Remediates, WithCommand
  <2>2. StaysWithinPolicy' BY <1>n, <2>1
  <2> QED BY <2>1, <2>2 DEF LimitsInv
<1>10. CASE AskInfra \/ AskCompile \/ AskTests
  <2>1. retried' = retried /\ fixed' = NoFixes /\ pc' \notin WithCommand
    BY <1>10 DEF AskInfra, AskCompile, AskTests, Remediates, WithCommand
  <2>2. Limits' \in Remediations BY <1>1, InputIsTyped DEF TypeOK, Limits
  <2>3. 0 <= Limits'.tries /\ 0 <= Limits'.files /\ 0 <= Limits'.lines
    BY <2>2 DEF Remediations
  <2>4. StaysWithinPolicy' BY <1>0, <1>1, <2>1, <2>3 DEF StaysWithinPolicy, NoFixes
  <2> QED BY <2>1, <2>4 DEF LimitsInv
<1>11. CASE RunAction
  <2>1. UNCHANGED <<by, retried, fixed>> /\ pc # "ask" /\ task'.try = "first"
    BY <1>11 DEF RunAction, Launch, Remediates
  <2>2. StaysWithinPolicy' BY <1>0, <1>s, <2>1
  <2> QED BY <2>1, <2>2 DEF LimitsInv
<1>12. CASE ApplyFix
  <2>1. PICK lines \in PatchSizes : WithinLimits(Grown(lines), lines) /\ fixed' = Grown(lines)
    BY <1>12 DEF ApplyFix
  <2>2. /\ by' = by /\ retried' = retried /\ pc' \notin WithCommand /\ pc # "ask"
        /\ by \in {"compile", "tests"} => fixed.tries < Limits.tries
    <3>1. /\ by' = by /\ retried' = retried /\ pc' \notin WithCommand /\ pc = "fix"
          /\ fixed.tries # Limits.tries
      BY <1>12 DEF ApplyFix, Fixes, CallVerifier, Remediates, WithCommand
    <3>2. fixed.tries \in Nat /\ Limits.tries \in Nat BY <1>0 DEF Remediations
    <3>3. by \in {"compile", "tests"} => fixed.tries <= Limits.tries
      BY <3>1 DEF LimitsInv, StaysWithinPolicy
    <3>4. by \in {"compile", "tests"} => fixed.tries < Limits.tries BY <3>1, <3>2, <3>3
    <3> QED BY <3>1, <3>4
  <2>3. fixed'.tries = fixed.tries + 1 /\ fixed'.files <= Limits.files /\ fixed'.lines <= Limits.lines
    BY <2>1 DEF WithinLimits, Grown
  <2>4. by \in {"compile", "tests"} => fixed'.tries <= Limits.tries
    <3>1. fixed.tries \in Nat /\ Limits.tries \in Nat BY <1>0 DEF Remediations
    <3> QED BY <2>2, <2>3, <3>1
  <2>5. Limits' = Limits BY <1>1, <2>2 DEF Limits
  <2>6. StaysWithinPolicy' BY <1>0, <1>1, <2>2, <2>3, <2>4, <2>5 DEF StaysWithinPolicy
  <2> QED BY <2>2, <2>6 DEF LimitsInv
<1>13. CASE EndFixes
  <2>1. /\ retried' = retried /\ fixed' = fixed /\ pc = "fix" /\ pc' \notin WithCommand
        /\ by' = by \/ pc' = "ask"
    BY <1>13 DEF EndFixes, Remediates, WithCommand
  <2>2. StaysWithinPolicy' BY <1>0, <1>s, <1>n, <2>1
  <2> QED BY <2>1, <2>2 DEF LimitsInv
<1> QED
  BY <1>2, <1>3, <1>4, <1>5, <1>6, <1>7, <1>8, <1>9, <1>10, <1>11, <1>12, <1>13 DEF Next, Proceed

(* For every policy: a phase never spends more retries than it has, counting   *)
(* the purge that is still running, and the fixes of each remediator stay      *)
(* within its own iterations, files and lines (index.ts 442-586,               *)
(* compile-remediator.ts 392-428, test-runtime-remediator.ts 402-448).         *)
THEOREM PolicyIsKept == Spec => []StaysWithinPolicy
<1>1. Init => LimitsInv
  <2> SUFFICES ASSUME Init PROVE LimitsInv OBVIOUS
  <2>1. Policy.retries \in Nat
    BY InputIsTyped, VerificationAssumption DEF Init
  <2> QED BY <2>1 DEF Init, LimitsInv, StaysWithinPolicy, WithCommand
<1>2. TypeOK /\ LimitsInv /\ [Next]_vars => LimitsInv'
  <2> SUFFICES ASSUME TypeOK, LimitsInv, [Next]_vars PROVE LimitsInv' OBVIOUS
  <2>1. CASE Next BY <2>1, LimitsStep
  <2>2. CASE UNCHANGED vars BY <2>2 DEF LimitsInv, StaysWithinPolicy, Limits, Policy, vars
  <2> QED BY <2>1, <2>2
<1>3. LimitsInv => StaysWithinPolicy BY DEF LimitsInv
<1> QED BY <1>1, <1>2, <1>3, VerificationTypes, PTL DEF Spec

-----------------------------------------------------------------------------
(* Commands that were stopped *)

Builds == {"compile", "tests"}
Stopped(r) == r.status = "failed" /\ r.kind \notin CodeKinds

(* The signal has reached every command that listens to it, and what came to   *)
(* an end after the signal or the timer is neither a pass nor the code's fault. *)
StopInv ==
  /\ pc = "running" /\ Bounded(task) /\ aborted => cmd.aborted
  /\ pc = "judge" /\ task.phase \in Builds /\ (aborted \/ cmd.timedOut) => Stopped(got)

LEMMA StoppedResults ==
  /\ Stopped(Failed("verify_timeout")) /\ Stopped(Failed("verifier_infrastructure_failure"))
  /\ Stopped(RetriesUsedUp)
  /\ \A r \in Result : /\ Stopped(FailedAs(r, "verify_timeout"))
                       /\ Stopped(FailedAs(r, "verifier_infrastructure_failure"))
<1>1. {"verify_timeout", "verifier_infrastructure_failure", "budget_exceeded"} \cap CodeKinds = {}
  BY DEF CodeKinds
<1>2. \A r \in Result : /\ Stopped(FailedAs(r, "verify_timeout"))
                       /\ Stopped(FailedAs(r, "verifier_infrastructure_failure"))
  BY <1>1, FailedAsIsResult, KindsAreFailureKinds DEF Stopped
<1> QED BY <1>1, <1>2 DEF Stopped, Failed, RetriesUsedUp, Bare

LEMMA StopStep ==
  ASSUME TypeOK, StopInv, Next
  PROVE  StopInv'
<1>0. cmd \in Child /\ cmd.exit \in Result BY DEF TypeOK, Child
<1>1. CASE OutOfTime
  BY <1>1, StoppedResults DEF OutOfTime, StopInv
<1>2. CASE Spawn
  BY <1>2 DEF Spawn, Untouched, StopInv
<1>3. CASE Close
  <2>1. got' = Judged(cmd) /\ pc' = "judge" /\ UNCHANGED <<task, aborted, cmd>>
        /\ pc = "running"
    BY <1>3 DEF Close, Untouched
  <2>2. ASSUME task.phase \in Builds, aborted \/ cmd.timedOut
        PROVE  Stopped(got')
    <3>1. Bounded(task) BY <2>2 DEF Bounded, Builds
    <3>2. cmd.timedOut \/ cmd.aborted BY <2>1, <2>2, <3>1 DEF StopInv
    <3> QED BY <1>0, <2>1, <3>2, StoppedResults DEF Judged
  <2> QED BY <2>1, <2>2 DEF StopInv
<1>4. CASE CannotStart
  BY <1>4, StoppedResults DEF CannotStart, StopInv
<1>5. CASE TimePasses
  BY <1>5 DEF TimePasses, IsRunning, Untouched, StopInv
<1>6. CASE TimerFires
  BY <1>0, <1>6 DEF TimerFires, Untouched, StopInv, Child
<1>7. CASE Abort
  <2>1. /\ UNCHANGED <<pc, task>> /\ pc # "judge"
        /\ pc = "running" /\ Bounded(task) => cmd' = [cmd EXCEPT !.aborted = TRUE]
    BY <1>7 DEF Abort, Untouched
  <2>2. pc = "running" /\ Bounded(task) => cmd'.aborted BY <1>0, <2>1 DEF Child
  <2> QED BY <2>1, <2>2 DEF StopInv, Bounded
<1>8. CASE ChildEnds
  <2>1. /\ UNCHANGED <<pc, task, aborted>> /\ pc = "running"
        /\ \E r : cmd' = [cmd EXCEPT !.exit = r]
    BY <1>8 DEF ChildEnds, IsRunning, Untouched
  <2>2. cmd'.aborted = cmd.aborted BY <1>0, <2>1 DEF Child
  <2> QED BY <2>1, <2>2 DEF StopInv, Bounded
<1>9. CASE \/ StartRun \/ Prefetched \/ BeginCompile \/ BeginTests \/ RetryForced \/ PurgeCache
           \/ RetryPurged \/ PhaseEnds \/ BeginStatic \/ EndStatic \/ SkipStatic
  <2>1. pc' \notin {"running", "judge"}
    BY <1>9 DEF StartRun, Prefetched, BeginCompile, BeginTests, RetryForced, PurgeCache,
                RetryPurged, PhaseEnds, BeginStatic, EndStatic, SkipStatic, Answer, Launch
  <2> QED BY <2>1 DEF StopInv
<1>10. CASE \/ AfterFirst \/ AskInfra \/ RunAction \/ ActionEnds \/ VerifyAgain \/ AfterInfra
            \/ AskCompile \/ AskTests \/ ApplyFix \/ AfterFix \/ EndFixes
  <2>1. pc' \notin {"running", "judge"}
    BY <1>10 DEF AfterFirst, AskInfra, RunAction, ActionEnds, VerifyAgain, AfterInfra, AskCompile,
                 AskTests, ApplyFix, AfterFix, EndFixes, CallVerifier, Launch
  <2> QED BY <2>1 DEF StopInv
<1> QED
  BY <1>1, <1>2, <1>3, <1>4, <1>5, <1>6, <1>7, <1>8, <1>9, <1>10 DEF Next, Proceed

(* Only the end of a phase gives it another verdict than "not run". *)
LEMMA VerdictsComeFromPhases ==
  ASSUME TypeOK, Next, NEW phase \in Builds, part'[phase] # part[phase],
         part'[phase].status # "not_run"
  PROVE  PhaseEnds /\ task.phase = phase
<1>0. part \in [compile : Result, tests : Result] BY DEF TypeOK
<1>1. ~(part' = part) OBVIOUS
<1>2. StartRun \/ BeginCompile \/ BeginTests \/ PhaseEnds \/ EndStatic \/ SkipStatic
  BY <1>1
  DEF Next, Proceed, OutOfTime, Spawn, Close, Prefetched, RetryForced, PurgeCache, RetryPurged,
      BeginStatic, AfterFirst, AskInfra, RunAction, ActionEnds, VerifyAgain,
      AfterInfra, AskCompile, AskTests, ApplyFix, AfterFix, EndFixes, CannotStart, TimePasses,
      TimerFires, Abort, ChildEnds, Untouched, Remediates
<1>3. NotYet.status = "not_run" /\ MissingCommand.status = "not_run"
  BY DEF NotYet, MissingCommand, Bare
<1>4. ~StartRun /\ ~EndStatic /\ ~SkipStatic
  BY <1>3 DEF StartRun, EndStatic, SkipStatic, Answer, NoLocals, Builds
<1>5. ~BeginCompile BY <1>0, <1>3 DEF BeginCompile, Builds
<1>6. ~BeginTests BY <1>0, <1>3 DEF BeginTests, Builds
<1>7. PhaseEnds BY <1>2, <1>4, <1>5, <1>6
<1>8. task.phase = phase
  <2>1. PICK r : part' = [part EXCEPT ![task.phase] = r] BY <1>7 DEF PhaseEnds
  <2>2. task.phase \in Builds BY <1>7 DEF PhaseEnds, IsBuild, Builds
  <2> QED BY <1>0, <2>1, <2>2 DEF Builds
<1> QED BY <1>7, <1>8

(* In whichever order the exit of a command, its timer and the abort of the     *)
(* execution come: a phase that ends after one of the latter two neither passes *)
(* nor blames the code (commands.ts 93-227, index.ts 314-402).                 *)
THEOREM NoVerdictAfterStop == Spec => NoVerdictOnceStopped
<1>1. Init => StopInv BY DEF Init, StopInv
<1>2. TypeOK /\ StopInv /\ [Next]_vars => StopInv'
  <2> SUFFICES ASSUME TypeOK, StopInv, [Next]_vars PROVE StopInv' OBVIOUS
  <2>1. CASE Next BY <2>1, StopStep
  <2>2. CASE UNCHANGED vars BY <2>2 DEF StopInv, Bounded, vars
  <2> QED BY <2>1, <2>2
<1>3. TypeOK /\ StopInv /\ [Next]_vars
      => [\A phase \in {"compile", "tests"} :
            part'[phase] # part[phase] /\ part'[phase].status # "not_run"
              /\ (aborted \/ cmd.timedOut)
            => part'[phase].status = "failed" /\ part'[phase].kind \notin CodeKinds]_vars
  <2> SUFFICES ASSUME TypeOK, StopInv, Next,
                      NEW phase \in {"compile", "tests"},
                      part'[phase] # part[phase], part'[phase].status # "not_run",
                      aborted \/ cmd.timedOut
               PROVE  part'[phase].status = "failed" /\ part'[phase].kind \notin CodeKinds
    OBVIOUS
  <2>1. PhaseEnds /\ task.phase = phase BY VerdictsComeFromPhases DEF Builds
  <2>2. Stopped(got) BY <2>1 DEF PhaseEnds, IsBuild, StopInv, Builds
  <2>3. part'[phase] \in {RetriesUsedUp, got}
    <3>1. part \in [compile : Result, tests : Result] BY DEF TypeOK
    <3> QED BY <2>1, <3>1 DEF PhaseEnds
  <2> QED BY <2>2, <2>3, StoppedResults DEF Stopped
<1> QED BY <1>1, <1>2, <1>3, VerificationTypes, PTL DEF Spec, NoVerdictOnceStopped
-----------------------------------------------------------------------------
(* What may be answered *)

KindsOf(phase) == IF phase = "compile" THEN CompileKinds ELSE TestKinds

(* The try whose result counts: not the purge of the cache between two.  *)
Counts == task.phase \in Builds /\ task.try # "purge"

LaunchInv ==
  pc \in WithCommand /\ task.phase \in Builds =>
    /\ Available
    /\ task.phase = "tests" => input.scan.hasTests /\ CompiledCleanly(part.compile)

ExitInv ==
  /\ pc = "running" /\ Counts /\ cmd.exit # Running /\ ~cmd.timedOut /\ ~cmd.aborted
       => cmd.exit \in Classified(KindsOf(task.phase))
  /\ pc = "judge" /\ Counts => got \in Classified(KindsOf(task.phase))

(* The compilation is not run exactly when there is no command for it. *)
CompileEnded ==
  /\ Plain(part.compile) \in Attempted(input.scan, CompileKinds)
  /\ part.compile.status = "not_run" <=> ~Available

CompileInv ==
  pc \in {"tests", "static", "walk"} \/ (pc \in WithCommand /\ task.phase = "tests")
    => CompileEnded

TestsEnded ==
  \/ /\ input.scan.hasTests /\ CompiledCleanly(part.compile)
     /\ Plain(part.tests) \in Attempted(input.scan, TestKinds)
     /\ part.tests.status = "not_run" <=> part.compile.status = "not_run"
  \/ /\ ~input.scan.hasTests \/ ~CompiledCleanly(part.compile) \/ aborted
     /\ part.tests = NotYet

TestsInv == pc \in {"static", "walk"} => TestsEnded

AnswerInv == LaunchInv /\ ExitInv /\ CompileInv /\ TestsInv /\ AnswerIsAllowed

LEMMA ClassifiedResults ==
  ASSUME NEW phase \in Builds
  PROVE  /\ Failed("verify_timeout") \in Classified(KindsOf(phase))
         /\ Failed("verifier_infrastructure_failure") \in Classified(KindsOf(phase))
         /\ \A r \in Result :
              /\ FailedAs(r, "verify_timeout") \in Classified(KindsOf(phase))
              /\ FailedAs(r, "verifier_infrastructure_failure") \in Classified(KindsOf(phase))
<1>1. {"verify_timeout", "verifier_infrastructure_failure"} \subseteq KindsOf(phase)
  BY DEF KindsOf, CompileKinds, TestKinds, InfrastructureKinds
<1>2. /\ Failed("verify_timeout") \in Classified(KindsOf(phase))
      /\ Failed("verifier_infrastructure_failure") \in Classified(KindsOf(phase))
  BY <1>1, NamedResults DEF Classified, Failed, Bare
<1>3. \A r \in Result :
        /\ FailedAs(r, "verify_timeout") \in Classified(KindsOf(phase))
        /\ FailedAs(r, "verifier_infrastructure_failure") \in Classified(KindsOf(phase))
  BY <1>1, FailedAsIsResult, KindsAreFailureKinds DEF Classified
<1> QED BY <1>2, <1>3

(* What a phase gives, retried or not, is what Policy says it can.  *)
LEMMA ClassifiedIsAttempted ==
  ASSUME NEW kinds, NEW r \in Classified(kinds) \cup {RetriesUsedUp}, HasCommand(input.scan),
         r = RetriesUsedUp => IsMaven
  PROVE  Plain(r) \in Attempted(input.scan, kinds) /\ r.status # "not_run"
<1>1. CASE r = RetriesUsedUp
  BY <1>1 DEF RetriesUsedUp, Bare, Plain, Attempted, IsMaven
<1>2. CASE r \in Classified(kinds)
  BY <1>2 DEF Classified, Plain, Attempted, Passed
<1> QED BY <1>1, <1>2

(* An abort only adds to what may be answered. *)
LEMMA AnswersOfAborted ==
  ASSUME NEW scan, NEW verify0, CanAnswer(scan, verify0, aborted), aborted' = TRUE
  PROVE  CanAnswer(scan, verify0, aborted')
BY DEF CanAnswer
LEMMA CommandsAnswer ==
  ASSUME TypeOK, AnswerInv,
         \/ OutOfTime \/ Spawn \/ Close \/ CannotStart \/ TimePasses \/ TimerFires
         \/ Abort \/ ChildEnds
  PROVE  AnswerInv'
<1>0. cmd \in Child /\ cmd.exit \in Result BY DEF TypeOK, Child
<1>1. UNCHANGED <<input, task, part, verify>>
  BY DEF OutOfTime, Spawn, Close, CannotStart, TimePasses, TimerFires, Abort, ChildEnds, Untouched
<1>2. /\ pc' = pc \/ (pc \in WithCommand /\ pc' \in WithCommand)
      /\ aborted' = aborted \/ aborted' = TRUE
  BY DEF OutOfTime, Spawn, Close, CannotStart, TimePasses, TimerFires, Abort, ChildEnds, IsRunning,
         WithCommand
<1>3. Available' = Available /\ (CompileEnded <=> CompileEnded')
  BY <1>1 DEF Available, CompileEnded
<1>4. LaunchInv'
  BY <1>1, <1>2, <1>3 DEF AnswerInv, LaunchInv, WithCommand
<1>5. ExitInv'
  <2> SUFFICES ASSUME Counts' PROVE ExitInv' BY DEF ExitInv
  <2>1. Counts /\ task.phase \in Builds /\ task.phase' = task.phase BY <1>1 DEF Counts
  <2>2. Bounded(task) BY <2>1 DEF Bounded, Builds
  <2>3. CASE OutOfTime
    BY <1>1, <2>1, <2>3, ClassifiedResults DEF OutOfTime, ExitInv
  <2>4. CASE Spawn BY <2>4 DEF Spawn, ExitInv
  <2>5. CASE Close
    <3>1. got' = Judged(cmd) /\ pc' = "judge" /\ pc = "running" /\ cmd.exit # Running
      BY <2>5 DEF Close
    <3>2. Judged(cmd) \in Classified(KindsOf(task.phase))
      <4>1. CASE cmd.timedOut BY <1>0, <2>1, <4>1, ClassifiedResults DEF Judged
      <4>2. CASE ~cmd.timedOut /\ cmd.aborted
        BY <1>0, <2>1, <4>2, ClassifiedResults DEF Judged
      <4>3. CASE ~cmd.timedOut /\ ~cmd.aborted
        BY <2>1, <3>1, <4>3 DEF Judged, AnswerInv, ExitInv
      <4> QED BY <4>1, <4>2, <4>3
    <3> QED BY <1>1, <3>1, <3>2 DEF ExitInv
  <2>6. CASE CannotStart
    BY <1>1, <2>1, <2>6, ClassifiedResults DEF CannotStart, ExitInv
  <2>7. CASE TimePasses
    BY <1>1, <2>1, <2>7 DEF TimePasses, AnswerInv, ExitInv
  <2>8. CASE TimerFires
    <3>1. pc' = "running" /\ cmd'.timedOut BY <1>0, <2>8 DEF TimerFires, Child
    <3> QED BY <3>1 DEF ExitInv
  <2>9. CASE Abort
    <3>1. pc' = pc /\ got' = got /\ pc # "judge" BY <2>9 DEF Abort
    <3>2. pc = "running" => cmd'.aborted BY <1>0, <2>2, <2>9 DEF Abort, Child
    <3> QED BY <3>1, <3>2 DEF ExitInv
  <2>10. CASE ChildEnds
    <3>1. pc' = "running" BY <2>10 DEF ChildEnds, IsRunning
    <3>2. PICK r \in Ends(task) \cup IF cmd.timedOut \/ cmd.aborted THEN {Killed} ELSE {} :
            cmd' = [cmd EXCEPT !.exit = r]
      BY <2>10 DEF ChildEnds
    <3>3. cmd'.exit = r /\ cmd'.timedOut = cmd.timedOut /\ cmd'.aborted = cmd.aborted
      BY <1>0, <3>2 DEF Child
    <3>4. ASSUME ~cmd.timedOut, ~cmd.aborted PROVE r \in Classified(KindsOf(task.phase))
      <4>1. r \in Ends(task) BY <3>2, <3>4
      <4> QED BY <2>1, <4>1, VerificationAssumption DEF Ends, Counts, Builds, KindsOf
    <3> QED BY <1>1, <3>1, <3>3, <3>4 DEF ExitInv
  <2> QED BY <2>3, <2>4, <2>5, <2>6, <2>7, <2>8, <2>9, <2>10
<1>6. CompileInv'
  BY <1>1, <1>2, <1>3 DEF AnswerInv, CompileInv, WithCommand
<1>7. TestsInv'
  <2>1. TestsEnded => TestsEnded' BY <1>1, <1>2 DEF TestsEnded
  <2> QED BY <1>2, <2>1 DEF AnswerInv, TestsInv, WithCommand
<1>8. AnswerIsAllowed'
  <2> SUFFICES ASSUME pc' = "answered" PROVE CanAnswer(input.scan, Summary, aborted)'
    BY DEF AnswerIsAllowed
  <2>1. pc = "answered" BY <1>2 DEF WithCommand
  <2>2. CanAnswer(input.scan, Summary, aborted) BY <2>1 DEF AnswerInv, AnswerIsAllowed
  <2>3. Summary' = Summary /\ input' = input BY <1>1 DEF Summary
  <2>4. CASE aborted' = aborted BY <2>2, <2>3, <2>4
  <2>5. CASE aborted' = TRUE
    <3> DEFINE v == Summary
    <3>1. CanAnswer(input.scan, v, aborted') BY <2>2, <2>5, AnswersOfAborted
    <3> QED BY <2>3, <3>1
  <2> QED BY <1>2, <2>4, <2>5
<1> QED BY <1>4, <1>5, <1>6, <1>7, <1>8 DEF AnswerInv

LEMMA VerifierAnswers ==
  ASSUME TypeOK, AnswerInv,
         \/ StartRun \/ Prefetched \/ BeginCompile \/ BeginTests \/ RetryForced \/ PurgeCache
         \/ RetryPurged \/ PhaseEnds \/ BeginStatic
  PROVE  AnswerInv'
<1> USE DEF Verifies
<1>0. /\ part \in [compile : Result, tests : Result] /\ task \in Tasks /\ got \in Result
  BY DEF TypeOK
<1>1. UNCHANGED <<input, cmd, got, aborted>>
  BY DEF StartRun, Prefetched, BeginCompile, BeginTests, RetryForced, PurgeCache, RetryPurged,
         PhaseEnds, BeginStatic
<1>2. Available' = Available /\ pc' \notin {"running", "judge", "answered"}
  BY <1>1 DEF StartRun, Prefetched, BeginCompile, BeginTests, RetryForced, PurgeCache, RetryPurged,
         PhaseEnds, BeginStatic, Launch, Available
<1>3. ExitInv' /\ AnswerIsAllowed' BY <1>2 DEF ExitInv, AnswerIsAllowed
<1>4. CASE StartRun
  <2>1. pc' \in {"compile", "spawn"} /\ (pc' = "spawn" => task'.phase = "prefetch")
    BY <1>4 DEF StartRun, Launch
  <2> QED BY <1>3, <2>1 DEF AnswerInv, LaunchInv, CompileInv, TestsInv, WithCommand, Builds
<1>5. CASE Prefetched
  BY <1>3, <1>5 DEF Prefetched, AnswerInv, LaunchInv, CompileInv, TestsInv, WithCommand
<1>6. CASE BeginCompile
  <2>1. CASE Available
    <3>1. pc' = "spawn" /\ task'.phase = "compile" BY <1>6, <2>1 DEF BeginCompile, Launch
    <3> QED BY <1>2, <1>3, <2>1, <3>1 DEF AnswerInv, LaunchInv, CompileInv, TestsInv, WithCommand
  <2>2. CASE ~Available
    <3>1. pc' = "tests" /\ part'.compile = MissingCommand
      BY <1>0, <1>6, <2>2 DEF BeginCompile
    <3>2. CompileEnded'
      BY <1>1, <1>2, <2>2, <3>1 DEF CompileEnded, MissingCommand, Bare, Plain, Attempted
    <3> QED BY <1>3, <3>1, <3>2 DEF AnswerInv, LaunchInv, CompileInv, TestsInv, WithCommand
  <2> QED BY <2>1, <2>2
<1>7. CASE BeginTests
  <2>1. CompileEnded BY <1>7 DEF BeginTests, AnswerInv, CompileInv
  <2>2. CASE ~SkipTests /\ Available
    <3>1. pc' = "spawn" /\ task'.phase = "tests" /\ part' = part
      BY <1>7, <2>2 DEF BeginTests, Launch
    <3>2. CompileEnded' BY <1>1, <1>2, <2>1, <3>1 DEF CompileEnded
    <3>3. input.scan.hasTests /\ CompiledCleanly(part.compile) BY <2>2 DEF SkipTests
    <3>4. LaunchInv' BY <1>1, <1>2, <2>2, <3>1, <3>3 DEF LaunchInv
    <3> QED BY <1>3, <3>1, <3>2, <3>4 DEF AnswerInv, CompileInv, TestsInv
  <2>3. CASE SkipTests
    <3>1. pc' = "static" /\ part'.compile = part.compile /\ part'.tests = NotYet
      BY <1>0, <1>7, <2>3 DEF BeginTests
    <3>2. CompileEnded' BY <1>1, <1>2, <2>1, <3>1 DEF CompileEnded
    <3>3. TestsEnded' BY <1>1, <2>3, <3>1 DEF TestsEnded, SkipTests
    <3> QED BY <1>3, <3>1, <3>2, <3>3 DEF AnswerInv, LaunchInv, CompileInv, TestsInv, WithCommand
  <2>4. CASE ~SkipTests /\ ~Available
    <3>1. pc' = "static" /\ part'.compile = part.compile /\ part'.tests = MissingCommand
      BY <1>0, <1>7, <2>4 DEF BeginTests
    <3>2. CompileEnded' BY <1>1, <1>2, <2>1, <3>1 DEF CompileEnded
    <3>3. part.compile.status = "not_run" BY <2>1, <2>4 DEF CompileEnded
    <3>4. Plain(MissingCommand) \in Attempted(input.scan, TestKinds)
          /\ MissingCommand.status = "not_run"
      BY DEF MissingCommand, Bare, Plain, Attempted
    <3>5. TestsEnded' BY <1>1, <2>4, <3>1, <3>3, <3>4 DEF TestsEnded, SkipTests
    <3> QED BY <1>3, <3>1, <3>2, <3>5 DEF AnswerInv, LaunchInv, CompileInv, TestsInv, WithCommand
  <2> QED BY <2>2, <2>3, <2>4
<1>8. CASE RetryForced \/ PurgeCache \/ RetryPurged
  <2>1. /\ pc' = "spawn" /\ task'.phase = task.phase /\ part' = part
        /\ pc = "judge" /\ task.phase \in Builds
    BY <1>8 DEF RetryForced, PurgeCache, RetryPurged, Launch, IsBuild, Builds
  <2>2. LaunchInv' BY <1>1, <1>2, <2>1 DEF AnswerInv, LaunchInv, WithCommand
  <2>3. CompileInv'
    BY <1>1, <1>2, <2>1 DEF AnswerInv, CompileInv, CompileEnded, WithCommand
  <2> QED BY <1>3, <2>1, <2>2, <2>3 DEF AnswerInv, TestsInv
<1>9. CASE PhaseEnds
  <2>1. pc = "judge" /\ task.phase \in Builds /\ Counts
    BY <1>9 DEF PhaseEnds, IsBuild, Builds, Counts
  <2> DEFINE r == IF Retries \/ Purges THEN RetriesUsedUp ELSE got
  <2>2. /\ part' = [part EXCEPT ![task.phase] = r]
        /\ pc' = IF task.phase = "compile" THEN "tests" ELSE "static"
    BY <1>9 DEF PhaseEnds
  <2>3. /\ Available /\ HasCommand(input.scan)
        /\ task.phase = "tests" => input.scan.hasTests /\ CompiledCleanly(part.compile)
    BY <2>1 DEF AnswerInv, LaunchInv, WithCommand, Available
  <2>4. /\ r \in Classified(KindsOf(task.phase)) \cup {RetriesUsedUp}
        /\ r = RetriesUsedUp => IsMaven
    <3>1. got \in Classified(KindsOf(task.phase)) BY <2>1 DEF AnswerInv, ExitInv
    <3>2. CASE Retries \/ Purges BY <3>2 DEF Retries, Purges
    <3>3. CASE ~(Retries \/ Purges)
      <4>1. "budget_exceeded" \notin KindsOf(task.phase)
        BY DEF KindsOf, CompileKinds, TestKinds, InfrastructureKinds
      <4>2. RetriesUsedUp \notin Classified(KindsOf(task.phase))
        BY <4>1 DEF Classified, RetriesUsedUp, Bare
      <4> QED BY <3>1, <3>3, <4>2
    <3> QED BY <3>2, <3>3
  <2>5. Plain(r) \in Attempted(input.scan, KindsOf(task.phase)) /\ r.status # "not_run"
    BY <2>3, <2>4, ClassifiedIsAttempted
  <2> HIDE DEF r
  <2>6. CASE task.phase = "compile"
    <3>1. pc' = "tests" /\ part'.compile = r BY <1>0, <2>2, <2>6
    <3>2. CompileEnded' BY <1>1, <1>2, <2>3, <2>5, <2>6, <3>1 DEF CompileEnded, KindsOf
    <3> QED BY <1>3, <3>1, <3>2 DEF AnswerInv, LaunchInv, CompileInv, TestsInv, WithCommand
  <2>7. CASE task.phase = "tests"
    <3>1. pc' = "static" /\ part'.compile = part.compile /\ part'.tests = r
      BY <1>0, <2>2, <2>7
    <3>2. CompileEnded BY <2>1, <2>7 DEF AnswerInv, CompileInv, WithCommand
    <3>3. CompileEnded' BY <1>1, <1>2, <3>1, <3>2 DEF CompileEnded
    <3>4. part.compile.status # "not_run" BY <2>3, <3>2 DEF CompileEnded
    <3>5. TestsEnded' BY <1>1, <2>3, <2>5, <2>7, <3>1, <3>4 DEF TestsEnded, KindsOf
    <3> QED BY <1>3, <3>1, <3>3, <3>5 DEF AnswerInv, LaunchInv, CompileInv, TestsInv, WithCommand
  <2> QED BY <2>1, <2>6, <2>7 DEF Builds
<1>10. CASE BeginStatic
  <2>1. pc = "static" /\ pc' = "walk" /\ part' = part BY <1>10 DEF BeginStatic
  <2>2. CompileEnded /\ TestsEnded BY <2>1 DEF AnswerInv, CompileInv, TestsInv
  <2>3. CompileEnded' /\ TestsEnded' BY <1>1, <1>2, <2>1, <2>2 DEF CompileEnded, TestsEnded
  <2> QED BY <1>3, <2>1, <2>3 DEF AnswerInv, LaunchInv, CompileInv, TestsInv, WithCommand
<1> QED BY <1>4, <1>5, <1>6, <1>7, <1>8, <1>9, <1>10

LEMMA AnswerStep ==
  ASSUME TypeOK, AnswerInv, Next
  PROVE  AnswerInv'
<1>1. CASE \/ OutOfTime \/ Spawn \/ Close \/ CannotStart \/ TimePasses \/ TimerFires \/ Abort
           \/ ChildEnds
  BY <1>1, CommandsAnswer
<1>2. CASE \/ StartRun \/ Prefetched \/ BeginCompile \/ BeginTests \/ RetryForced \/ PurgeCache
           \/ RetryPurged \/ PhaseEnds \/ BeginStatic
  BY <1>2, VerifierAnswers
<1>3. CASE EndStatic \/ SkipStatic
  <2>1. PICK static \in {Passes, Failed("code_failure"), NotYet} :
          Answer(static) /\ (static = NotYet => aborted)
    BY <1>3 DEF EndStatic, SkipStatic, NotYet, Passes, Failed, Bare
  <2>2. /\ verify'.compile = part.compile /\ verify'.tests = part.tests /\ verify'.static = static
        /\ pc' = "answered" /\ UNCHANGED <<input, aborted>>
    BY <2>1 DEF Answer
  <2>3. CompileEnded /\ TestsEnded
    BY <1>3 DEF EndStatic, SkipStatic, AnswerInv, CompileInv, TestsInv
  <2>4. Plain(static) \in {Passed, [status |-> "failed", kind |-> "code_failure"]}
          \cup IF aborted THEN {NotRun} ELSE {}
    BY <2>1 DEF Passes, Failed, NotYet, Bare, Plain, Passed, NotRun
  <2>5. \/ /\ input.scan.hasTests /\ CompiledCleanly(Plain(part.compile))
           /\ Plain(part.tests) \in Attempted(input.scan, TestKinds)
           /\ Plain(part.tests).status = "not_run" <=> Plain(part.compile).status = "not_run"
        \/ /\ ~input.scan.hasTests \/ ~CompiledCleanly(Plain(part.compile)) \/ aborted
           /\ Plain(part.tests) = NotRun
    BY <2>3 DEF TestsEnded, Plain, CompiledCleanly, NotYet, Bare, NotRun
  <2>6. Summary' = [hasTests |-> input.scan.hasTests, compile |-> Plain(part.compile),
                    tests |-> Plain(part.tests), static |-> Plain(static)]
    BY <2>2 DEF Summary
  <2>7. CanAnswer(input.scan, Summary', aborted)
    BY <2>3, <2>4, <2>5, <2>6 DEF CanAnswer, CompileEnded
  <2> QED
    BY <2>2, <2>7
    DEF AnswerInv, LaunchInv, ExitInv, CompileInv, TestsInv, AnswerIsAllowed, WithCommand
<1>4. CASE \/ AfterFirst \/ AskInfra \/ RunAction \/ ActionEnds \/ VerifyAgain \/ AfterInfra
           \/ AskCompile \/ AskTests \/ ApplyFix \/ AfterFix \/ EndFixes
  <2>1. CASE RunAction
    <3>1. pc' = "spawn" /\ task'.phase = "action" BY <2>1 DEF RunAction, Launch
    <3> QED
      BY <3>1 DEF AnswerInv, LaunchInv, ExitInv, CompileInv, TestsInv, AnswerIsAllowed, Builds
  <2>2. CASE ~RunAction
    <3>1. pc' \in {"done", "ask", "act", "fix", "start"}
      BY <1>4, <2>2 DEF AfterFirst, AskInfra, ActionEnds, VerifyAgain, AfterInfra, AskCompile,
                        AskTests, ApplyFix, AfterFix, EndFixes, CallVerifier
    <3> QED
      BY <3>1
      DEF AnswerInv, LaunchInv, ExitInv, CompileInv, TestsInv, AnswerIsAllowed, WithCommand
  <2> QED BY <2>1, <2>2
<1> QED BY <1>1, <1>2, <1>3, <1>4 DEF Next, Proceed

(* For every policy and output, and however exits, timers, aborts and retries  *)
(* interleave: what DefaultVerifier.run answers is what the model of the run   *)
(* takes for possible, and so the decisions made from it are checked against  *)
(* every answer there is (verifier/index.ts 588-692).                         *)
THEOREM AnswersAreAllowed == Spec => []AnswerIsAllowed
<1>1. Init => AnswerInv
  BY DEF Init, AnswerInv, LaunchInv, ExitInv, CompileInv, TestsInv, AnswerIsAllowed, WithCommand
<1>2. TypeOK /\ AnswerInv /\ [Next]_vars => AnswerInv'
  <2> SUFFICES ASSUME TypeOK, AnswerInv, [Next]_vars PROVE AnswerInv' OBVIOUS
  <2>1. CASE Next BY <2>1, AnswerStep
  <2>2. CASE UNCHANGED vars
    BY <2>2 DEF vars, AnswerInv, LaunchInv, ExitInv, CompileInv, TestsInv, AnswerIsAllowed, Counts,
                CompileEnded, TestsEnded, Available, Summary
  <2> QED BY <2>1, <2>2
<1>3. AnswerInv => AnswerIsAllowed BY DEF AnswerInv
<1> QED BY <1>1, <1>2, <1>3, VerificationTypes, PTL DEF Spec
=============================================================================
