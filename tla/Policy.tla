------------------------------- MODULE Policy -------------------------------
(***************************************************************************)
(* The decisions of a run, as operators: the policy and its defaults       *)
(* (packages/core/src/policy.ts), what the plan and the verification are   *)
(* denied or warned about, the confidence score (scoring.ts), the coverage *)
(* of a build system (coverage-classification.ts), and the status and      *)
(* failure kind executeWorkflow derives from them (workflow/index.ts).     *)
(***************************************************************************)
EXTENDS Integers, FiniteSets

BuildSystems == {"maven", "gradle", "node", "python", "go", "unknown"}

CodeKinds == {"code_compile_failure", "code_test_failure", "code_failure",
              "java17_plugin_incompat", "java17_module_access_test_failure"}

InfrastructureKinds == {"tool_missing", "artifact_resolution", "repo_unreachable",
                        "budget_exceeded", "verify_timeout",
                        "verifier_infrastructure_failure"}

(* ALL_FAILURE_KINDS. *)
FailureKinds == CodeKinds \cup InfrastructureKinds \cup {"unknown"}

(* A check of the verifier: its status and failureKind, "none" when it has    *)
(* none.  A summary holds the three checks and whether there are tests.       *)
Check == [status : {"passed", "failed", "not_run"}, kind : FailureKinds \cup {"none"}]
Verification == [hasTests : BOOLEAN, compile : Check, tests : Check, static : Check]

Passed == [status |-> "passed", kind |-> "none"]
NotRun == [status |-> "not_run", kind |-> "none"]

(* What the scan found.  `gradle`: gradleProjectType. *)
Scan == [build : BuildSystems, gradle : {"none", "jvm", "android", "unknown"},
         wrapper : BOOLEAN, manifest : BOOLEAN, hasTests : BOOLEAN]

(* What DefaultVerifier.run can answer for a scan.  A check fails with a kind, *)
(* or is not run: for want of a tool or a command, or because there are no    *)
(* tests, the compilation did not end or the run was aborted.                 *)
CompileKinds == (InfrastructureKinds \ {"budget_exceeded"})
                  \cup {"java17_plugin_incompat", "code_compile_failure"}
TestKinds == (CompileKinds \ {"code_compile_failure"})
               \cup {"java17_module_access_test_failure", "code_test_failure"}

(* Mutant of HasCommand: a project without a wrapper is built with another Gradle. *)
HasCommandAnyGradle(scan) == scan.build \in {"maven", "node", "gradle"}

HasCommand(scan) == scan.build \in {"maven", "node"} \/ (scan.build = "gradle" /\ scan.wrapper)

(* What a phase that is attempted can give; only Maven is retried, and so can *)
(* use up its retries.                                                        *)
Attempted(scan, kinds) ==
  {[status |-> "not_run", kind |-> "tool_missing"]} \cup
  IF HasCommand(scan)
    THEN {Passed} \cup {[status |-> "failed", kind |-> k] :
            k \in kinds \cup IF scan.build = "maven" THEN {"budget_exceeded"} ELSE {}}
    ELSE {}

CompiledCleanly(check) == check.kind \notin {"verify_timeout", "verifier_infrastructure_failure"}

CanAnswer(scan, verify, aborted) ==
  /\ verify.hasTests = scan.hasTests
  /\ verify.compile \in Attempted(scan, CompileKinds)
  /\ \/ /\ scan.hasTests /\ CompiledCleanly(verify.compile)
        /\ verify.tests \in Attempted(scan, TestKinds)
        /\ verify.tests.status = "not_run" <=> verify.compile.status = "not_run"
     \/ /\ ~scan.hasTests \/ ~CompiledCleanly(verify.compile) \/ aborted
        /\ verify.tests = NotRun
  /\ verify.static \in {Passed, [status |-> "failed", kind |-> "code_failure"]}
       \cup IF aborted THEN {NotRun} ELSE {}

-----------------------------------------------------------------------------
(* policy.ts: the configuration.  A field of the YAML file is the set of the  *)
(* values read: empty when it is absent or has another type.                  *)

Given(value, fallback) == IF value = {} THEN fallback ELSE CHOOSE v \in value : TRUE

(* asPositiveInt, for whole numbers. *)
PositiveOr(value, fallback) ==
  IF \E v \in value : v > 0 THEN CHOOSE v \in value : TRUE ELSE fallback

(* asFailureKindArray: names that are no failure kind are left out, and a     *)
(* list with nothing left is as good as none.                                 *)
FailureKindsOr(value, fallback) ==
  IF value \cap FailureKinds = {} THEN fallback ELSE value \cap FailureKinds

(* deriveLegacyVerifyConfig. *)
LegacyVerify(mode) ==
  IF mode = "warn"
    THEN [blocking |-> CodeKinds, nonBlocking |-> InfrastructureKinds \cup {"unknown"}]
    ELSE [blocking |-> FailureKinds, nonBlocking |-> {}]

(* The rules of the compile remediation, and those of the test runtime        *)
(* remediation, each named for the package it opens.                          *)
CompileRules == {"plugin", "processor path", "proc none"}
TestRules == {"sun.nio.ch", "java.nio", "java.lang"}

(* Whether a remediation is on, and its limits: fixes, files and lines of one *)
(* fix, files and lines of all of them, and the rules it may use.             *)
Remediations ==
  [on : BOOLEAN, tries : Nat, filesPerFix : Nat, linesPerFix : Nat, files : Nat, lines : Nat,
   allowed : SUBSET (CompileRules \cup TestRules)]

DefaultCompileFixes ==
  [on |-> FALSE, tries |-> 2, filesPerFix |-> 1, linesPerFix |-> 25, files |-> 2, lines |-> 40,
   allowed |-> CompileRules]
DefaultTestFixes ==
  [on |-> FALSE, tries |-> 1, filesPerFix |-> 2, linesPerFix |-> 20, files |-> 2, lines |-> 30,
   allowed |-> TestRules]

(* normalizedMavenCompileRemediation and normalizedMavenTestRuntimeRemediation; *)
(* rules that the default does not have are no rules of the remediation.      *)
NormalizedFixes(raw, d) ==
  [on |-> Given(raw.on, d.on), tries |-> PositiveOr(raw.tries, d.tries),
   filesPerFix |-> PositiveOr(raw.filesPerFix, d.filesPerFix),
   linesPerFix |-> PositiveOr(raw.linesPerFix, d.linesPerFix),
   files |-> PositiveOr(raw.files, d.files), lines |-> PositiveOr(raw.lines, d.lines),
   allowed |-> Given(raw.allowed, d.allowed) \cap d.allowed]

(* DEFAULT_POLICY, as far as a run depends on it. *)
DefaultVerify == [blocking |-> CodeKinds, nonBlocking |-> InfrastructureKinds]
DefaultPolicy ==
  [maxFiles |-> 10, maxLines |-> 300, requireTests |-> TRUE,
   allowed |-> {"maven", "gradle", "node"}, mode |-> "deny", android |-> FALSE,
   pass |-> 70, retries |-> 2, retryCached |-> TRUE, forceUpdate |-> TRUE,
   prefetch |-> TRUE, purge |-> FALSE, compileFixes |-> DefaultCompileFixes,
   testFixes |-> DefaultTestFixes]

(* normalizePolicy.  An explicit verify section gives its lists, and for      *)
(* those it does not give the default ones, in which "unknown" is in neither. *)
Normalized(raw) ==
  LET d == DefaultPolicy
      mode == Given(raw.mode, d.mode)
      lists == IF raw.hasVerify THEN DefaultVerify ELSE LegacyVerify(mode)
  IN [maxFiles |-> Given(raw.maxFiles, d.maxFiles),
      maxLines |-> Given(raw.maxLines, d.maxLines),
      requireTests |-> Given(raw.requireTests, d.requireTests),
      allowed |-> Given(raw.allowed, d.allowed) \cap BuildSystems,
      mode |-> mode,
      blocking |-> FailureKindsOr(raw.blocking, lists.blocking),
      nonBlocking |-> FailureKindsOr(raw.nonBlocking, lists.nonBlocking),
      android |-> Given(raw.android, d.android),
      pass |-> Given(raw.pass, d.pass),
      retries |-> PositiveOr(raw.retries, d.retries),
      retryCached |-> Given(raw.retryCached, d.retryCached),
      forceUpdate |-> Given(raw.forceUpdate, d.forceUpdate),
      prefetch |-> Given(raw.prefetch, d.prefetch),
      purge |-> Given(raw.purge, d.purge),
      compileFixes |-> NormalizedFixes(raw.compileFixes, d.compileFixes),
      testFixes |-> NormalizedFixes(raw.testFixes, d.testFixes)]

(* A file that gives nothing, to be overridden field by field. *)
NoFixesGiven ==
  [on |-> {}, tries |-> {}, filesPerFix |-> {}, linesPerFix |-> {}, files |-> {}, lines |-> {},
   allowed |-> {}]
EmptyPolicyFile ==
  [hasVerify |-> FALSE, maxFiles |-> {}, maxLines |-> {}, requireTests |-> {},
   allowed |-> {}, mode |-> {}, blocking |-> {}, nonBlocking |-> {}, android |-> {},
   pass |-> {}, retries |-> {}, retryCached |-> {}, forceUpdate |-> {}, prefetch |-> {},
   purge |-> {}, compileFixes |-> NoFixesGiven, testFixes |-> NoFixesGiven]

Policies ==
  [maxFiles : Int, maxLines : Int, requireTests : BOOLEAN, allowed : SUBSET BuildSystems,
   mode : {"deny", "warn"}, blocking : SUBSET FailureKinds,
   nonBlocking : SUBSET FailureKinds, android : BOOLEAN, pass : Int, retries : Nat,
   retryCached : BOOLEAN, forceUpdate : BOOLEAN, prefetch : BOOLEAN, purge : BOOLEAN,
   compileFixes : Remediations, testFixes : Remediations]

-----------------------------------------------------------------------------
(* Decisions: [id, status, blocking]. *)

Decision(id, status) == [id |-> id, status |-> status, blocking |-> status = "deny"]

(* annotateScanForPolicy. *)
Disposition(scan, policy) ==
  IF ~scan.manifest THEN "no_supported_manifest"
  ELSE IF scan.build \notin policy.allowed THEN "excluded_by_policy"
  ELSE IF scan.build = "gradle" /\ scan.gradle \notin {"none", "jvm"}
            /\ ~(scan.gradle = "android" /\ policy.android)
         THEN "unsupported_subtype"
         ELSE "supported"

(* guardedAndroidBaselineMode. *)
Guarded(scan, policy) == scan.build = "gradle" /\ scan.gradle = "android" /\ policy.android

(* evaluatePlan. *)
PlanDecisions(scan, files, lines, policy) ==
  {Decision("allowed_build_system",
            IF Disposition(scan, policy) # "supported" THEN "deny" ELSE "allow"),
   Decision("max_files_changed", IF files > policy.maxFiles THEN "deny" ELSE "allow"),
   Decision("max_change_lines", IF lines > policy.maxLines THEN "deny" ELSE "allow")}

(* mapFailureToDecision: the non-blocking list first, then the blocking one,  *)
(* then the mode.                                                             *)
FailureDecision(id, check, policy) ==
  LET kind == IF check.kind = "none" THEN "unknown" ELSE check.kind IN
    Decision(id,
      CASE kind \in policy.nonBlocking -> "warn"
        [] kind \in policy.blocking \ policy.nonBlocking -> "deny"
        [] OTHER -> policy.mode)

(* evaluateVerify. *)
VerifyDecisions(verify, policy) ==
  {IF verify.compile.status # "passed"
     THEN FailureDecision("compile_must_pass", verify.compile, policy)
     ELSE Decision("compile_must_pass", "allow"),
   IF policy.requireTests /\ verify.hasTests /\ verify.tests.status # "passed"
     THEN FailureDecision("tests_required_if_present", verify.tests, policy)
     ELSE Decision("tests_required_if_present", "allow"),
   Decision("static_checks",
            CASE verify.static.status = "failed" -> "deny"
              [] verify.static.status = "not_run" -> "warn"
              [] OTHER -> "allow")}

Denied(decisions) == {d \in decisions : d.status = "deny"}
Blocking(decisions) == \E d \in decisions : d.blocking

-----------------------------------------------------------------------------
(* scoring.ts *)

Least(a, b) == IF a < b THEN a ELSE b
Most(a, b) == IF a > b THEN a ELSE b

CompilePoints(verify) == IF verify.compile.status = "passed" THEN 40 ELSE 0

TestPoints(verify, policy) ==
  CASE verify.tests.status = "passed" -> 25
    [] verify.tests.status = "not_run" /\ ~verify.hasTests /\ ~policy.requireTests -> 10
    [] OTHER -> 0

StaticPoints(verify) == IF verify.static.status = "passed" THEN 15 ELSE 0

ChangeSizePoints(files, lines) == Most(0, 10 - (lines \div 100) - files)

(* computeConfidenceScore. *)
Score(verify, files, lines, violations, policy) ==
  Most(0, Least(100, CompilePoints(verify) + TestPoints(verify, policy)
                     + StaticPoints(verify) + ChangeSizePoints(files, lines)
                     - 15 * violations))

-----------------------------------------------------------------------------
(* workflow/index.ts: status, failure kind *)

(* gatherVerifyFailureKinds. *)
GatheredKinds(verify) ==
  {c.kind : c \in {d \in {verify.compile, verify.tests} : d.status # "passed"}} \ {"none"}

(* Mutant of InfrastructureOnly: one infrastructure failure is enough. *)
InfrastructureAmong(verify, policy) == GatheredKinds(verify) \cap policy.nonBlocking # {}

(* deriveBlockedReason gives a reason. *)
InfrastructureOnly(verify, policy) ==
  GatheredKinds(verify) # {} /\ GatheredKinds(verify) \subseteq policy.nonBlocking

IsBlocked(mode, decisions, verify, policy) ==
  mode = "apply" /\ ~Blocking(decisions) /\ InfrastructureOnly(verify, policy)

(* The status of the run as executeWorkflow ends. *)
StatusOf(mode, decisions, verify, files, lines, policy) ==
  IF IsBlocked(mode, decisions, verify, policy) THEN "blocked"
  ELSE IF Blocking(decisions)
            \/ Score(verify, files, lines, Cardinality(Denied(decisions)), policy) < policy.pass
         THEN "needs_review"
         ELSE "completed"

(* derivePrimaryVerifyFailureKind: the first failed check that has a kind,    *)
(* then the first not run that has one; "none" if there is none.              *)
PrimaryKind(verify) ==
  LET checks == <<verify.compile, verify.tests, verify.static>>
      failed == {i \in 1..3 : checks[i].status = "failed" /\ checks[i].kind # "none"}
      other == {i \in 1..3 : checks[i].status = "not_run" /\ checks[i].kind # "none"}
      among == IF failed # {} THEN failed ELSE other
  IN IF among = {} THEN "none" ELSE checks[CHOOSE i \in among : \A j \in among : i <= j].kind

(* failureKind and normalizedFailureKind. *)
FailureKindOf(mode, decisions, verify, scan, policy, guarded, files, status) ==
  LET kinds == {verify.compile.kind, verify.tests.kind, verify.static.kind} IN
    IF IsBlocked(mode, decisions, verify, policy) /\ "budget_exceeded" \in kinds
      THEN "budget_guardrail"
    ELSE IF Disposition(scan, policy) # "supported" THEN "unsupported_build_system"
    ELSE IF guarded THEN IF files = 0 THEN "guarded_baseline_noop" ELSE "guarded_baseline_applied"
    ELSE IF PrimaryKind(verify) # "none" THEN PrimaryKind(verify)
    ELSE IF status = "needs_review" THEN "manual_review_required" ELSE "none"

-----------------------------------------------------------------------------
(* coverage-classification.ts *)

Unsupported == {"excluded_by_policy", "unsupported_subtype", "no_supported_manifest"}

(* deriveCoverageClassification: its cases in their order, each with the      *)
(* outcome and the reason it gives (the next lane follows from the reason).   *)
CoverageCases(scan, disposition, failureKind, status) ==
  LET gradle(type) == scan.build = "gradle" /\ scan.gradle = type
      unsupported == failureKind = "unsupported_build_system"
      off(build) == scan.build = build /\ (disposition = "excluded_by_policy" \/ unsupported)
  IN <<
    [when |-> failureKind = "guarded_baseline_applied", outcome |-> "guarded_applied", why |-> "none"],
    [when |-> failureKind = "guarded_baseline_noop", outcome |-> "guarded_noop", why |-> "none"],
    [when |-> gradle("android") /\ disposition = "supported" /\ status # "completed",
     outcome |-> "guarded_blocked", why |-> "none"],
    [when |-> disposition = "no_supported_manifest",
     outcome |-> "excluded", why |-> "no_supported_manifest"],
    [when |-> gradle("jvm") /\ ~scan.wrapper, outcome |-> "excluded", why |-> "gradle_no_wrapper"],
    [when |-> gradle("android") /\ disposition = "unsupported_subtype",
     outcome |-> "excluded", why |-> "android_unguarded"],
    [when |-> gradle("unknown") /\ status # "completed",
     outcome |-> "excluded", why |-> "gradle_unknown"],
    [when |-> off("go"), outcome |-> "excluded", why |-> "go"],
    [when |-> off("node"), outcome |-> "excluded", why |-> "node"],
    [when |-> off("python"), outcome |-> "excluded", why |-> "python"],
    [when |-> disposition = "excluded_by_policy", outcome |-> "excluded", why |-> "by_policy"],
    [when |-> disposition = "unsupported_subtype" \/ unsupported,
     outcome |-> "excluded", why |-> "unknown"],
    [when |-> TRUE, outcome |-> "none", why |-> "none"] >>

Coverage(scan, disposition, failureKind, status) ==
  LET cases == CoverageCases(scan, disposition, failureKind, status) IN
    cases[CHOOSE i \in 1..13 : cases[i].when /\ \A j \in 1..(i - 1) : ~cases[j].when]
=============================================================================
