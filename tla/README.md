# Code Porter: a verification project

Code Porter migrates code bases by *campaigns*: a campaign applies a pack of recipes to
a project.  Each *run* of it is queued in Postgres and executed by a worker process under
a lease: it prepares a workspace, scans, plans, applies recipes, verifies the result with
the project's own build, lets bounded remediators fix what is known to break under Java
17, writes evidence, and may open a pull request, of which one per project is kept.  This
directory holds TLA+ modules that model these parts, the TLC configurations that check
them, and proofs that TLAPS checks.

All paths below are relative to the repository; `api` is `apps/api/src`, `ws` is
`api/workflow-service.ts`.

## 1. The system

| Component | State | Operations | Interacts with | Modelled in |
| --- | --- | --- | --- | --- |
| API routes (`api/routes`) | none | start, cancel, pause, resume; reports | calls the workflow service | `RunControl` (the calls) |
| Workflow service, control (`ws` 786-1194) | rows of `runs`, `run_jobs`, `campaigns` | `enqueueCampaignRun`, `pauseCampaign`, `resumeCampaign`, `cancelRun` | shares rows with workers | `RunControl` |
| Run queue (`api/run-queue.ts`) | rows of `run_jobs` | claim, extend, complete, requeue, read attempts | called by workers | `RunTables` |
| Run worker (`api/run-worker.ts`, `worker.ts`) | lease flag, abort controller | poll, claim, execute, heartbeat, retry, give up | run queue, workflow service | `RunWorker` |
| Workflow service, execution (`ws` 1196-2045) | locals of `executeRunById`, its rows and files | start, execute, checklist, pull request, finalize | everything below | `RunWorker` (statements on shared rows), `Workflow` (what one execution does), `PullRequests` (keeper automation) |
| Keeper (`api/pr-keeper.ts`, `ws` 330-553, 1598-1773) | `summary`, `pr_state` of several runs; GitHub | choose one pull request per project and base branch, close the others, merge | races with itself and the poller | `PullRequests` |
| PR poller (`api/pr-poller-worker.ts`) | `pr_state`, `summary` | ask GitHub, update rows | rows of ended runs | `PullRequests` |
| Merge checklist (`api/merge-checklist.ts`) | none | scope, size, evidence, parsing | execution | `Workflow` |
| Core workflow (`packages/core/src/workflow`) | locals, evidence files | scan, plan, apply, verify, remediate, decide | verifier, recipes, evidence | `Workflow` |
| Policy, scoring, coverage (`packages/core/src`) | none | configuration, decisions, score, status, classification | core workflow, verifier | `Policy` |
| Evidence (`packages/evidence`) | a directory per run, manifest, zip, S3 | write, finalize, zip, upload, remove | core workflow | `Workflow` |
| Verifier (`packages/verifier`) | child process, timers, budget, retries | run commands, classify, retry, purge | core workflow | `Verification` |
| Remediators (`packages/verifier`) | pom, patch limits, commits | infrastructure commands, Lombok and module-access fixes | verifier, git | `Verification` |
| Recipes (`packages/recipes`) | build files and test sources | plan and apply a pack | core workflow | `Recipes` |
| Workspace, knowledge, migrations, reports, cleanup, observability, scripts | files or none | pure, one-shot or read-only | - | see section 5 |

`PROJECT.json` gives every component its sources, modules and status.

### What is hard about it

* A request or a handler is a sequence of SQL statements, calls to GitHub and file
  operations with no transaction around them.  Other processes run between two of them,
  the process may die, a statement or call may fail.
* A worker holds a job by a lease; heartbeats fail or a process pauses, the lease
  expires, another worker reclaims the job, and the first one goes on until it notices,
  which it may do only at its end, or not at all.
* `cancelRun`, keeper automation and the poller read rows and later write by id only.
  Keeper and poller write back a whole summary over rows of *other* runs.
* A run may be executed again over the evidence directory the earlier execution left.
* Exit, timer and abort of a child process race; retries, remediation rounds and the
  time budget bound the verification together.
* A recipe plans on the files as they are and is applied to what earlier ones left.
* A status is decided by several functions over the same facts (decisions, score,
  checklist, cancel checks), and reported by several others.

`PROJECT.json` lists every such place under `hazards`, at its line, with the properties
that cover it.

### What makes each component correct

* Queue and workers: a healthy worker alone holds its job; no started run is lost; an
  outcome is not taken back.  Control: cancel, pause and limits are respected as far as
  the code promises.
* Keeper and poller: no row tells of a pull request what was never true; a target never
  loses its last pull request to automation; rows catch up with GitHub, unless older open
  pull requests fill the poller's batch for good.
* Workflow and policy: a completed run is earned, a blocked one hides no failure of the
  code, a pull request is backed by a checklist of the same execution, evidence, files
  and rows agree, an aborted verification is no result.
* Verifier and remediators: no verdict from a stopped command; the verdict is of what is
  committed; the policy's limits hold; it ends.
* Recipes: idempotent, announced by their plan, never downgrading, within their scope.

## 2. Modules

| Module | Models | Built on |
| --- | --- | --- |
| `RunTables` | rows of `runs`, `run_jobs`, `campaigns`; the statements of `run-queue.ts` | - |
| `RunControl` | start, pause, resume, cancel | `RunTables` |
| `RunWorker` | `AsyncRunWorker` and `executeRunById`, one action per statement on shared rows | `RunTables` |
| `RunLifecycle` | both interleaved; their properties | `RunControl`, `RunWorker` |
| `RunPromise` | abstract: what API and workers promise together about the status of a run, cancel requests and who works on it | - |
| `PullRequests` | keeper automation of several executions, the poller, GitHub and people | - |
| `Policy` | configuration, decisions, score, status, coverage: operators; `CanAnswer`, what a verification may answer | - |
| `Workflow` | one execution of a run after another: workflow, evidence, checklist, pull request, outcome | `Policy` |
| `Verification` | `DefaultVerifier`, `runCommand`, the three remediators | `Policy` |
| `Recipes` | every recipe, the packs, plan and apply, the commit | - |
| `MC*` | instances for TLC | one of the above each |
| `RunLifecycleTypes`, `RunLifecycleProofs`, `RunAdmissionProofs`, `RunPromiseProofs` | proofs about `RunLifecycle`, and that it implements `RunPromise` | `RunLifecycle`, TLAPS |
| `PullRequestsProofs`, `VerificationProofs`, `WorkflowProofs`, `RecipesProofs` | proofs about these modules | the module, TLAPS |

**Composition.**  `RunLifecycle` interleaves control and workers.  The work of an
execution is one action there (`Work`, any outcome); `Workflow` opens it up for one run,
and in `Workflow` in turn the verification is one action that answers anything
`CanAnswer` allows.  `Verification` checks, and `VerificationProofs` proves, that the
detailed verifier answers only that (`AnswerIsAllowed`): assume and guarantee are the
same operator.  `PullRequests` takes over from `Workflow` at the pull request.

### How state and actions correspond to the code

**RunTables, RunControl, RunWorker.**

* `run[r]`: `runs.status` and what the summary was last written for.  `job[r]`:
  `run_jobs` with its timestamps as what the statements compare with `now()`: `lease` is
  `none`, `live` or `expired`, `due` is `now` or `later`.  `LeaseExpires` and
  `BackoffElapses` are the passing of time.
* `request[r]`, `call[k]`, `worker[w]`: how far a start request, a cancel request or a
  worker's handler got, with what it read.  A worker id stands for one task of a process;
  ids are fresh for every process, so `dead` is final.
* `Work` is everything between the start of the run and the last cancellation check.
  `Throw` is any statement that throws; it is free.  `AbandonCatch`, `Stall`, `Crash`,
  `EnqueueDies` and `CancelDies` each spend one of `MaxFaults`.
* The claim prefers the oldest candidate but skips locked rows, so the model lets it take
  any.  `extendRunJobLease` revives an expired lease nobody reclaimed: so does
  `Heartbeat`.  `LeaseExpires` is disabled while the owner's heartbeats get through: the
  period (30 s) is a tenth of the lease (300 s); a configuration that reverses them is
  not covered.
* `RunPromise` knows no jobs, leases, attempts or faults: `status[r]` is what a client
  sees, `asked[q]` a cancel request with the status it read, `doing[r]` the workers in
  good health at work on `r` (`StatusOf`, `AskedOf`, `DoingOf` map `RunLifecycle` to it).

**PullRequests.**

* Runs are numbered in the order of `started_at`.  `pull[r]` is the pull request on
  GitHub, `row[r]` what `runs` says of it, `keeper[r]` the locals of the execution from
  the end of its workflow on, `poller` its batch and the answer in hand.
* Each call to GitHub and each statement is an action: a summary is read in one and
  written in another (`updateRunSummary`), so updates can be lost, and are.
* `Disturb` holds what spends a fault: failing calls and statements, a throw, a crash, a
  cancel, a person who merges or closes.
* The candidates' order is `compareKeeperCandidates`: checklist, rank of the status, size,
  time.  A row whose summary was left by a catch block is no candidate: the query asks for
  `summary.workspace.defaultBranch`, which such a summary lacks (`intact`).
* `Batch` holds the `BatchSize` oldest rows that say open.

**Policy.**

* A policy file gives each setting or leaves it out (`EmptyPolicyFile`: sets with at most
  one element); `Normalized` is `normalizePolicyConfig`, with its fallbacks and the
  different defaults when the `verify` section is absent.
* `PlanDecisions`, `VerifyDecisions`, the points of the score, `StatusOf`,
  `FailureKindOf`, `Disposition` and `Coverage` follow the functions of `policy.ts`,
  `scoring.ts`, `workflow/index.ts` and `coverage-classification.ts` in their order.

**Workflow.**

* `pc` names the step of `executeWorkflow` and `executeRunById` that comes next;
  `Checkpoints` are those at which the row is asked for a cancel.  `exec` are the locals,
  `disk` the evidence directory (each file: which execution wrote it, and for `run.json`
  what it tells), `bundle` the zip, `listed` the manifest in memory, `rows`
  `evidence_artifacts` with the execution that inserted each.
* `row` is the row of `runs` with the execution whose outcome it has (`by`).  `Record` is
  the finalizing update with its guard: it may match no row, and the execution goes on to
  insert its rows all the same, one `InsertArtifact` a statement, in the manifest's order
  (`Place`).
* `lease` is held by this execution, lost to the worker that takes over, or void after a
  cancel took the job; `CheckLease` asks for it once, before `Record`.  `asked` is a cancel
  request: `ReadForCancel` reads the row, `WriteCancel` and `CancelJob` write it and the
  job later, by id.  `Abort` is the signal, raised by a cancel the poll of the row saw or
  by a heartbeat that could not extend the lease.
* `remote` is the run's branch and pull request: `PushBranch`, then `CreatePull`, whose
  answer may be lost (`AnswerLost`); a later execution's push is refused (`PushRefused`).
* `Throw` is a failing call anywhere in the try block: git and GitHub errors block the
  run, others fail it.  `RewriteFails` is the error that `rewriteRunJsonArtifact` swallows,
  with `run.json` as it was or cut off.  `Crash` ends an execution anywhere, and is also a
  failing statement outside the try block.  `StartOver` is the next execution, on the same
  directory.
* Failing calls, lost answers, failed rewrites, crashes, lost leases and cancel requests
  each spend one of `MaxFaults`.
* Of two executions that overlap the later one starts when the earlier one is at its end,
  although the lease was lost before.  When there are no attempts left is `RunWorker`'s.
* `ApplyStep` takes what the recipes may have changed from `Edits`; a change of a file git
  does not track yet is not committed (see `Recipes`).

**Verification.**

* A command is its phase and its try (first, forced update, purge, again); `cmd` is the
  child with the two flags of `runCommand`; a result is its kind and what the classifier
  and the remediators look for in its output.
* `TimePasses` takes from the budget; `TimerFires` is the timer of the phase or of the
  deadline, which may fire after the child exited and before its streams close.  `Abort`
  happens where the code awaits.
* A pom is what the fixes look for in it: a build with plugins, compiler plugin,
  annotation processor path, `proc:none`, Lombok, test runner plugin, opened packages.
  `of` is the pom the last verification saw, `head` the committed one.
* `Limits` are those of the remediator at work: each has its own iterations, files, lines
  and allowed rules (`compileFixes`, `testFixes` of the policy).  The rules are tried in
  the order of the policy's list, which is not kept, so any allowed one may be taken.

**Recipes.**

* A version is its place among the baselines (absent, unparsable, older, baseline,
  newer); a plugin has its own version, one of a dependency nested in it, or both, in
  either order, and the recipes read and replace the one that comes first (`Version`,
  `AtBase`); a test source its imports, annotation and mentions.
* Each recipe is an operator from tree to tree with the edited files and the lines its
  plan and its result report.  `PlanRecipe`, `BeginApply` and `ApplyRecipe` are the
  engine, which goes through the pack one recipe a step: planned on the files as they
  are, applied to what the recipes before left.  `CommitAll` is the rest of
  `runApplyStep`, `RunAgain` a second run on a fresh clone.
* Nothing runs beside the engine, so the steps between two recipes are seen by nobody;
  they are there because the invariants of the proofs speak of a half-applied pack.

## 3. Runs

| Run | Expect | Checks |
| --- | --- | --- |
| `lifecycle` | pass | `TypeOK`, `LeaseColumnsAgree`, `HealthyWorkerKeepsItsJob`, `QueuedJobHasAttemptsLeft`, `NoRunLeftBehind`, `OnlyLateCancelReopens`, `KeepsPromise` |
| `liveness` | pass | `EveryRunEnds` |
| `admission` | pass | `ActiveWithinLimits` |
| `keeper` | pass | `TypeOK`, `RecordsAreTrue`, `KeeperSurvives`, `RowsCatchUp` |
| `workflow` | pass | `TypeOK`, `CompletedIsEarned`, `BlockedHidesNoFailure`, `BundleIsComplete`, `PullIsBacked`, `FailureHasACause`, `CoverageAgrees`, `RowsMatchDisk`, `RunJsonMatchesRow`, `AbortedIsNoResult` |
| `verification` | pass | `TypeOK`, `AnswerIsAllowed`, `NoVerdictOnceStopped`, `VerdictIsOfTheCommit`, `CommitIsNamed`, `StaysWithinPolicy`, `VerificationEnds` |
| `recipes` | pass | `TypeOK`, `SecondRunIsNoop`, `PlanCoversApply`, `NothingIsDowngraded`, `StaysInScope`, `TestsResolve` |
| `terminal_stays` | violation | `TerminalRunsStay` |
| `outcome_once` | violation | `OutcomeIsWrittenOnce` |
| `inflight` | violation | `InflightWithinLimit` |
| `two_keepers` | violation | `OneOpenKeeper` |
| `uncommitted` | violation | `ChangesAreCommitted` |

**Bounds.**

* `lifecycle`, `liveness`: one run, because apart from the in-flight limits no statement
  touches two.  Two workers are needed for a reclaim, two calls for a cancel over a
  cancel.  `MaxAttempts = 2` has a first, a last and a too late attempt; `MaxFaults = 2`
  a stall and a crash, or a crash on either side of a reclaim.  Workers and calls are
  interchangeable in `lifecycle`; `liveness` uses no symmetry, one call and one fault.
* `admission`, `inflight`: three runs in a project limited to one and two in another with
  a limit of two for both; `MaxStarting = 2` bounds the requests handled at a time.
* `keeper`: three runs, so that one that is settled, one that is preferred and one that
  races exist together; two executed at a time, as the in-flight limits allow two per
  project; one fault.  Two of them change equally much, one may be merged automatically,
  and the poller's batch holds one row, so that it cuts others off (0.46 million states).
  `two_keepers` has a batch that holds all, and needs no fault.
* `workflow`: thirteen inputs, each a case of its own: modes, build systems (supported,
  guarded, excluded, without wrapper, without manifest), limits that fit or not, with and
  without tests, the three evidence stores, four policies.  Four failure kinds: of the
  code, of its tests, blocking and non-blocking ones of the infrastructure.  One fault in
  any of them, so two executions; a second fault, and so a third execution, in two of them
  that keep their directory, with a small change and one failure kind
  (`SecondFaultOfFew`, an action constraint): a lost lease together with a failing insert,
  a failed rewrite, a cancel or a crash (1.5 million states).
* `verification`: six inputs (retries one or two, purge, forced update, two fixes by any
  rule or one by one rule, tool missing, Gradle, unsupported), two ticks of budget, so that it can run out before,
  during and after a command; sizes of fixes that fit singly but not together.
* `recipes`: every pom of up to two plugins in any combination of versions, tags and
  goals, with a nested version before or after the plugin's own; every block of
  dependencies with two test sources; every Gradle build of the shape above; all packs;
  two runs (2.1 million states).

**Fairness.**

* `RunLifecycle` (`EveryRunEnds`): weak fairness on the next statement of an enqueue, a
  cancel call and a worker; on `LeaseExpires` and `BackoffElapses`; strong fairness on
  claiming a given run, because candidates are taken by age and a pause disables the claim
  in between.  None on faults, heartbeats, pauses, resumes and new requests.
* `PullRequests` (`RowsCatchUp`): weak fairness on `Poll`, the poller's endless loop.
  Nothing is asked of the executions, and faults are bounded.  A row need not catch up
  where older pull requests that stay open fill the batch for good (`[]Crowded`).
* `Verification` (`VerificationEnds`): weak fairness on `Proceed`, on `TimerFires`, and on
  the end of a child that was killed.  A command of the verifier is bounded by its timer;
  one that the infrastructure remediator runs itself (`runAction`, `remediator.ts` 43-77)
  has neither timer nor signal, and that it ends is an assumption on Maven.

`Workflow` and `Recipes` are straight sequences whose steps end by themselves; no liveness
is stated for them.  `CHECK_DEADLOCK FALSE` is set where runs end.

**What the violations show** (`findings`): each states a sentence of a document or a test,
and TLC shows an execution of the code that breaks it.

1. `terminal_stays`: a cancel call that read the run as running writes `cancelling` after
   a worker ended it; if the job is settled by then, the run stays so.
2. `outcome_once`: a failure after the finalizing update on the last attempt replaces a
   recorded `failed` outcome by `retry_exhausted`.  The same update ignores the lease.
3. `inflight`: two starts count before either inserts.
4. `two_keepers`: two runs that finish together do not see each other's pull request
   among the recorded rows; both stay open and nothing looks again.
5. `uncommitted`: a `gradle.properties` that a recipe creates is not in git's diff, so the
   change the run reports is neither committed nor offered.

**What the passing properties except.**  Each names in its definition where the code
differs from what a document or a comment suggests; without the exception TLC finds the
execution.

* `RowsCatchUp`, `[]Crowded`: the poller asks for the oldest rows that say open, and while
  these stay open the merge of a younger pull request is never recorded
  (`docs/V1_STAGE10.md` 139 "let PR poller sync merged/closed state").
* `RowsMatchDisk`, the attempt of a row: that the finalizing update matched no row is not
  looked at, so an execution that was overtaken inserts its evidence too
  (`docs/V1_HARDENING.md` 16 "prevent duplicate finalization").
* `RunJsonMatchesRow`, `exec.rewritten`: an error of the rewrite of `run.json` is swallowed
  (`ws` 550), and the file stays without the pull request that the row names
  (`docs/V1_STAGE11.md` 92).  `Cancelled`: the first violation, seen from `run.json`.
* `AbortedIsNoResult`: an aborted execution without its lease may open a pull request.

**What no property says of the recipes.**  The pattern of `maven-compiler-target17` that
looks for the compiler plugin starts at an earlier plugin's tag, so the `<source>` and
`<target>` of that one are set as well (`Recipes` has it so).  The plugin bumps replace
the first `<version>` of the block, which may be a dependency's, also in the Lombok plugin,
whose recipe says that it leaves Lombok dependency versions alone
(`maven-lombok-plugin-java17-bump.ts` 105).  Edits do not stay in their plugin, so there is
nothing to state; what holds over them is `NothingIsDowngraded` and `SecondRunIsNoop`.

**What holds, and is worth knowing.**

* A healthy worker is alone on its job; no worker, however stale, takes a run out of a
  terminal status; every run ends but for the named `Orphaned` cases.
* Stale answers of the poller may put a row back from closed to open, but never to
  anything that is not true of GitHub (`RecordsAreTrue`), and it is asked for again unless
  the batch is full of older ones (`RowsCatchUp`).  Executions that race never close each
  other's last pull request, because each leaves the one it prefers and preference is an
  order (`KeeperSurvives`).
* A pull request is opened whatever the workflow's status is, also `blocked`, if there is
  a commit and the checklist passed; what it rests on is `PullIsBacked`.
* An execution that lost its lease goes on if it is past the point where the signal is
  looked at, or if its verification was aborted and the rest is not: it may evaluate the
  checklist and open a pull request.  Its outcome is not recorded, unless the run was
  cancelled meanwhile and it says so too (`AbortedIsNoResult`).
* `run.json` agrees with the row of the execution whose outcome it is, if the rewrite
  succeeded and no cancel that read the row earlier writes over it (`RunJsonMatchesRow`).
* A failed checklist turns `completed` into `needs_review` in the row; the summary keeps
  the workflow's status.
* Under the policies shipped (threshold 70 or 80) a completed run compiled and passed its
  tests; under a threshold of 65 or less it need not have, hence the premise of
  `CompletedIsEarned`.
* With S3 and without the local disk every apply run fails at the checklist
  (`FailureHasACause` names it).
* With one retry allowed the purge of the local cache is never reached.
* `maven-surefire-safe` alone may lower a version.

## 4. Proofs

Proved for all values of the constants that satisfy the modules' named assumptions
(`TablesAssumption`, `ControlAssumption`, `OutcomesAssumption`,
`PullRequestsAssumption`, `VerificationAssumption`, `WorkflowAssumption`,
`RecipesAssumption`: types, finite sets of runs, positive bounds, for the verifier that an
output is classified into the kinds of its phase, and for the recipes that a campaign
names a pack of the code, since two of their properties rest on the order within a pack).

| Theorem | States |
| --- | --- |
| `TypesHold` | `Spec => []TypeOK` of `RunLifecycle` |
| `LeasesAgree`, `HealthyWorkersKeepTheirJobs`, `QueuedJobsHaveAttemptsLeft`, `NoRunIsLeftBehind` | the invariants of `lifecycle` |
| `OnlyLateCancelsReopen` | the action property of `lifecycle` |
| `ActiveRunsWithinLimits` | `Spec => []ActiveWithinLimits` |
| `PromiseKept` | `Spec => KeepsPromise`: `RunLifecycle` implements `RunPromise` |
| `PullTypes`, `RowsAreTrue` | `TypeOK`, `RecordsAreTrue` of `PullRequests` |
| `OneIsAlwaysLeft` | `Spec => []KeeperSurvives` |
| `SettledForGood` | a merged or closed pull request is never reopened |
| `VerificationTypes`, `VerdictIsOfTheCommitted`, `TheCommitIsNamed`, `PolicyIsKept`, `NoVerdictAfterStop`, `AnswersAreAllowed` | `TypeOK`, `VerdictIsOfTheCommit`, `CommitIsNamed`, `StaysWithinPolicy`, `NoVerdictOnceStopped`, `AnswerIsAllowed` |
| `WorkflowTypes`, `AbortedRunsGiveNoResult`, `PullsAreBacked`, `CompletionsAreEarned`, `BlockedRunsHideNothing`, `CoverageIsConsistent` | `TypeOK`, `AbortedIsNoResult`, `PullIsBacked`, `CompletedIsEarned`, `BlockedHidesNoFailure`, `CoverageAgrees` |
| `BundlesAreComplete`, `RowsAgreeWithDisk`, `RunJsonAgrees`, `FailuresHaveACause` | `BundleIsComplete`, `RowsMatchDisk`, `RunJsonMatchesRow`, `FailureHasACause` |
| `RecipeTypes`, `EditsAreInScope`, `VersionsGoUp` | `TypeOK`, `StaysInScope`, `NothingIsDowngraded` of `Recipes` |
| `PlansAnnounceAll`, `SecondRunsAreNoops`, `TestSourcesResolve` | `PlanCoversApply`, `SecondRunIsNoop`, `TestsResolve` |

### The run's lifecycle

`RunLifecycleTypes` has a lemma for what each statement does to the columns of its row
and to its worker; `TypeInv` is `TypeOK` and `HasOutcome`.  `RunLifecycleProofs` sums
these up in `RunMoves`, `JobMoves` and `WorkerMoves`, all the ways in which one row or one
worker can change.  The inductive invariant `IInv` adds to the properties what they rest
on: `RowsFollowRequest` (rows appear in the order of their inserts), `HandledRunsExist`,
`RetryHasAttemptsLeft` and `GiveUpHasNoneLeft` (what a worker read of the attempts is
still true if it owns the job, since a claim would have changed the owner),
`PastIsBehind` with `PastStays` (a worker that reports has the run's queued and running
statuses behind it, and nothing leads back).

`RunAdmissionProofs` adds `SlotsWithinLimits`: a request that passed a count is counted as
if its run were there.  `RunPromiseProofs` adds `BegunIsBehind`, `CancelWasAsked` and
`HoldersAreAlone`, and maps every action to one of `RunPromise` or a stutter.

### Pull requests

What is written about a pull request is never ahead of it because what an execution or
the poller *holds in hand* never is: `IInv` says so of the state read or answered
(`SeenIn`), of summaries read and not yet written back, of the candidates still to be
closed, and of the chosen keeper (`KeeperIn`, `PollerIn`).  It is stable because GitHub
only moves forward: `Advance` is a fact about every step (`Frame`), and `AllStay` that
everything in hand survives an advance.

`OneIsAlwaysLeft` takes more: an execution closes a pull request on candidates it read
long ago, and the keeper it chose may meanwhile be closed by another execution, which may
itself be closed.  `SInv` says that *every* closed pull request of a quiet target has one
open or merged that `Stands` for it: merged; or of a run nobody will look at again; or
the choice of its own execution and preferred to the closed one; or recorded and
preferred to it.  `Preferred` is a strict order, total because the times of candidates
differ (`PreferredOrders`), and recording a run makes it the newest, so what stood for
a pull request goes on to (`StandsStay`, `RecordStands`).  When the one that stands is
closed in turn, its closer held one preferred to it (`Holds`, `StandIn`), and preference
is transitive.  A stale answer of the poller may make a closed row look open again; that
brings it back into favour only if its answer was read while it was (`Favoured`,
`FavouredBack`).

### Verification

* `Where` and `CommitInv`: which remediator a call of the verifier belongs to; the last
  verdict is not of the pom only while a fix is being verified, and the pom is not the
  committed one only while a remediator of the pom is at work.  A fix only grows the pom
  in the order `Grows`, so what was changed is not changed back, which is what makes "some
  remediator committed" and "the head is not the first pom" the same.
* `LimitsInv`: a purge that runs has been granted one retry more.  The limits of fixes
  are those of the remediator at work, and what it counts starts from nothing when it
  starts.
* `StopInv`: the flags of a running command imply that its judgement is no verdict about
  the code; what the checks hold came through that judgement.
* `AnswerInv`: what a command of a phase leaves is in the kinds of that phase
  (`LaunchInv`, `ExitInv`), the compile check decides whether tests were attempted
  (`CompileInv`, `TestsInv`), and an aborted verification answers what `CanAnswer` allows
  of one.

### Workflow

* `TypeInv` adds that an execution that is still to come was paid for by a fault
  (`Pending`), so attempts stay in range, and that from the decision on there is a status
  (`Settled`).
* `FlowInv`: the outcome of an execution is written last, and the row then tells what the
  execution found, or of a cancel.  The signal means a cancel that stays or a lease that
  does not come back; so an aborted execution that still reaches `Record` with its lease
  has seen the cancel in `LastCheck`, and one without does not reach it, but for the lease
  that is lost after `CheckLease`, where the row tells of the cancel too.
* `PullInv`: at the pull request the checklist, the commit and the edit are of this
  execution, and what an execution says it opened is open on GitHub.
* `StatusInv`, `VerifyInv`: past the decision, the status is the one the decisions and the
  score gave, until the checklist may take a completion back; what is not verified has no
  verdict, and only a build with a command is compiled.  With `PointsAreEarned`
  (each missing point of the score has its cause) `CompletionIsEarned` follows: above 65,
  a score that passes leaves no room for a failed or missing check.
* `EvidenceInv`: `StageInv` says which files are of this execution by the time it is where
  it is (a step adds to them and never takes away); `BundleInv` that the zip of a directory
  at that point is `Complete`, and that what is listed is listed of it; `DiskInv` that zip,
  manifest and every row follow the directory as long as it is kept, but for a `run.json`
  cut off and for what a later execution wrote, whose files are newer than any row
  (`WritesAreNewer`); `InsertInv` that the rows of an execution are inserted from the list
  when nothing is written any more, and are all there when it is done; `CauseInv` that a
  status `failed` is paid for by a fault, unless the evidence was removed: with the
  directory kept, `DiskInv` and `Complete` put `scan.json` where the checklist reads it.

### Recipes

The theorems hold for any number of plugins and any repository of the shape, and the
argument goes over the relation `Onward(t, u)`: recipes, whichever and in whatever order,
may have made `u` of `t`.

* It is reflexive and transitive (`OnwardRefl`, `OnwardTrans`).  Each recipe's result is
  `Sound`: of the same shape, onward of what it was given, and unchanged if no file is
  edited (`RecipeIs`).  The order of a plugin's versions stays, so the version that is
  read first goes up (`VersionOnward`).  Hence `Moving`, that the half-applied tree is
  onward of the repository, from which `NothingIsDowngraded` is read off.
* Each recipe is idempotent (`RecipeIs`), and on a tree onward of another it is
  `Covered`: it edits no file and no more lines than its plan announced on the other
  (`RecipeCovered`; `NashornCoreDependency` needs besides that no file mentions Nashorn
  that did not, `NoNew`, which only the rewriting of the namespace breaks).
* `PlansAnnounceAll`: `Covering` says that there is a history of the sums the plan had
  announced before each recipe, and that what was applied is below the sum at the recipe
  that is next.  Covered recipes keep it.
* `SecondRunsAreNoops`: a recipe that was applied has nothing left to do, and none of
  those after it gives it something (`AppliedSettled`, by `Covered`; here the order within
  the pack matters, which has the namespace before nashorn-core).  So what a run commits
  is settled for the whole pack; what it does not commit is at most the created
  properties file (`DoneSays`, `Rerun`); and recipes that have nothing to do announce
  nothing (`QuietPlan`, `Again`).
* `TestSourcesResolve`: `Stage` follows the pack: after the namespace's rewriting
  every imported @Ignore is OpenJDK's or JUnit 4's, after JUnit's it has its import and
  dependency, after nashorn-core the dependency is there, and the plugins' recipes touch neither.

**Only model-checked:** liveness (`EveryRunEnds`, `RowsCatchUp`, `VerificationEnds`), which
is out of the prover's reach here.  The violations are counterexamples of TLC.

## 5. Not modelled

* Wording, timestamps as such, metrics, events (`run_events`), hashes and links: no
  statement decides on them.
* Two executions of one run at the same time share its workspace and evidence directory;
  `RunWorker` has them on the rows; in `Workflow` the one that took over starts when the
  other is at its end, and their steps on workspace and directory do not interleave.
* Git plumbing and authentication; the text scanners (glob patterns, XML, scripts) below
  what the properties tell apart.  Recipes' patterns on quoted Gradle versions
  (`'11'`), which they never match.
* Knowledge (a stub publisher and a text-similarity lookup whose errors are written, not
  thrown), reports, health, observability: read-only or stateless.  Migrations and
  cleanup: one-shot.  Scripts: clients of the API.  The runner packages are stubs.
* `campaigns` and `projects` are not deleted, rows are not edited by hand.  A single
  statement is atomic; isolation between statements is that of separate transactions.
* The attempts of a job have no bound (`run-queue.ts` 46): nothing in the code
  compares them on a claim, so there is nothing to check.

## 6. What could come next

* Two concurrent executions of one run over one workspace and one evidence directory,
  composed with the leases of `RunWorker`.
* A refinement from `RunLifecycle`'s `Work` to `Workflow`, which share only the outcomes
  today.
