----------------------------- MODULE MCWorkflow -----------------------------
(* Instances of Workflow for TLC. *)
EXTENDS Workflow

(* Policy files: the shipped kind (explicit lists, "warn"), a bare one that   *)
(* denies, one that warns, and the guarded Android one; all small of limits.  *)
Small == [EmptyPolicyFile EXCEPT !.maxFiles = {1}, !.maxLines = {20}]
Shipped == [Small EXCEPT !.hasVerify = TRUE, !.mode = {"warn"}, !.pass = {70}]
Bare == Small
Lenient == [Small EXCEPT !.mode = {"warn"}, !.requireTests = {FALSE}]
Listed == [Small EXCEPT !.hasVerify = TRUE, !.mode = {"warn"}, !.blocking = {"code_test_failure", "no_such_kind"},
                        !.android = {TRUE}]

Maven(tests) == [build |-> "maven", gradle |-> "none", wrapper |-> FALSE, manifest |-> TRUE,
                 hasTests |-> tests]
Gradle(type, wrapper) == [build |-> "gradle", gradle |-> type, wrapper |-> wrapper,
                          manifest |-> TRUE, hasTests |-> TRUE]
Go == [build |-> "go", gradle |-> "none", wrapper |-> FALSE, manifest |-> TRUE,
       hasTests |-> TRUE]

Untested(scan) == [scan EXCEPT !.hasTests = FALSE]

Run(mode, file, scan, files, store, github) ==
  [mode |-> mode, policy |-> Normalized(file), scan |-> scan,
   plan |-> [files |-> files, lines |-> 2 * files], store |-> store, github |-> github]

MCInputs ==
  {Run("apply", Shipped, Maven(TRUE), 1, "local", TRUE),
   Run("apply", Lenient, Maven(FALSE), 1, "s3", TRUE),
   Run("apply", Listed, Gradle("jvm", TRUE), 1, "s3", TRUE),
   Run("apply", Shipped, Untested(Gradle("jvm", TRUE)), 1, "s3_only", TRUE),
   Run("plan", Shipped, Maven(TRUE), 1, "s3_only", TRUE),
   Run("plan", Shipped, Maven(TRUE), 1, "s3", TRUE),
   Run("plan", Bare, Maven(FALSE), 2, "local", FALSE),
   Run("apply", Shipped, Maven(TRUE), 2, "local", TRUE),
   Run("apply", Listed, Gradle("jvm", FALSE), 1, "local", TRUE),
   Run("apply", Listed, Gradle("android", TRUE), 1, "local", TRUE),
   Run("apply", Bare, Gradle("android", TRUE), 1, "local", TRUE),
   Run("apply", Lenient, Gradle("unknown", TRUE), 1, "local", FALSE),
   Run("apply", Lenient, [Go EXCEPT !.manifest = FALSE], 0, "local", FALSE)}

(* Nothing, a change as planned, one over the limits and one out of bounds. *)
MCEdits ==
  {NoEdit, [NoEdit EXCEPT !.files = 1, !.lines = 2], [NoEdit EXCEPT !.files = 2, !.lines = 30],
   [files |-> 1, lines |-> 2, inScope |-> FALSE, parses |-> FALSE]}

(* A second disturbance comes only to runs with an evidence directory that    *)
(* stays, a small change and one kind of failure.                             *)
FewInputs ==
  {Run("apply", Shipped, Maven(TRUE), 1, "local", TRUE),
   Run("plan", Shipped, Maven(TRUE), 1, "s3", TRUE)}
FewEdits == {NoEdit, [NoEdit EXCEPT !.files = 1, !.lines = 2]}

SecondFaultOfFew ==
  faults' = 0 =>
    /\ input \in FewInputs
    /\ exec'.edit \in FewEdits
    /\ {exec'.verify.compile.kind, exec'.verify.tests.kind, exec'.verify.static.kind}
         \subseteq {"none", "code_test_failure"}

(* The order of the directory's listing; merge-checklist.json is pushed last. *)
MCPlace ==
  LET order == <<"apply", "patch", "knowledge", "diff", "decisions", "plan", "remediation",
                 "run", "scan", "score", "retrieval", "verify", "checklist">>
  IN [a \in Artifacts |-> CHOOSE i \in 1..13 : order[i] = a]
=============================================================================
