--------------------------- MODULE MCVerification ---------------------------
(* Instances of Verification for TLC. *)
EXTENDS Verification

Maven == [build |-> "maven", gradle |-> "none", wrapper |-> FALSE, manifest |-> TRUE,
          hasTests |-> TRUE]

(* All fixes allowed, two of each kind, with the purge of the cache and       *)
(* retries that do or do not suffice for it; one fix, by one rule.            *)
Fixing == [EmptyPolicyFile EXCEPT !.hasVerify = TRUE, !.retries = {1}, !.purge = {TRUE},
                                  !.compileFixes.on = {TRUE}, !.testFixes.on = {TRUE},
                                  !.testFixes.tries = {2}]
Patient == [Fixing EXCEPT !.retries = {2}]
Careful == [EmptyPolicyFile EXCEPT !.prefetch = {FALSE}, !.forceUpdate = {FALSE}, !.purge = {TRUE},
                                   !.compileFixes.on = {TRUE}, !.compileFixes.tries = {1},
                                   !.compileFixes.allowed = {{"proc none"}}]

NoPlugin == [plugins |-> TRUE, compiler |-> FALSE, path |-> FALSE, procNone |-> FALSE, lombok |-> TRUE,
             runner |-> TRUE, opens |-> {}]
NoPath == [NoPlugin EXCEPT !.compiler = TRUE, !.procNone = TRUE]

MCInputs ==
  {[scan |-> Maven, policy |-> Normalized(Fixing), tool |-> TRUE, pom |-> NoPath],
   [scan |-> Maven, policy |-> Normalized(Patient), tool |-> TRUE, pom |-> NoPlugin],
   [scan |-> Maven, policy |-> Normalized(Careful), tool |-> TRUE, pom |-> NoPath],
   [scan |-> Maven, policy |-> Normalized(Fixing), tool |-> FALSE, pom |-> NoPlugin],
   [scan |-> [Maven EXCEPT !.build = "gradle", !.gradle = "jvm", !.wrapper = TRUE],
    policy |-> Normalized(EmptyPolicyFile), tool |-> FALSE, pom |-> NoPlugin],
   [scan |-> [Maven EXCEPT !.build = "node", !.hasTests = FALSE],
    policy |-> Normalized(Fixing), tool |-> TRUE, pom |-> NoPlugin]}

Cached(kind) == [Failed(kind) EXCEPT !.cached = TRUE]

MCCompileEnds ==
  {Passes, Cached("artifact_resolution"), Failed("repo_unreachable"),
   [Failed("code_compile_failure") EXCEPT !.lombok = TRUE]}
MCTestEnds ==
  {Passes, Cached("artifact_resolution"), Failed("code_test_failure"),
   [Failed("java17_module_access_test_failure") EXCEPT !.rules = {"java.nio", "java.lang"}]}
=============================================================================
