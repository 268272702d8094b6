------------------------------ MODULE Recipes ------------------------------
(* The recipes (packages/recipes), the engine that plans and applies a pack   *)
(* of them, and the commit of the result by runApplyStep: one run on a clone  *)
(* of the repository and a second one on what the first committed.            *)
(*                                                                            *)
(* A file is what the recipes' patterns can tell of it. A version is its      *)
(* place among the baselines: 0 is text that parseVersion reads as zero (a    *)
(* property reference), Base the version a recipe writes. A plugin may have a *)
(* <version> of its own and one nested in it (of its own dependencies), in    *)
(* either order in the text.                                                  *)
EXTENDS Integers, FiniteSets, Sequences

CONSTANTS
  Trees,      \* the repositories, as the scan finds them
  Packs       \* the packs of recipes a campaign may name

VARIABLES
  repo,       \* the repository, as committed
  tree,       \* the workspace of the run
  pack,       \* the pack of the campaign
  phase,      \* "planning", "applying" or "ended"
  at,         \* the place in the pack of the recipe that is next
  plan,       \* what the engine planned: files, and lines
  done,       \* what it applied: files, changes (a file once per recipe), lines
  committed,  \* the run made a commit
  round       \* the first run or the second

vars == <<repo, tree, pack, phase, at, plan, done, committed, round>>

NoVersion == -1
Base == 2
Versions == {NoVersion, 0, 1, Base, 3}
Tags == {"source", "target"}
Dependencies == {"junit4", "junit5", "nashorn"}
Imports == {"jdk", "openjdk", "junit4", "junit5", "wildcard"}

(* A plugin of the pom: "nestedFirst", its dependencies come before its own   *)
(* version; "stale" are its <source> and <target> tags that do not read 17,   *)
(* "goal" the phase of its delombok execution.                                *)
Plugin == [artifact : {"compiler", "surefire", "failsafe", "jar", "lombok", "other"},
           own : Versions, nested : Versions, nestedFirst : BOOLEAN, stale : SUBSET Tags,
           goal : {"none", "early", "late"}]

(* "first" is where the first </dependencies> of the pom is; "elsewhere" is a *)
(* dependencyManagement, a plugin or a profile.                               *)
Pom == [plugins : Seq(Plugin), stale : SUBSET Tags, first : {"none", "project", "elsewhere"},
        project : SUBSET Dependencies, elsewhere : SUBSET Dependencies]

(* A test source: its imports of an Ignore or Disabled, the annotation it     *)
(* carries, and the Nashorn namespace it mentions besides.                    *)
TestFile == [imports : SUBSET Imports, annotation : {"none", "Ignore", "Disabled"},
             mentions : {"none", "jdk", "openjdk"}]

(* A Gradle build file: how many declarations of an old Java version it has.  *)
Script == [present : BOOLEAN, old : 0..2]

(* gradle.properties: how many of the two required keys are missing or wrong. *)
Properties == [text : {"absent", "empty", "some"}, wrong : 0..2]

Build == [kind : {"maven", "jvm", "android"}, pom : Pom, tests : [{"A", "B"} -> TestFile],
          wrapper : Versions, groovy : Script, kotlin : Script, properties : Properties]

Files == {"pom", "A", "B", "wrapper", "groovy", "kotlin", "properties"}

-----------------------------------------------------------------------------
(* What a recipe makes of a tree: the tree, the files it edits, the lines its *)
(* edits announce in the plan and those its changes report when applied.      *)
Untouched(t) == [tree |-> t, files |-> {}, planned |-> 0, applied |-> 0]

Edited(t, files, planned, applied) ==
  [tree |-> t, files |-> files, planned |-> planned, applied |-> applied]

EditPlugins(t, new) ==
  LET n == Cardinality({i \in DOMAIN new : new[i] # t.pom.plugins[i]}) IN
  IF n = 0 THEN Untouched(t)
  ELSE Edited([t EXCEPT !.pom.plugins = new], {"pom"}, 2 * n, 2 * n)

EditTests(t, new, lines) ==
  LET files == {f \in DOMAIN new : new[f] # t.tests[f]}
      n == lines * Cardinality(files)
  IN Edited([t EXCEPT !.tests = new], files, n, n)

(* The recipes read, and replace, the first <version> in a plugin's block.    *)
NestedIsRead(plugin) ==
  plugin.nested # NoVersion /\ (plugin.nestedFirst \/ plugin.own = NoVersion)

Version(plugin) == IF NestedIsRead(plugin) THEN plugin.nested ELSE plugin.own

AtBase(plugin) ==
  IF NestedIsRead(plugin) THEN [plugin EXCEPT !.nested = Base] ELSE [plugin EXCEPT !.own = Base]

(* Mutant of Lower: any other version is taken for an older one.              *)
LowerOrOther(v) == v \notin {NoVersion, Base}

(* compareVersions with the baseline, of a plugin that names a version.       *)
Lower(v) == v \in 0..(Base - 1)

-----------------------------------------------------------------------------
(* The Maven recipes on the pom.                                              *)

Bump(t, artifact) ==
  LET Bumped(p) == IF p.artifact = artifact /\ Lower(Version(p)) THEN AtBase(p) ELSE p IN
  EditPlugins(t, [i \in DOMAIN t.pom.plugins |-> Bumped(t.pom.plugins[i])])

CompilerPluginBump(t) == Bump(t, "compiler")
FailsafeSafe(t) == Bump(t, "failsafe")
JarPluginBump(t) == Bump(t, "jar")
LombokPluginBump(t) == Bump(t, "lombok")

(* Any other version, a later one too, becomes the baseline.                  *)
SurefireSafe(t) ==
  LET Set(p) == IF p.artifact = "surefire" /\ Version(p) \notin {NoVersion, Base}
                THEN AtBase(p) ELSE p
  IN EditPlugins(t, [i \in DOMAIN t.pom.plugins |-> Set(t.pom.plugins[i])])

DelombokInPreparePackage(t) ==
  LET Moved(p) == IF p.artifact = "lombok" /\ p.goal = "early" THEN [p EXCEPT !.goal = "late"] ELSE p
  IN EditPlugins(t, [i \in DOMAIN t.pom.plugins |-> Moved(t.pom.plugins[i])])

(* The pattern for the compiler plugin's block starts at the first <plugin>   *)
(* after the previous match: it spans every plugin before the compiler's.     *)
Spans(plugins, i) == \E j \in i..Len(plugins) : plugins[j].artifact = "compiler"

CompilerTarget17(t) ==
  LET plugins == t.pom.plugins
      spanned == {i \in DOMAIN plugins : Spans(plugins, i)}
      new == [i \in DOMAIN plugins |->
                IF i \in spanned THEN [plugins[i] EXCEPT !.stale = {}] ELSE plugins[i]]
      Stale(tag) == Cardinality({i \in spanned : tag \in plugins[i].stale})
      n == Cardinality(t.pom.stale) + Stale("source") + Stale("target")
  IN IF n = 0 THEN Untouched(t)
     ELSE Edited([t EXCEPT !.pom.stale = {}, !.pom.plugins = new], {"pom"}, 2 * n, 2 * n)

(* Mutant of Ensure: a dependency that is there is added again.               *)
EnsureAgain(t, dependency) ==
  Edited([t EXCEPT !.pom.project = @ \cup {dependency}], {"pom"}, 12, 6)

(* A dependency found anywhere in the pom counts as present; a new one is put *)
(* before the first </dependencies>.                                          *)
Ensure(t, dependency) ==
  IF dependency \in t.pom.project \cup t.pom.elsewhere \/ t.pom.first = "none"
  THEN Untouched(t)
  ELSE Edited(IF t.pom.first = "project" THEN [t EXCEPT !.pom.project = @ \cup {dependency}]
              ELSE [t EXCEPT !.pom.elsewhere = @ \cup {dependency}], {"pom"}, 12, 6)

-----------------------------------------------------------------------------
(* The Maven recipes on the test sources.                                     *)

Importing(file, from, to) ==
  IF file.imports \cap from = {} THEN file
  ELSE [file EXCEPT !.imports = (@ \ from) \cup {to}]

NashornIgnoreImportRewrite(t) ==
  EditTests(t, [f \in DOMAIN t.tests |-> Importing(t.tests[f], {"jdk"}, "junit4")], 2)

NashornNamespaceRewrite(t) ==
  LET Renamed(file) == [Importing(file, {"jdk"}, "openjdk") EXCEPT
                          !.mentions = IF @ = "jdk" THEN "openjdk" ELSE @]
  IN EditTests(t, [f \in DOMAIN t.tests |-> Renamed(t.tests[f])], 2)

MentionsNashorn(file) == "openjdk" \in file.imports \/ file.mentions = "openjdk"

NashornCoreDependency(t) ==
  IF \E f \in DOMAIN t.tests : MentionsNashorn(t.tests[f]) THEN Ensure(t, "nashorn")
  ELSE Untouched(t)

UsesIgnore(t) == \E f \in DOMAIN t.tests : t.tests[f].annotation = "Ignore"
HasJunit5(t) == "junit5" \in t.pom.project \cup t.pom.elsewhere

(* In the files with an @Ignore, the known imports become Disabled's and the  *)
(* annotation @Disabled, whatever it was imported through.                    *)
MigrateIgnore(t, known) ==
  LET Migrated(file) ==
        IF file.annotation # "Ignore" THEN file
        ELSE [Importing(file, known, "junit5") EXCEPT !.annotation = "Disabled"]
  IN EditTests(t, [f \in DOMAIN t.tests |-> Migrated(t.tests[f])], 4)

NormalizeIgnoreImports(t) ==
  LET Normalized(file) == IF file.annotation # "Ignore" THEN file
                          ELSE Importing(file, {"jdk", "openjdk"}, "junit4")
  IN EditTests(t, [f \in DOMAIN t.tests |-> Normalized(t.tests[f])], 2)

JunitIgnoreCompat(t) ==
  IF ~UsesIgnore(t) THEN Untouched(t)
  ELSE IF HasJunit5(t) THEN MigrateIgnore(t, {"jdk", "junit4"})
  ELSE Ensure(t, "junit4")

JunitIgnoreCompatV2(t) ==
  IF ~UsesIgnore(t) THEN Untouched(t)
  ELSE IF HasJunit5(t) THEN MigrateIgnore(t, {"jdk", "openjdk", "junit4"})
  ELSE LET n == NormalizeIgnoreImports(t)
           d == Ensure(n.tree, "junit4")
       IN Edited(d.tree, n.files \cup d.files, n.planned + d.planned, n.applied + d.applied)

-----------------------------------------------------------------------------
(* The Gradle recipes.                                                        *)

WrapperJava17Min(t) ==
  IF Lower(t.wrapper) THEN Edited([t EXCEPT !.wrapper = Base], {"wrapper"}, 2, 2) ELSE Untouched(t)

(* Only build.gradle if there is one, build.gradle.kts otherwise.             *)
Java17Baseline(t) ==
  LET n == IF t.groovy.present THEN t.groovy.old ELSE t.kotlin.old IN
  IF n = 0 THEN Untouched(t)
  ELSE IF t.groovy.present
  THEN Edited([t EXCEPT !.groovy.old = 0], {"groovy"}, 2 * n, 2 * n)
  ELSE Edited([t EXCEPT !.kotlin.old = 0], {"kotlin"}, 2 * n, 2 * n)

(* Mutant of GuardedPropertiesBaseline: the plan counts the new lines only.   *)
GuardedPropertiesTwoLines(t) ==
  LET n == t.properties.wrong IN
  IF n = 0 THEN Untouched(t)
  ELSE Edited([t EXCEPT !.properties = [text |-> "some", wrong |-> 0]], {"properties"},
              2, IF t.properties.text = "some" THEN 2 * n ELSE n)

(* The file is created if there is none.                                      *)
GuardedPropertiesBaseline(t) ==
  LET n == t.properties.wrong IN
  IF n = 0 THEN Untouched(t)
  ELSE Edited([t EXCEPT !.properties = [text |-> "some", wrong |-> 0]], {"properties"},
              4, IF t.properties.text = "some" THEN 2 * n ELSE n)

-----------------------------------------------------------------------------
(* The packs and the engine.                                                  *)

Core == <<"target17", "compiler", "surefire">>
PluginModernize == Core \o <<"failsafe", "jar">>
Lombok == <<"target17", "compiler", "lombok", "surefire", "failsafe", "jar">>
Delombok == <<"target17", "compiler", "lombok", "delombok", "surefire", "failsafe", "jar">>
TestCompat == <<"target17", "compiler", "lombok", "delombok", "nashorn-import", "junit",
                "surefire", "failsafe", "jar">>

(* Mutant of TestCompatV2: the dependency is looked after before the rewrites. *)
TestCompatV2DependencyFirst ==
  <<"target17", "compiler", "lombok", "delombok", "nashorn-core", "namespace", "junit-v2",
    "surefire", "failsafe", "jar">>

TestCompatV2 == <<"target17", "compiler", "lombok", "delombok", "namespace", "junit-v2",
                  "nashorn-core", "surefire", "failsafe", "jar">>
GradleJava17 == <<"wrapper", "java17">>
GradleGuarded == <<"wrapper", "properties">>

Apply(recipe, t) ==
  CASE recipe = "target17" -> CompilerTarget17(t)
    [] recipe = "compiler" -> CompilerPluginBump(t)
    [] recipe = "surefire" -> SurefireSafe(t)
    [] recipe = "failsafe" -> FailsafeSafe(t)
    [] recipe = "jar" -> JarPluginBump(t)
    [] recipe = "lombok" -> LombokPluginBump(t)
    [] recipe = "delombok" -> DelombokInPreparePackage(t)
    [] recipe = "nashorn-import" -> NashornIgnoreImportRewrite(t)
    [] recipe = "junit" -> JunitIgnoreCompat(t)
    [] recipe = "namespace" -> NashornNamespaceRewrite(t)
    [] recipe = "junit-v2" -> JunitIgnoreCompatV2(t)
    [] recipe = "nashorn-core" -> NashornCoreDependency(t)
    [] recipe = "wrapper" -> WrapperJava17Min(t)
    [] recipe = "java17" -> Java17Baseline(t)
    [] recipe = "properties" -> GuardedPropertiesBaseline(t)

GradleRecipes == {"wrapper", "java17", "properties"}

Recipes == {"target17", "compiler", "surefire", "failsafe", "jar", "lombok", "delombok",
            "nashorn-import", "junit", "namespace", "junit-v2", "nashorn-core"} \cup GradleRecipes

NamedPacks == {Core, PluginModernize, Lombok, Delombok, TestCompat, TestCompatV2,
               GradleJava17, GradleGuarded}

ASSUME RecipesAssumption == Trees \subseteq Build /\ Packs \subseteq NamedPacks

(* Mutant of AppliesTo: the JVM baseline is for every Gradle project.         *)
AppliesToAnyGradle(recipe, t) == (recipe \in GradleRecipes) = (t.kind # "maven")

AppliesTo(recipe, t) ==
  /\ (recipe \in GradleRecipes) = (t.kind # "maven")
  /\ recipe = "java17" => t.kind = "jvm"

(* What the plan of a recipe announces, on the files as they are.             *)
Announced(p, recipe, t) ==
  IF ~AppliesTo(recipe, t) THEN p
  ELSE [files |-> p.files \cup Apply(recipe, t).files, lines |-> p.lines + Apply(recipe, t).planned]

(* Mutant of After: changes are counted per recipe.                           *)
AfterPerRecipe(d, recipe, t) ==
  LET s == Apply(recipe, t) IN
  [files |-> d.files \cup s.files,
   changes |-> IF s.files = {} THEN d.changes ELSE d.changes + 1, lines |-> d.lines + s.applied]

(* What is done after a recipe is applied to what those before it left.       *)
After(d, recipe, t) ==
  LET s == Apply(recipe, t) IN
  [files |-> d.files \cup s.files, changes |-> d.changes + Cardinality(s.files),
   lines |-> d.lines + s.applied]

-----------------------------------------------------------------------------
NothingPlanned == [files |-> {}, lines |-> 0]
NothingDone == [files |-> {}, changes |-> 0, lines |-> 0]

Init ==
  /\ repo \in Trees /\ tree = repo
  /\ pack \in Packs
  /\ phase = "planning" /\ at = 1 /\ plan = NothingPlanned /\ done = NothingDone
  /\ committed = FALSE /\ round = 1

(* plan and apply of the engine go through the pack, one recipe a step.       *)
PlanRecipe ==
  /\ phase = "planning" /\ at <= Len(pack)
  /\ plan' = Announced(plan, pack[at], tree)
  /\ at' = at + 1
  /\ UNCHANGED <<repo, tree, pack, phase, done, committed, round>>

BeginApply ==
  /\ phase = "planning" /\ at > Len(pack)
  /\ phase' = "applying" /\ at' = 1
  /\ UNCHANGED <<repo, tree, pack, plan, done, committed, round>>

ApplyRecipe ==
  /\ phase = "applying" /\ at <= Len(pack)
  /\ IF AppliesTo(pack[at], tree)
       THEN tree' = Apply(pack[at], tree).tree /\ done' = After(done, pack[at], tree)
       ELSE UNCHANGED <<tree, done>>
  /\ at' = at + 1
  /\ UNCHANGED <<repo, pack, phase, plan, committed, round>>

AllApplied == phase = "applying" /\ at > Len(pack)

(* git diff says nothing of a file that git does not track yet: a patch that  *)
(* would hold only a created file is empty, and nothing is committed.         *)
Tracked(t) == Files \ (IF t.properties.text = "absent" THEN {"properties"} ELSE {})

CommitAll ==
  /\ AllApplied
  /\ phase' = "ended"
  /\ committed' = (done.files \cap Tracked(repo) # {})
  /\ repo' = IF committed' THEN tree ELSE repo
  /\ UNCHANGED <<tree, pack, at, plan, done, round>>

(* Another run of the campaign, on a fresh clone.                             *)
RunAgain ==
  /\ phase = "ended" /\ round = 1
  /\ round' = 2 /\ phase' = "planning" /\ at' = 1
  /\ tree' = repo /\ plan' = NothingPlanned /\ done' = NothingDone /\ committed' = FALSE
  /\ UNCHANGED <<repo, pack>>

Next == PlanRecipe \/ BeginApply \/ ApplyRecipe \/ CommitAll \/ RunAgain

Spec == Init /\ [][Next]_vars

-----------------------------------------------------------------------------
(* The trees keep their shape through every recipe, and the counts fit.       *)
TypeOK ==
  /\ repo \in Build /\ tree \in Build /\ pack \in Packs
  /\ phase \in {"planning", "applying", "ended"} /\ at \in 1..(Len(pack) + 1)
  /\ plan.files \subseteq Files /\ plan.lines \in Nat
  /\ done.files \subseteq Files /\ done.lines \in Nat /\ done.changes \in Nat
  /\ done.changes >= Cardinality(done.files)
  /\ committed \in BOOLEAN /\ round \in 1..2

Created == done.files # {} /\ done.files \cap Tracked(repo) = {}

(* A pack is idempotent, as docs/V1_STAGE5.md asks of it: on the commit of a  *)
(* first run, the second plans nothing and changes nothing. Only a created    *)
(* gradle.properties, which no commit holds, is created again.                *)
SecondRunIsNoop ==
  round = 2 /\ AllApplied =>
    \/ done.files = {} /\ plan.files = {} /\ plan.lines = 0 /\ tree = repo
    \/ Created

HasRecipe(recipe) == \E i \in DOMAIN pack : pack[i] = recipe

(* The tests will need nashorn-core only once their namespace is rewritten,   *)
(* or no longer once their imports are.                                       *)
NashornIsMoved ==
  /\ HasRecipe("namespace")
  /\ \E f \in DOMAIN repo.tests : "jdk" \in repo.tests[f].imports \/ repo.tests[f].mentions = "jdk"

(* The plan, which the policy's limits are checked on before anything is      *)
(* written (PlanDecisions of Policy), announces every file that applying the  *)
(* pack changes and at least as many lines: except for the dependency on      *)
(* nashorn-core, planned on sources that the pack itself rewrites.            *)
PlanCoversApply ==
  phase = "applying" /\ ~NashornIsMoved => done.files \subseteq plan.files /\ done.lines <= plan.lines

(* No recipe lowers the version of a plugin or of the wrapper; SurefireSafe   *)
(* is known to, and makes every other version its own.                        *)
NothingIsDowngraded ==
  phase = "applying" =>
    /\ tree.wrapper >= repo.wrapper
    /\ \A i \in DOMAIN repo.pom.plugins :
         LET old == repo.pom.plugins[i]
             new == tree.pom.plugins[i]
         IN \/ new.own >= old.own /\ new.nested >= old.nested
            \/ old.artifact = "surefire" /\ Version(new) = Base

Scope(t) ==
  CASE t.kind = "maven" -> {"pom", "A", "B"}
    [] t.kind = "android" -> {"properties", "wrapper"}
    [] OTHER -> {"groovy", "kotlin", "properties", "wrapper"}

(* Whatever pack the campaign names, what it changes is in the scope that the *)
(* merge checklist allows the repository's kind (buildAllowedFileScope): an   *)
(* Android build script is never rewritten.                                   *)
StaysInScope == plan.files \cup done.files \subseteq Scope(tree)

Resolves(t, f) ==
  LET file == t.tests[f] IN
  /\ file.annotation = "Ignore" => "junit4" \in file.imports /\ "junit4" \in t.pom.project
  /\ file.annotation = "Disabled" => "junit5" \in file.imports /\ "junit5" \in t.pom.project
  /\ MentionsNashorn(file) => "nashorn" \in t.pom.project

DependenciesElsewhere(t) == t.pom.first # "project" \/ t.pom.elsewhere # {}

(* What a test source needed of JUnit or Nashorn it finds after the           *)
(* test-compatibility pack (v2), which takes all its recipes in their order:  *)
(* its annotation has the import and the dependency of the same JUnit, and    *)
(* what it says of Nashorn has nashorn-core. Not for an @Ignore imported by a *)
(* wildcard, renamed without its import, and not in a pom whose dependencies  *)
(* are, as the patterns do not see, elsewhere than in the project's block.    *)
TestsResolve ==
  AllApplied /\ tree.kind = "maven" /\ pack = TestCompatV2 /\ ~DependenciesElsewhere(repo) =>
    \A f \in DOMAIN repo.tests :
      /\ repo.tests[f].annotation = "Ignore"
      /\ repo.tests[f].imports \cap {"jdk", "openjdk", "junit4"} # {}
      => Resolves(tree, f)

(* docs/V1_STAGE5.md: guarded Android runs "can apply deterministic baseline  *)
(* edits, open PRs": a run that applied a change has it in a commit.          *)
ChangesAreCommitted == phase = "ended" /\ done.files # {} => committed
=============================================================================
