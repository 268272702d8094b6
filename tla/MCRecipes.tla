----------------------------- MODULE MCRecipes -----------------------------
(* Instances of Recipes for TLC: poms with up to two plugins, poms whose      *)
(* dependencies and tests vary, and Gradle builds.                            *)
EXTENDS Recipes

Bare(artifact) ==
  [artifact |-> artifact, own |-> NoVersion, nested |-> NoVersion, nestedFirst |-> FALSE,
   stale |-> {}, goal |-> "none"]

(* A plugin with any version of its own or none, and one nested in it.        *)
Versioned(artifact, nested) ==
  {[Bare(artifact) EXCEPT !.own = v, !.nested = w, !.nestedFirst = b] :
     v \in Versions, w \in nested, b \in BOOLEAN}

Plugins ==
  {p \in UNION {Versioned(a, {NoVersion, 1}) : a \in {"compiler", "surefire", "failsafe", "jar", "lombok"}} :
     p.nestedFirst => p.own # NoVersion /\ p.nested # NoVersion}
  \cup {[Bare("compiler") EXCEPT !.own = v, !.stale = s] : v \in Versions, s \in {{"source"}, Tags}}
  \cup {[Bare("lombok") EXCEPT !.own = v, !.goal = g] : v \in Versions, g \in {"early", "late"}}
  \cup {[Bare("other") EXCEPT !.own = v, !.stale = s] : v \in {1, Base}, s \in {{}, {"source"}}}

PlainPom == [plugins |-> <<>>, stale |-> Tags, first |-> "project",
             project |-> {"junit4"}, elsewhere |-> {}]

Silent == [imports |-> {}, annotation |-> "none", mentions |-> "none"]
NoScript == [present |-> FALSE, old |-> 0]

PlainTree ==
  [kind |-> "maven", pom |-> PlainPom, tests |-> [f \in {"A", "B"} |-> Silent],
   wrapper |-> NoVersion, groovy |-> NoScript, kotlin |-> NoScript,
   properties |-> [text |-> "absent", wrong |-> 2]]

PluginTrees == {[PlainTree EXCEPT !.pom.plugins = <<p, q>>] : p, q \in Plugins}

TestFiles ==
  {[imports |-> i, annotation |-> a, mentions |-> m] :
     i \in {{}, {"jdk"}, {"openjdk"}, {"junit4"}, {"wildcard"}, {"jdk", "junit4"}},
     a \in {"none", "Ignore"}, m \in {"none", "jdk", "openjdk"}}

Blocks ==
  {b \in [first : {"none", "project", "elsewhere"}, project : SUBSET Dependencies,
          elsewhere : SUBSET Dependencies] :
     /\ b.first = "none" => b.project = {} /\ b.elsewhere = {}
     /\ b.first = "elsewhere" \/ b.elsewhere = {}}

TestTrees ==
  {[PlainTree EXCEPT !.pom.first = b.first, !.pom.project = b.project, !.pom.elsewhere = b.elsewhere,
                     !.tests = [f \in {"A", "B"} |-> IF f = "A" THEN x ELSE y]] :
     b \in Blocks, x \in TestFiles,
     y \in {Silent, [Silent EXCEPT !.mentions = "jdk"],
            [Silent EXCEPT !.imports = {"junit4"}, !.annotation = "Ignore"]}}

Scripts == {NoScript} \cup {[present |-> TRUE, old |-> n] : n \in 0..2}

GradleTrees ==
  {[PlainTree EXCEPT !.kind = k, !.wrapper = v, !.groovy = g, !.kotlin = h, !.properties = p] :
     k \in {"jvm", "android"}, v \in Versions, g \in Scripts, h \in Scripts,
     p \in {q \in Properties : q.text # "some" => q.wrong = 2}}

MCTrees == PluginTrees \cup TestTrees \cup GradleTrees

MCPacks == {Delombok, TestCompat, TestCompatV2, GradleJava17, GradleGuarded}
=============================================================================
