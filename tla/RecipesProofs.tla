--------------------------- MODULE RecipesProofs ---------------------------
(***************************************************************************)
(* For every repository of the model's shape and every pack of the code:   *)
(* the types of Recipes, and what its runs promise.                        *)
(***************************************************************************)
EXTENDS Recipes, FiniteSetTheorems, TLAPS

(* Onward(t, u): recipes, whichever and in whatever order, may have made u of *)
(* t. A plugin's version is the same or, from one that a recipe takes for     *)
(* outdated, the baseline; everything a recipe looks for is there at most     *)
(* where it was before.                                                       *)
Rebased(p, q) ==
  /\ p.artifact # "other"
  /\ Lower(Version(p)) \/ (p.artifact = "surefire" /\ Version(p) \notin {NoVersion, Base})
  /\ NestedIsRead(p) => q.own = p.own /\ q.nested = Base
  /\ ~NestedIsRead(p) => q.own = Base /\ q.nested = p.nested

PluginOnward(p, q, spanned) ==
  /\ q.artifact = p.artifact /\ q.nestedFirst = p.nestedFirst
  /\ (q.own = p.own /\ q.nested = p.nested) \/ Rebased(p, q)
  /\ q.stale \subseteq p.stale
  /\ q.stale # p.stale => spanned
  /\ q.goal = p.goal \/ (p.artifact = "lombok" /\ p.goal = "early" /\ q.goal = "late")

PluginsOnward(m, n) ==
  /\ Len(n) = Len(m)
  /\ \A i \in 1..Len(m) : PluginOnward(m[i], n[i], Spans(m, i))

(* The dependencies of a pom, and those it may get: in its first block, and   *)
(* never a JUnit 5.                                                           *)
DependenciesOnward(p, q) ==
  /\ q.first = p.first
  /\ p.project \subseteq q.project /\ p.elsewhere \subseteq q.elsewhere
  /\ q.first = "none" => q.project = p.project /\ q.elsewhere = p.elsewhere
  /\ "junit5" \in q.project \cup q.elsewhere => "junit5" \in p.project \cup p.elsewhere

PomOnward(p, q) ==
  /\ PluginsOnward(p.plugins, q.plugins)
  /\ q.stale \subseteq p.stale
  /\ DependenciesOnward(p, q)

UsesJdk(file) == "jdk" \in file.imports \/ file.mentions = "jdk"
KnownImport(file) == file.imports \cap {"jdk", "openjdk"} # {}

FileOnward(f, g) ==
  /\ g.annotation = "Ignore" => f.annotation = "Ignore"
  /\ "jdk" \in g.imports => "jdk" \in f.imports
  /\ g.mentions = "jdk" => f.mentions = "jdk"
  /\ KnownImport(g) => KnownImport(f)
  /\ MentionsNashorn(g) => MentionsNashorn(f) \/ UsesJdk(f)

TestsOnward(t, u) == \A f \in {"A", "B"} : FileOnward(t.tests[f], u.tests[f])

ScriptOnward(s, r) == r.present = s.present /\ (r.old = s.old \/ r.old = 0)

GradleOnward(t, u) ==
  /\ u.wrapper = t.wrapper \/ (Lower(t.wrapper) /\ u.wrapper = Base)
  /\ ScriptOnward(t.groovy, u.groovy) /\ ScriptOnward(t.kotlin, u.kotlin)

Wanted == [text |-> "some", wrong |-> 0]
PropertiesOnward(t, u) == u.properties = t.properties \/ u.properties = Wanted

(* All of it but the properties.                                              *)
Ahead(t, u) ==
  /\ u.kind = t.kind
  /\ PomOnward(t.pom, u.pom)
  /\ TestsOnward(t, u)
  /\ GradleOnward(t, u)

Onward(t, u) == Ahead(t, u) /\ PropertiesOnward(t, u)

(* No file mentions the Nashorn of u that did not mention it in t.            *)
NoNew(t, u) ==
  \A f \in {"A", "B"} : MentionsNashorn(u.tests[f]) => MentionsNashorn(t.tests[f])

-----------------------------------------------------------------------------
(* Types.                                                                     *)

LEMMA PluginsType ==
  ASSUME NEW t \in Build
  PROVE  /\ t.pom \in Pom /\ t.pom.plugins \in Seq(Plugin)
         /\ Len(t.pom.plugins) \in Nat
         /\ DOMAIN t.pom.plugins = 1..Len(t.pom.plugins)
         /\ \A i \in 1..Len(t.pom.plugins) : t.pom.plugins[i] \in Plugin
<1>1. t.pom \in Pom
  BY DEF Build
<1>2. t.pom.plugins \in Seq(Plugin)
  BY <1>1 DEF Pom
<1> QED
  BY <1>1, <1>2

LEMMA TestsType ==
  ASSUME NEW t \in Build
  PROVE  /\ t.tests \in [{"A", "B"} -> TestFile]
         /\ DOMAIN t.tests = {"A", "B"}
         /\ \A f \in {"A", "B"} : t.tests[f] \in TestFile
BY DEF Build

LEMMA PluginTypes ==
  ASSUME NEW p \in Plugin
  PROVE  /\ p.own \in Versions /\ p.nested \in Versions /\ Version(p) \in Versions
         /\ p.stale \subseteq Tags
         /\ p.artifact \in {"compiler", "surefire", "failsafe", "jar", "lombok", "other"}
         /\ p.goal \in {"none", "early", "late"}
BY DEF Plugin, Version, NestedIsRead

LEMMA AtBaseIs ==
  ASSUME NEW p \in Plugin
  PROVE  /\ AtBase(p) \in Plugin
         /\ AtBase(p).artifact = p.artifact /\ AtBase(p).stale = p.stale /\ AtBase(p).goal = p.goal
         /\ AtBase(p).nestedFirst = p.nestedFirst
         /\ NestedIsRead(p) => AtBase(p).own = p.own /\ AtBase(p).nested = Base
         /\ ~NestedIsRead(p) => AtBase(p).own = Base /\ AtBase(p).nested = p.nested
         /\ Version(AtBase(p)) = Base
         /\ Version(p) # Base => AtBase(p) # p
<1>1. AtBase(p) \in Plugin /\ Base # NoVersion
  BY DEF Plugin, AtBase, Versions, NoVersion, Base
<1>2. /\ AtBase(p).artifact = p.artifact /\ AtBase(p).stale = p.stale /\ AtBase(p).goal = p.goal
      /\ AtBase(p).nestedFirst = p.nestedFirst
      /\ NestedIsRead(p) => AtBase(p).own = p.own /\ AtBase(p).nested = Base
      /\ ~NestedIsRead(p) => AtBase(p).own = Base /\ AtBase(p).nested = p.nested
  BY DEF Plugin, AtBase
<1>3. Version(AtBase(p)) = Base
  BY <1>1, <1>2 DEF Version, NestedIsRead
<1> QED
  BY <1>1, <1>2, <1>3

LEMMA VersionOnward ==
  ASSUME NEW p, NEW q, NEW s, PluginOnward(p, q, s)
  PROVE  /\ Rebased(p, q) => Version(q) = Base
         /\ ~Rebased(p, q) => q.own = p.own /\ q.nested = p.nested /\ Version(q) = Version(p)
<1>1. Rebased(p, q) => Version(q) = Base
  BY DEF PluginOnward, Rebased, Version, NestedIsRead, Base, NoVersion
<1>2. ~Rebased(p, q) => q.own = p.own /\ q.nested = p.nested /\ q.nestedFirst = p.nestedFirst
  BY DEF PluginOnward
<1> QED
  BY <1>1, <1>2 DEF Version, NestedIsRead

-----------------------------------------------------------------------------
(* Onward is reflexive and transitive.                                        *)

LEMMA SpansSame ==
  ASSUME NEW m, NEW n, Len(m) \in Nat, Len(n) = Len(m),
         \A i \in 1..Len(m) : n[i].artifact = m[i].artifact, NEW i \in 1..Len(m)
  PROVE  Spans(n, i) <=> Spans(m, i)
BY DEF Spans

LEMMA PluginOnwardTrans ==
  ASSUME NEW p \in Plugin, NEW q \in Plugin, NEW r \in Plugin, NEW s \in BOOLEAN,
         PluginOnward(p, q, s), PluginOnward(q, r, s)
  PROVE  PluginOnward(p, r, s)
<1>1. r.artifact = p.artifact /\ r.nestedFirst = p.nestedFirst /\ r.stale \subseteq p.stale /\ (r.stale # p.stale => s)
  BY DEF PluginOnward
<1>2. r.goal = p.goal \/ (p.artifact = "lombok" /\ p.goal = "early" /\ r.goal = "late")
  BY DEF PluginOnward
<1>3. (r.own = p.own /\ r.nested = p.nested) \/ Rebased(p, r)
  <2>1. CASE q.own = p.own /\ q.nested = p.nested
    BY <2>1 DEF PluginOnward, Rebased, Version, NestedIsRead
  <2>2. CASE Rebased(p, q)
    <3>1. Version(q) = Base /\ ~Lower(Version(q))
      BY <2>2, VersionOnward DEF Lower, Base
    <3>2. ~Rebased(q, r)
      BY <3>1 DEF Rebased
    <3>3. r.own = q.own /\ r.nested = q.nested
      BY <3>2 DEF PluginOnward
    <3> QED
      BY <2>2, <3>3 DEF Rebased
  <2> QED
    BY <2>1, <2>2 DEF PluginOnward
<1> QED
  BY <1>1, <1>2, <1>3 DEF PluginOnward

LEMMA PluginsOnwardTrans ==
  ASSUME NEW l \in Seq(Plugin), NEW m \in Seq(Plugin), NEW n \in Seq(Plugin),
         PluginsOnward(l, m), PluginsOnward(m, n)
  PROVE  PluginsOnward(l, n)
<1>1. Len(n) = Len(l) /\ Len(m) = Len(l) /\ Len(l) \in Nat
  BY DEF PluginsOnward
<1>2. ASSUME NEW i \in 1..Len(l)
      PROVE  PluginOnward(l[i], n[i], Spans(l, i))
  <2>1. \A j \in 1..Len(l) : m[j].artifact = l[j].artifact
    BY DEF PluginsOnward, PluginOnward
  <2>2. Spans(m, i) <=> Spans(l, i)
    BY <1>1, <2>1, SpansSame
  <2>3. PluginOnward(l[i], m[i], Spans(l, i)) /\ PluginOnward(m[i], n[i], Spans(m, i))
    BY <1>1 DEF PluginsOnward
  <2>4. l[i] \in Plugin /\ m[i] \in Plugin /\ n[i] \in Plugin
    BY <1>1
  <2>5. Spans(l, i) \in BOOLEAN
    BY DEF Spans
  <2>6. PluginOnward(m[i], n[i], Spans(l, i))
    BY <2>2, <2>3 DEF PluginOnward
  <2> QED
    BY <2>3, <2>4, <2>5, <2>6, PluginOnwardTrans
<1> QED
  BY <1>1, <1>2 DEF PluginsOnward

LEMMA PomOnwardTrans ==
  ASSUME NEW p \in Pom, NEW q \in Pom, NEW r \in Pom, PomOnward(p, q), PomOnward(q, r)
  PROVE  PomOnward(p, r)
<1>1. PluginsOnward(p.plugins, r.plugins)
  BY PluginsOnwardTrans DEF Pom, PomOnward
<1>2. r.stale \subseteq p.stale
  BY DEF PomOnward
<1>3. DependenciesOnward(p, r)
  BY DEF PomOnward, DependenciesOnward
<1> QED
  BY <1>1, <1>2, <1>3 DEF PomOnward

LEMMA FileOnwardTrans ==
  ASSUME NEW f, NEW g, NEW h, FileOnward(f, g), FileOnward(g, h)
  PROVE  FileOnward(f, h)
<1>1. UsesJdk(g) => UsesJdk(f)
  BY DEF FileOnward, UsesJdk
<1> QED
  BY <1>1 DEF FileOnward

LEMMA GradleOnwardTrans ==
  ASSUME NEW t \in Build, NEW u \in Build, NEW v \in Build, GradleOnward(t, u), GradleOnward(u, v)
  PROVE  GradleOnward(t, v)
<1>1. v.wrapper = t.wrapper \/ (Lower(t.wrapper) /\ v.wrapper = Base)
  BY DEF GradleOnward, Lower, Base
<1>2. ScriptOnward(t.groovy, v.groovy) /\ ScriptOnward(t.kotlin, v.kotlin)
  BY DEF GradleOnward, ScriptOnward
<1> QED
  BY <1>1, <1>2 DEF GradleOnward

LEMMA OnwardTrans ==
  ASSUME NEW t \in Build, NEW u \in Build, NEW v \in Build, Onward(t, u), Onward(u, v)
  PROVE  Onward(t, v)
<1>1. v.kind = t.kind
  BY DEF Onward, Ahead
<1>2. PomOnward(t.pom, v.pom)
  BY PluginsType, PomOnwardTrans DEF Onward, Ahead
<1>3. TestsOnward(t, v)
  BY FileOnwardTrans DEF Onward, Ahead, TestsOnward
<1>4. GradleOnward(t, v)
  BY GradleOnwardTrans DEF Onward, Ahead
<1>5. PropertiesOnward(t, v)
  BY DEF Onward, PropertiesOnward
<1> QED
  BY <1>1, <1>2, <1>3, <1>4, <1>5 DEF Onward, Ahead

LEMMA SamePlugin ==
  ASSUME NEW p, NEW s
  PROVE  PluginOnward(p, p, s)
BY DEF PluginOnward

LEMMA SamePlugins ==
  ASSUME NEW m
  PROVE  PluginsOnward(m, m)
<1>1. \A i \in 1..Len(m) : PluginOnward(m[i], m[i], Spans(m, i))
  BY SamePlugin
<1> QED
  BY <1>1 DEF PluginsOnward

LEMMA SameDependencies ==
  ASSUME NEW p, NEW q, q.first = p.first, q.project = p.project, q.elsewhere = p.elsewhere
  PROVE  DependenciesOnward(p, q)
BY DEF DependenciesOnward

LEMMA SamePom ==
  ASSUME NEW p
  PROVE  PomOnward(p, p)
BY SamePlugins, SameDependencies DEF PomOnward

LEMMA SameTests ==
  ASSUME NEW t, NEW u, u.tests = t.tests
  PROVE  TestsOnward(t, u)
BY DEF TestsOnward, FileOnward

LEMMA SameGradle ==
  ASSUME NEW t, NEW u, u.wrapper = t.wrapper, u.groovy = t.groovy, u.kotlin = t.kotlin
  PROVE  GradleOnward(t, u)
BY DEF GradleOnward, ScriptOnward

LEMMA OnwardRefl ==
  ASSUME NEW t
  PROVE  Onward(t, t)
BY SamePom, SameTests, SameGradle DEF Onward, Ahead, PropertiesOnward

-----------------------------------------------------------------------------
(* What every recipe's result is.                                             *)

Sound(s, t) ==
  /\ s.tree \in Build /\ Onward(t, s.tree)
  /\ s.planned \in Nat /\ s.applied \in Nat
  /\ s.files = {} => s.tree = t /\ s.planned = 0 /\ s.applied = 0

(* The step takes from u no more than it announced on t.                      *)
Covered(s, r) == r.files \subseteq s.files /\ r.applied <= s.planned

PomOnly(t, u) ==
  /\ u.kind = t.kind /\ u.tests = t.tests /\ u.wrapper = t.wrapper
  /\ u.groovy = t.groovy /\ u.kotlin = t.kotlin /\ u.properties = t.properties

SameBlocks(p, q) == q.first = p.first /\ q.project = p.project /\ q.elsewhere = p.elsewhere

LEMMA UntouchedIs ==
  ASSUME NEW t \in Build
  PROVE  /\ Sound(Untouched(t), t) /\ Untouched(t).tree = t
         /\ Untouched(t).files = {} /\ Untouched(t).applied = 0 /\ Untouched(t).planned = 0
BY OnwardRefl DEF Untouched, Sound

LEMMA EditPomIs ==
  ASSUME NEW t \in Build, NEW q \in Pom
  PROVE  LET u == [t EXCEPT !.pom = q] IN u \in Build /\ u.pom = q /\ PomOnly(t, u)
BY DEF Build, PomOnly

LEMMA PomOnlyOnward ==
  ASSUME NEW t \in Build, NEW u \in Build, PomOnly(t, u), PomOnward(t.pom, u.pom)
  PROVE  Onward(t, u)
BY SameTests, SameGradle DEF Onward, Ahead, PropertiesOnward, PomOnly

LEMMA Counted ==
  ASSUME NEW n \in Nat, NEW S, S \subseteq 1..n
  PROVE  IsFiniteSet(S) /\ Cardinality(S) \in Nat /\ (Cardinality(S) = 0 <=> S = {})
<1>1. IsFiniteSet(1..n)
  BY FS_Interval
<1>2. IsFiniteSet(S)
  BY <1>1, FS_Subset
<1> QED
  BY <1>2, FS_CardinalityType, FS_EmptySet

LEMMA CountedIn ==
  ASSUME NEW n \in Nat, NEW S, NEW T, S \subseteq T, T \subseteq 1..n
  PROVE  Cardinality(S) <= Cardinality(T)
BY Counted, FS_Subset

-----------------------------------------------------------------------------
(* The edits of the plugins.                                                  *)

ChangedPlugins(t, new) == {i \in DOMAIN new : new[i] # t.pom.plugins[i]}

LEMMA EditPluginsIs ==
  ASSUME NEW t \in Build, NEW new \in [1..Len(t.pom.plugins) -> Plugin]
  PROVE  LET s == EditPlugins(t, new) IN
         /\ s.tree \in Build /\ PomOnly(t, s.tree)
         /\ s.tree.pom = [t.pom EXCEPT !.plugins = new]
         /\ s.files \subseteq {"pom"}
         /\ s.planned = 2 * Cardinality(ChangedPlugins(t, new)) /\ s.applied = s.planned
         /\ s.planned \in Nat
         /\ s.files = {} <=> ChangedPlugins(t, new) = {}
         /\ s.files = {} => s.tree = t /\ s.planned = 0
<1> DEFINE C == ChangedPlugins(t, new)
           n == Cardinality(C)
           s == EditPlugins(t, new)
<1>1. n \in Nat /\ (n = 0 <=> C = {})
  <2>1. C \subseteq 1..Len(t.pom.plugins) /\ Len(t.pom.plugins) \in Nat
    BY PluginsType DEF ChangedPlugins
  <2> QED
    BY <2>1, Counted
<1>2. s = IF n = 0 THEN Untouched(t)
          ELSE Edited([t EXCEPT !.pom.plugins = new], {"pom"}, 2 * n, 2 * n)
  BY DEF EditPlugins, ChangedPlugins
<1>3. CASE n = 0
  <2>1. \A i \in 1..Len(t.pom.plugins) : new[i] = t.pom.plugins[i]
    BY <1>1, <1>3 DEF ChangedPlugins
  <2>2. new = t.pom.plugins
    BY <2>1, PluginsType
  <2>3. t.pom = [t.pom EXCEPT !.plugins = new]
    BY <2>2, PluginsType DEF Pom
  <2>4. s = Untouched(t)
    BY <1>2, <1>3
  <2> HIDE DEF C, n, s
  <2> QED
    BY <1>1, <1>3, <2>3, <2>4 DEF Untouched, PomOnly, C, n, s
<1>4. CASE n # 0
  <2>1. new \in Seq(Plugin)
    BY PluginsType
  <2>2. [t.pom EXCEPT !.plugins = new] \in Pom
    BY <2>1, PluginsType DEF Pom
  <2>3. s = Edited([t EXCEPT !.pom = [t.pom EXCEPT !.plugins = new]], {"pom"}, 2 * n, 2 * n)
    BY <1>2, <1>4
  <2>4. /\ s.tree = [t EXCEPT !.pom = [t.pom EXCEPT !.plugins = new]]
        /\ s.files = {"pom"} /\ s.planned = 2 * n /\ s.applied = 2 * n
    BY <2>3 DEF Edited
  <2>5. s.tree \in Build /\ s.tree.pom = [t.pom EXCEPT !.plugins = new] /\ PomOnly(t, s.tree)
    BY <2>2, <2>4, EditPomIs
  <2>6. C # {} /\ s.planned \in Nat
    BY <1>1, <1>4, <2>4
  <2> HIDE DEF C, s, n
  <2> QED
    BY <2>4, <2>5, <2>6 DEF C, s, n
<1> QED
  BY <1>3, <1>4

LEMMA EditPluginsTree ==
  ASSUME NEW t \in Build, NEW new \in [1..Len(t.pom.plugins) -> Plugin]
  PROVE  LET u == EditPlugins(t, new).tree IN
         u \in Build /\ u.pom.plugins = new /\ u.pom.stale = t.pom.stale /\ SameBlocks(t.pom, u.pom)
<1> DEFINE u == EditPlugins(t, new).tree
<1>1. u \in Build /\ u.pom = [t.pom EXCEPT !.plugins = new]
  BY EditPluginsIs
<1> HIDE DEF u
<1> QED
  BY <1>1, PluginsType DEF Pom, SameBlocks, u

LEMMA EditPluginsCount ==
  ASSUME NEW t \in Build, NEW new \in [1..Len(t.pom.plugins) -> Plugin]
  PROVE  /\ EditPlugins(t, new).planned = 2 * Cardinality(ChangedPlugins(t, new))
         /\ EditPlugins(t, new).applied = EditPlugins(t, new).planned
         /\ EditPlugins(t, new).files \subseteq {"pom"}
         /\ EditPlugins(t, new).files = {} <=> ChangedPlugins(t, new) = {}
<1> DEFINE s == EditPlugins(t, new)
<1>1. /\ s.planned = 2 * Cardinality(ChangedPlugins(t, new)) /\ s.applied = s.planned
      /\ s.files \subseteq {"pom"} /\ (s.files = {} <=> ChangedPlugins(t, new) = {})
  BY EditPluginsIs
<1> QED
  BY <1>1

PluginStep(s, t) ==
  /\ Sound(s, t) /\ s.files \subseteq {"pom"}
  /\ PomOnly(t, s.tree) /\ SameBlocks(t.pom, s.tree.pom)

LEMMA EditPluginsSound ==
  ASSUME NEW t \in Build, NEW new \in [1..Len(t.pom.plugins) -> Plugin],
         \A i \in 1..Len(t.pom.plugins) :
           PluginOnward(t.pom.plugins[i], new[i], Spans(t.pom.plugins, i))
  PROVE  PluginStep(EditPlugins(t, new), t)
<1> DEFINE s == EditPlugins(t, new)
<1>1. /\ s.tree \in Build /\ PomOnly(t, s.tree) /\ s.files \subseteq {"pom"}
      /\ s.planned \in Nat /\ s.applied = s.planned
      /\ s.files = {} => s.tree = t /\ s.planned = 0
  BY EditPluginsIs
<1>0. /\ s.tree.pom.plugins = new /\ s.tree.pom.stale = t.pom.stale
      /\ SameBlocks(t.pom, s.tree.pom)
  BY EditPluginsTree
<1> HIDE DEF s
<1>2. Len(new) = Len(t.pom.plugins)
  BY PluginsType
<1>3. PluginsOnward(t.pom.plugins, new)
  BY <1>2 DEF PluginsOnward
<1>5. PomOnward(t.pom, s.tree.pom)
  BY <1>3, <1>0, SameDependencies DEF PomOnward, SameBlocks
<1>6. Onward(t, s.tree)
  BY <1>1, <1>5, PomOnlyOnward
<1> QED
  BY <1>1, <1>0, <1>6 DEF PluginStep, Sound, s

(* What a later tree still changes the earlier one would have changed.        *)
LEMMA EditPluginsCovered ==
  ASSUME NEW t \in Build, NEW u \in Build, PluginsOnward(t.pom.plugins, u.pom.plugins),
         NEW old \in [1..Len(t.pom.plugins) -> Plugin],
         NEW new \in [1..Len(u.pom.plugins) -> Plugin],
         \A i \in 1..Len(t.pom.plugins) :
           new[i] # u.pom.plugins[i] => old[i] # t.pom.plugins[i]
  PROVE  Covered(EditPlugins(t, old), EditPlugins(u, new))
<1> DEFINE C == ChangedPlugins(t, old)
           D == ChangedPlugins(u, new)
<1>1. Len(u.pom.plugins) = Len(t.pom.plugins) /\ Len(t.pom.plugins) \in Nat
  BY PluginsType DEF PluginsOnward
<1>2. D \subseteq C /\ C \subseteq 1..Len(t.pom.plugins)
  BY <1>1 DEF ChangedPlugins
<1>3. Cardinality(D) <= Cardinality(C) /\ Cardinality(D) \in Nat /\ Cardinality(C) \in Nat
  BY <1>1, <1>2, CountedIn, Counted
<1>4. /\ EditPlugins(t, old).planned = 2 * Cardinality(C)
      /\ EditPlugins(t, old).files \subseteq {"pom"}
      /\ EditPlugins(t, old).files = {} <=> C = {}
  BY EditPluginsCount
<1>5. /\ EditPlugins(u, new).applied = 2 * Cardinality(D)
      /\ EditPlugins(u, new).files \subseteq {"pom"}
      /\ EditPlugins(u, new).files = {} <=> D = {}
  BY EditPluginsCount
<1> HIDE DEF C, D
<1>6. EditPlugins(u, new).applied <= EditPlugins(t, old).planned
  BY <1>3, <1>4, <1>5
<1> QED
  BY <1>2, <1>4, <1>5, <1>6 DEF Covered

(* A recipe that rewrites plugins one by one finds nothing to do again.       *)
LEMMA EditPluginsAgain ==
  ASSUME NEW t \in Build, NEW new \in [1..Len(t.pom.plugins) -> Plugin],
         NEW again \in [1..Len(t.pom.plugins) -> Plugin],
         \A i \in 1..Len(t.pom.plugins) : again[i] = new[i]
  PROVE  EditPlugins(EditPlugins(t, new).tree, again).files = {}
<1> DEFINE u == EditPlugins(t, new).tree
<1>1. u \in Build /\ u.pom.plugins = new
  BY EditPluginsTree
<1> HIDE DEF u
<1>2. again \in [1..Len(u.pom.plugins) -> Plugin]
  BY <1>1, PluginsType
<1>3. ChangedPlugins(u, again) = {}
  BY <1>1 DEF ChangedPlugins
<1> QED
  BY <1>1, <1>2, <1>3, EditPluginsCount DEF u

LEMMA BumpIs ==
  ASSUME NEW t \in Build, NEW artifact \in {"compiler", "failsafe", "jar", "lombok"}
  PROVE  /\ PluginStep(Bump(t, artifact), t)
         /\ Bump(Bump(t, artifact).tree, artifact).files = {}
<1> DEFINE B(p) == IF p.artifact = artifact /\ Lower(Version(p)) THEN AtBase(p) ELSE p
           new == [i \in 1..Len(t.pom.plugins) |-> B(t.pom.plugins[i])]
           u == EditPlugins(t, new).tree
           again == [i \in 1..Len(t.pom.plugins) |-> B(new[i])]
<1>1. \A p \in Plugin : B(p) \in Plugin /\ B(B(p)) = B(p)
  BY AtBaseIs DEF Lower, Base
<1>2. \A p \in Plugin, s \in BOOLEAN : PluginOnward(p, B(p), s)
  BY AtBaseIs DEF PluginOnward, Rebased
<1>3. Bump(t, artifact) = EditPlugins(t, new)
  BY PluginsType DEF Bump
<1> HIDE DEF B
<1>4. new \in [1..Len(t.pom.plugins) -> Plugin] /\ again \in [1..Len(t.pom.plugins) -> Plugin]
  BY <1>1, PluginsType
<1>5. PluginStep(EditPlugins(t, new), t)
  <2>1. \A i \in 1..Len(t.pom.plugins) : Spans(t.pom.plugins, i) \in BOOLEAN
    BY DEF Spans
  <2>2. \A i \in 1..Len(t.pom.plugins) :
          PluginOnward(t.pom.plugins[i], new[i], Spans(t.pom.plugins, i))
    BY <1>2, <2>1, PluginsType
  <2> QED
    BY <1>4, <2>2, EditPluginsSound
<1>6. u \in Build /\ u.pom.plugins = new
  BY <1>4, EditPluginsTree
<1>7. Bump(u, artifact) = EditPlugins(u, again)
  <2> HIDE DEF u, new
  <2>1. /\ DOMAIN u.pom.plugins = 1..Len(t.pom.plugins)
        /\ \A i \in 1..Len(t.pom.plugins) : u.pom.plugins[i] = new[i]
    BY <1>4, <1>6
  <2>2. [i \in DOMAIN u.pom.plugins |-> B(u.pom.plugins[i])] = again
    BY <2>1
  <2>3. Bump(u, artifact)
          = EditPlugins(u, [i \in DOMAIN u.pom.plugins |-> B(u.pom.plugins[i])])
    BY Zenon DEF Bump, B
  <2> QED
    BY <2>2, <2>3
<1>8. \A i \in 1..Len(t.pom.plugins) : again[i] = new[i]
  BY <1>1, PluginsType
<1>9. EditPlugins(u, again).files = {}
  BY <1>4, <1>8, EditPluginsAgain
<1> QED
  BY <1>3, <1>5, <1>7, <1>9

LEMMA BumpCovered ==
  ASSUME NEW t \in Build, NEW u \in Build, PomOnward(t.pom, u.pom),
         NEW artifact \in {"compiler", "failsafe", "jar", "lombok"}
  PROVE  Covered(Bump(t, artifact), Bump(u, artifact))
<1> DEFINE B(p) == IF p.artifact = artifact /\ Lower(Version(p)) THEN AtBase(p) ELSE p
           old == [i \in 1..Len(t.pom.plugins) |-> B(t.pom.plugins[i])]
           new == [i \in 1..Len(u.pom.plugins) |-> B(u.pom.plugins[i])]
<1>1. Bump(t, artifact) = EditPlugins(t, old) /\ Bump(u, artifact) = EditPlugins(u, new)
  BY PluginsType DEF Bump
<1>2. \A p \in Plugin : B(p) \in Plugin /\ (B(p) # p <=> p.artifact = artifact /\ Lower(Version(p)))
  BY AtBaseIs DEF Lower, Base
<1>3. ASSUME NEW p \in Plugin, NEW q \in Plugin, NEW s, PluginOnward(p, q, s), B(q) # q
      PROVE  B(p) # p
  <2>1. q.artifact = artifact /\ Lower(Version(q))
    BY <1>2, <1>3
  <2>2. ~Rebased(p, q)
    BY <1>3, <2>1, VersionOnward DEF Lower, Base
  <2>3. p.artifact = q.artifact /\ Version(p) = Version(q)
    BY <1>3, <2>2, VersionOnward DEF PluginOnward
  <2> QED
    BY <1>2, <2>1, <2>3
<1> HIDE DEF B
<1>4. old \in [1..Len(t.pom.plugins) -> Plugin] /\ new \in [1..Len(u.pom.plugins) -> Plugin]
  BY <1>2, PluginsType
<1>5. PluginsOnward(t.pom.plugins, u.pom.plugins)
  BY DEF PomOnward
<1>6. \A i \in 1..Len(t.pom.plugins) : new[i] # u.pom.plugins[i] => old[i] # t.pom.plugins[i]
  BY <1>3, <1>5, PluginsType DEF PluginsOnward
<1> HIDE DEF old, new
<1> QED
  BY <1>1, <1>4, <1>5, <1>6, EditPluginsCovered

LEMMA SurefireSafeIs ==
  ASSUME NEW t \in Build
  PROVE  PluginStep(SurefireSafe(t), t) /\ SurefireSafe(SurefireSafe(t).tree).files = {}
<1> DEFINE B(p) == IF p.artifact = "surefire" /\ Version(p) \notin {NoVersion, Base}
                   THEN AtBase(p) ELSE p
           new == [i \in 1..Len(t.pom.plugins) |-> B(t.pom.plugins[i])]
           u == EditPlugins(t, new).tree
           again == [i \in 1..Len(t.pom.plugins) |-> B(new[i])]
<1>1. \A p \in Plugin : B(p) \in Plugin /\ B(B(p)) = B(p)
  BY AtBaseIs
<1>2. \A p \in Plugin, s \in BOOLEAN : PluginOnward(p, B(p), s)
  BY AtBaseIs DEF PluginOnward, Rebased
<1>3. SurefireSafe(t) = EditPlugins(t, new)
  BY PluginsType DEF SurefireSafe
<1> HIDE DEF B
<1>4. new \in [1..Len(t.pom.plugins) -> Plugin] /\ again \in [1..Len(t.pom.plugins) -> Plugin]
  BY <1>1, PluginsType
<1>5. PluginStep(EditPlugins(t, new), t)
  <2>1. \A i \in 1..Len(t.pom.plugins) : Spans(t.pom.plugins, i) \in BOOLEAN
    BY DEF Spans
  <2>2. \A i \in 1..Len(t.pom.plugins) :
          PluginOnward(t.pom.plugins[i], new[i], Spans(t.pom.plugins, i))
    BY <1>2, <2>1, PluginsType
  <2> QED
    BY <1>4, <2>2, EditPluginsSound
<1>6. u \in Build /\ u.pom.plugins = new
  BY <1>4, EditPluginsTree
<1>7. SurefireSafe(u) = EditPlugins(u, again)
  <2> HIDE DEF u, new
  <2>1. /\ DOMAIN u.pom.plugins = 1..Len(t.pom.plugins)
        /\ \A i \in 1..Len(t.pom.plugins) : u.pom.plugins[i] = new[i]
    BY <1>4, <1>6
  <2>2. [i \in DOMAIN u.pom.plugins |-> B(u.pom.plugins[i])] = again
    BY <2>1
  <2>3. SurefireSafe(u)
          = EditPlugins(u, [i \in DOMAIN u.pom.plugins |-> B(u.pom.plugins[i])])
    BY Zenon DEF SurefireSafe, B
  <2> QED
    BY <2>2, <2>3
<1>8. \A i \in 1..Len(t.pom.plugins) : again[i] = new[i]
  BY <1>1, PluginsType
<1>9. EditPlugins(u, again).files = {}
  BY <1>4, <1>8, EditPluginsAgain
<1> QED
  BY <1>3, <1>5, <1>7, <1>9

LEMMA SurefireSafeCovered ==
  ASSUME NEW t \in Build, NEW u \in Build, PomOnward(t.pom, u.pom)
  PROVE  Covered(SurefireSafe(t), SurefireSafe(u))
<1> DEFINE B(p) == IF p.artifact = "surefire" /\ Version(p) \notin {NoVersion, Base}
                   THEN AtBase(p) ELSE p
           old == [i \in 1..Len(t.pom.plugins) |-> B(t.pom.plugins[i])]
           new == [i \in 1..Len(u.pom.plugins) |-> B(u.pom.plugins[i])]
<1>1. SurefireSafe(t) = EditPlugins(t, old) /\ SurefireSafe(u) = EditPlugins(u, new)
  BY PluginsType DEF SurefireSafe
<1>2. \A p \in Plugin : B(p) \in Plugin /\ (B(p) # p <=> p.artifact = "surefire" /\ Version(p) \notin {NoVersion, Base})
  BY AtBaseIs
<1>3. ASSUME NEW p \in Plugin, NEW q \in Plugin, NEW s, PluginOnward(p, q, s), B(q) # q
      PROVE  B(p) # p
  <2>1. q.artifact = "surefire" /\ Version(q) \notin {NoVersion, Base}
    BY <1>2, <1>3
  <2>2. ~Rebased(p, q)
    BY <1>3, <2>1, VersionOnward
  <2>3. p.artifact = q.artifact /\ Version(p) = Version(q)
    BY <1>3, <2>2, VersionOnward DEF PluginOnward
  <2> QED
    BY <1>2, <2>1, <2>3
<1> HIDE DEF B
<1>4. old \in [1..Len(t.pom.plugins) -> Plugin] /\ new \in [1..Len(u.pom.plugins) -> Plugin]
  BY <1>2, PluginsType
<1>5. PluginsOnward(t.pom.plugins, u.pom.plugins)
  BY DEF PomOnward
<1>6. \A i \in 1..Len(t.pom.plugins) : new[i] # u.pom.plugins[i] => old[i] # t.pom.plugins[i]
  BY <1>3, <1>5, PluginsType DEF PluginsOnward
<1> HIDE DEF old, new
<1> QED
  BY <1>1, <1>4, <1>5, <1>6, EditPluginsCovered

LEMMA DelombokInPreparePackageIs ==
  ASSUME NEW t \in Build
  PROVE  PluginStep(DelombokInPreparePackage(t), t) /\ DelombokInPreparePackage(DelombokInPreparePackage(t).tree).files = {}
<1> DEFINE B(p) == IF p.artifact = "lombok" /\ p.goal = "early"
                   THEN [p EXCEPT !.goal = "late"] ELSE p
           new == [i \in 1..Len(t.pom.plugins) |-> B(t.pom.plugins[i])]
           u == EditPlugins(t, new).tree
           again == [i \in 1..Len(t.pom.plugins) |-> B(new[i])]
<1>1. \A p \in Plugin : B(p) \in Plugin /\ B(B(p)) = B(p)
  BY DEF Plugin
<1>2. \A p \in Plugin, s \in BOOLEAN : PluginOnward(p, B(p), s)
  BY DEF Plugin, PluginOnward
<1>3. DelombokInPreparePackage(t) = EditPlugins(t, new)
  BY PluginsType DEF DelombokInPreparePackage
<1> HIDE DEF B
<1>4. new \in [1..Len(t.pom.plugins) -> Plugin] /\ again \in [1..Len(t.pom.plugins) -> Plugin]
  BY <1>1, PluginsType
<1>5. PluginStep(EditPlugins(t, new), t)
  <2>1. \A i \in 1..Len(t.pom.plugins) : Spans(t.pom.plugins, i) \in BOOLEAN
    BY DEF Spans
  <2>2. \A i \in 1..Len(t.pom.plugins) :
          PluginOnward(t.pom.plugins[i], new[i], Spans(t.pom.plugins, i))
    BY <1>2, <2>1, PluginsType
  <2> QED
    BY <1>4, <2>2, EditPluginsSound
<1>6. u \in Build /\ u.pom.plugins = new
  BY <1>4, EditPluginsTree
<1>7. DelombokInPreparePackage(u) = EditPlugins(u, again)
  <2> HIDE DEF u, new
  <2>1. /\ DOMAIN u.pom.plugins = 1..Len(t.pom.plugins)
        /\ \A i \in 1..Len(t.pom.plugins) : u.pom.plugins[i] = new[i]
    BY <1>4, <1>6
  <2>2. [i \in DOMAIN u.pom.plugins |-> B(u.pom.plugins[i])] = again
    BY <2>1
  <2>3. DelombokInPreparePackage(u)
          = EditPlugins(u, [i \in DOMAIN u.pom.plugins |-> B(u.pom.plugins[i])])
    BY Zenon DEF DelombokInPreparePackage, B
  <2> QED
    BY <2>2, <2>3
<1>8. \A i \in 1..Len(t.pom.plugins) : again[i] = new[i]
  BY <1>1, PluginsType
<1>9. EditPlugins(u, again).files = {}
  BY <1>4, <1>8, EditPluginsAgain
<1> QED
  BY <1>3, <1>5, <1>7, <1>9

LEMMA DelombokInPreparePackageCovered ==
  ASSUME NEW t \in Build, NEW u \in Build, PomOnward(t.pom, u.pom)
  PROVE  Covered(DelombokInPreparePackage(t), DelombokInPreparePackage(u))
<1> DEFINE B(p) == IF p.artifact = "lombok" /\ p.goal = "early"
                   THEN [p EXCEPT !.goal = "late"] ELSE p
           old == [i \in 1..Len(t.pom.plugins) |-> B(t.pom.plugins[i])]
           new == [i \in 1..Len(u.pom.plugins) |-> B(u.pom.plugins[i])]
<1>1. DelombokInPreparePackage(t) = EditPlugins(t, old) /\ DelombokInPreparePackage(u) = EditPlugins(u, new)
  BY PluginsType DEF DelombokInPreparePackage
<1>2. \A p \in Plugin : B(p) \in Plugin /\ (B(p) # p <=> p.artifact = "lombok" /\ p.goal = "early")
  BY DEF Plugin
<1>3. ASSUME NEW p \in Plugin, NEW q \in Plugin, NEW s, PluginOnward(p, q, s), B(q) # q
      PROVE  B(p) # p
  BY <1>2, <1>3 DEF PluginOnward
<1> HIDE DEF B
<1>4. old \in [1..Len(t.pom.plugins) -> Plugin] /\ new \in [1..Len(u.pom.plugins) -> Plugin]
  BY <1>2, PluginsType
<1>5. PluginsOnward(t.pom.plugins, u.pom.plugins)
  BY DEF PomOnward
<1>6. \A i \in 1..Len(t.pom.plugins) : new[i] # u.pom.plugins[i] => old[i] # t.pom.plugins[i]
  BY <1>3, <1>5, PluginsType DEF PluginsOnward
<1> HIDE DEF old, new
<1> QED
  BY <1>1, <1>4, <1>5, <1>6, EditPluginsCovered

-----------------------------------------------------------------------------
(* The compiler plugin's tags.                                                *)

StaleAt(t, tag) ==
  {i \in DOMAIN t.pom.plugins : Spans(t.pom.plugins, i) /\ tag \in t.pom.plugins[i].stale}

StaleTags(t) ==
  Cardinality(t.pom.stale) + Cardinality(StaleAt(t, "source")) + Cardinality(StaleAt(t, "target"))

Fresh(t) ==
  [i \in DOMAIN t.pom.plugins |->
     IF Spans(t.pom.plugins, i) THEN [t.pom.plugins[i] EXCEPT !.stale = {}] ELSE t.pom.plugins[i]]

Freshened(t) == [t EXCEPT !.pom = [t.pom EXCEPT !.stale = {}, !.plugins = Fresh(t)]]

LEMMA CompilerTarget17Does ==
  ASSUME NEW t \in Build
  PROVE  CompilerTarget17(t) =
           IF StaleTags(t) = 0 THEN Untouched(t)
           ELSE Edited(Freshened(t), {"pom"}, 2 * StaleTags(t), 2 * StaleTags(t))
<1> DEFINE plugins == t.pom.plugins
           spanned == {i \in DOMAIN plugins : Spans(plugins, i)}
           new == [i \in DOMAIN plugins |->
                     IF i \in spanned THEN [plugins[i] EXCEPT !.stale = {}] ELSE plugins[i]]
           S(tag) == {i \in spanned : tag \in plugins[i].stale}
           n == Cardinality(t.pom.stale) + Cardinality(S("source")) + Cardinality(S("target"))
<1>1. new = Fresh(t)
  BY DEF Fresh
<1>2. S("source") = StaleAt(t, "source") /\ S("target") = StaleAt(t, "target")
  BY DEF StaleAt
<1>3. n = StaleTags(t)
  BY <1>2 DEF StaleTags
<1>4. CompilerTarget17(t) =
        IF n = 0 THEN Untouched(t)
        ELSE Edited([t EXCEPT !.pom.stale = {}, !.pom.plugins = new], {"pom"}, 2 * n, 2 * n)
  BY DEF CompilerTarget17
<1>5. [t EXCEPT !.pom.stale = {}, !.pom.plugins = new] = Freshened(t)
  <2> HIDE DEF new
  <2> QED
    BY <1>1, PluginsType DEF Freshened, Build, Pom
<1> HIDE DEF new, n
<1> QED
  BY <1>3, <1>4, <1>5

LEMMA TagsAreFinite == IsFiniteSet(Tags)
<1>1. IsFiniteSet({"source"})
  BY FS_Singleton
<1>2. IsFiniteSet({"source"} \cup {"target"})
  BY <1>1, FS_AddElement
<1>3. Tags = {"source"} \cup {"target"}
  BY DEF Tags
<1> QED
  BY <1>2, <1>3

LEMMA StaleTagsAre ==
  ASSUME NEW t \in Build
  PROVE  /\ StaleTags(t) \in Nat
         /\ Cardinality(t.pom.stale) \in Nat
         /\ Cardinality(StaleAt(t, "source")) \in Nat /\ Cardinality(StaleAt(t, "target")) \in Nat
         /\ StaleTags(t) = 0 <=>
              t.pom.stale = {} /\ StaleAt(t, "source") = {} /\ StaleAt(t, "target") = {}
<1>1. IsFiniteSet(Tags)
  BY TagsAreFinite
<1>2. t.pom.stale \subseteq Tags
  BY PluginsType DEF Pom
<1>3. /\ Cardinality(t.pom.stale) \in Nat
      /\ Cardinality(t.pom.stale) = 0 <=> t.pom.stale = {}
  BY <1>1, <1>2, FS_Subset, FS_CardinalityType, FS_EmptySet
<1>4. \A tag : StaleAt(t, tag) \subseteq 1..Len(t.pom.plugins)
  BY PluginsType DEF StaleAt
<1>5. \A tag : /\ Cardinality(StaleAt(t, tag)) \in Nat
               /\ Cardinality(StaleAt(t, tag)) = 0 <=> StaleAt(t, tag) = {}
  BY <1>4, PluginsType, Counted
<1>6. /\ Cardinality(StaleAt(t, "source")) \in Nat /\ Cardinality(StaleAt(t, "target")) \in Nat
      /\ Cardinality(StaleAt(t, "source")) = 0 <=> StaleAt(t, "source") = {}
  BY <1>5
<1>7. Cardinality(StaleAt(t, "target")) = 0 <=> StaleAt(t, "target") = {}
  BY <1>5
<1>8. \A i, j, k \in Nat : i + j + k \in Nat /\ (i + j + k = 0 <=> i = 0 /\ j = 0 /\ k = 0)
  OBVIOUS
<1> QED
  BY <1>3, <1>6, <1>7, <1>8 DEF StaleTags

LEMMA FreshIs ==
  ASSUME NEW t \in Build
  PROVE  /\ Fresh(t) \in Seq(Plugin) /\ Len(Fresh(t)) = Len(t.pom.plugins)
         /\ PluginsOnward(t.pom.plugins, Fresh(t))
<1>1. /\ Fresh(t) \in [1..Len(t.pom.plugins) -> Plugin]
      /\ \A i \in 1..Len(t.pom.plugins) :
           Fresh(t)[i] = IF Spans(t.pom.plugins, i) THEN [t.pom.plugins[i] EXCEPT !.stale = {}]
                         ELSE t.pom.plugins[i]
  BY SMTT(30), PluginsType DEF Fresh, Plugin
<1>2. Fresh(t) \in Seq(Plugin) /\ Len(Fresh(t)) = Len(t.pom.plugins)
  BY <1>1, PluginsType
<1>3. \A i \in 1..Len(t.pom.plugins) :
        PluginOnward(t.pom.plugins[i], Fresh(t)[i], Spans(t.pom.plugins, i))
  BY ZenonT(40), <1>1, PluginsType, PluginTypes DEF PluginOnward, Plugin
<1> QED
  BY <1>2, <1>3 DEF PluginsOnward

LEMMA FreshenedIs ==
  ASSUME NEW t \in Build
  PROVE  /\ Freshened(t) \in Build /\ PomOnly(t, Freshened(t))
         /\ Freshened(t).pom.stale = {} /\ Freshened(t).pom.plugins = Fresh(t)
         /\ SameBlocks(t.pom, Freshened(t).pom) /\ Onward(t, Freshened(t))
<1> DEFINE q == [t.pom EXCEPT !.stale = {}, !.plugins = Fresh(t)]
<1>1. q \in Pom /\ q.stale = {} /\ q.plugins = Fresh(t) /\ SameBlocks(t.pom, q)
  BY FreshIs, PluginsType DEF Pom, SameBlocks
<1>2. PomOnward(t.pom, q)
  BY <1>1, FreshIs, SameDependencies DEF PomOnward, SameBlocks
<1> HIDE DEF q
<1>3. Freshened(t) \in Build /\ Freshened(t).pom = q /\ PomOnly(t, Freshened(t))
  BY <1>1, EditPomIs DEF Freshened, q
<1>4. Onward(t, Freshened(t))
  BY <1>2, <1>3, PomOnlyOnward
<1> QED
  BY <1>1, <1>3, <1>4

LEMMA CompilerTarget17Is ==
  ASSUME NEW t \in Build
  PROVE  PluginStep(CompilerTarget17(t), t) /\ CompilerTarget17(CompilerTarget17(t).tree).files = {}
<1> DEFINE s == CompilerTarget17(t)
           u == Freshened(t)
<1>1. CASE StaleTags(t) = 0
  <2>1. s = Untouched(t)
    BY <1>1, CompilerTarget17Does
  <2>2. s.tree = t /\ s.files = {} /\ Sound(s, t)
    BY <2>1, UntouchedIs
  <2> HIDE DEF s
  <2> QED
    BY <2>2 DEF PluginStep, PomOnly, SameBlocks, s
<1>2. CASE StaleTags(t) # 0
  <2>1. s = Edited(u, {"pom"}, 2 * StaleTags(t), 2 * StaleTags(t))
    BY <1>2, CompilerTarget17Does
  <2>2. /\ s.tree = u /\ s.files = {"pom"}
        /\ s.planned = 2 * StaleTags(t) /\ s.applied = 2 * StaleTags(t)
    BY <2>1 DEF Edited
  <2>3. u \in Build /\ PomOnly(t, u) /\ SameBlocks(t.pom, u.pom) /\ Onward(t, u)
    BY FreshenedIs
  <2>4. PluginStep(s, t)
    BY <2>2, <2>3, StaleTagsAre DEF PluginStep, Sound
  <2>5. \A i \in 1..Len(u.pom.plugins) :
          Spans(u.pom.plugins, i) => u.pom.plugins[i].stale = {}
    <3>1. PluginsOnward(t.pom.plugins, Fresh(t)) /\ u.pom.plugins = Fresh(t)
      BY FreshIs, FreshenedIs
    <3>2. \A i \in 1..Len(t.pom.plugins) : Spans(Fresh(t), i) <=> Spans(t.pom.plugins, i)
      BY <3>1, PluginsType, SpansSame DEF PluginsOnward, PluginOnward
    <3>3. \A i \in 1..Len(t.pom.plugins) :
            Spans(t.pom.plugins, i) => Fresh(t)[i].stale = {}
      BY PluginsType DEF Fresh, Plugin
    <3> QED
      BY <3>1, <3>2, <3>3 DEF PluginsOnward
  <2>6. u.pom.stale = {} /\ StaleAt(u, "source") = {} /\ StaleAt(u, "target") = {}
    BY <2>3, <2>5, FreshenedIs, PluginsType DEF StaleAt
  <2>7. StaleTags(u) = 0
    BY <2>3, <2>6, StaleTagsAre
  <2>8. CompilerTarget17(u) = Untouched(u)
    BY <2>3, <2>7, CompilerTarget17Does
  <2> QED
    BY <2>2, <2>3, <2>4, <2>8, UntouchedIs
<1> QED
  BY <1>1, <1>2

LEMMA CompilerTarget17Covered ==
  ASSUME NEW t \in Build, NEW u \in Build, PomOnward(t.pom, u.pom)
  PROVE  Covered(CompilerTarget17(t), CompilerTarget17(u))
<1>1. Len(u.pom.plugins) = Len(t.pom.plugins) /\ Len(t.pom.plugins) \in Nat
  BY PluginsType DEF PomOnward, PluginsOnward
<1>2. \A i \in 1..Len(t.pom.plugins) : Spans(u.pom.plugins, i) <=> Spans(t.pom.plugins, i)
  <2>1. \A i \in 1..Len(t.pom.plugins) : u.pom.plugins[i].artifact = t.pom.plugins[i].artifact
    BY DEF PomOnward, PluginsOnward, PluginOnward
  <2> QED
    BY <1>1, <2>1, SpansSame
<1>3. \A tag : StaleAt(u, tag) \subseteq StaleAt(t, tag)
  <2>1. \A i \in 1..Len(t.pom.plugins) : u.pom.plugins[i].stale \subseteq t.pom.plugins[i].stale
    BY DEF PomOnward, PluginsOnward, PluginOnward
  <2> QED
    BY <1>1, <1>2, <2>1, PluginsType DEF StaleAt
<1>4. StaleAt(t, "source") \subseteq 1..Len(t.pom.plugins)
      /\ StaleAt(t, "target") \subseteq 1..Len(t.pom.plugins)
  BY PluginsType DEF StaleAt
<1>5. /\ Cardinality(StaleAt(u, "source")) <= Cardinality(StaleAt(t, "source"))
      /\ Cardinality(StaleAt(u, "target")) <= Cardinality(StaleAt(t, "target"))
  BY <1>1, <1>3, <1>4, CountedIn
<1>6. Cardinality(u.pom.stale) <= Cardinality(t.pom.stale)
  <2>1. IsFiniteSet(Tags)
    BY TagsAreFinite
  <2>2. t.pom.stale \subseteq Tags /\ u.pom.stale \subseteq t.pom.stale
    BY PluginsType DEF Pom, PomOnward
  <2> QED
    BY <2>1, <2>2, FS_Subset
<1>7. StaleTags(u) <= StaleTags(t) /\ StaleTags(t) \in Nat /\ StaleTags(u) \in Nat
  BY <1>5, <1>6, StaleTagsAre DEF StaleTags
<1>8. /\ CompilerTarget17(t).planned = 2 * StaleTags(t)
      /\ CompilerTarget17(t).files = IF StaleTags(t) = 0 THEN {} ELSE {"pom"}
  BY SMTT(30), CompilerTarget17Does DEF Untouched, Edited
<1>9. /\ CompilerTarget17(u).applied = 2 * StaleTags(u)
      /\ CompilerTarget17(u).files = IF StaleTags(u) = 0 THEN {} ELSE {"pom"}
  BY CompilerTarget17Does DEF Untouched, Edited
<1> QED
  BY <1>7, <1>8, <1>9 DEF Covered

-----------------------------------------------------------------------------
(* A dependency of the pom.                                                   *)

Present(p, dependency) == dependency \in p.project \cup p.elsewhere \/ p.first = "none"

DependencyStep(s, t) ==
  /\ Sound(s, t) /\ s.files \subseteq {"pom"}
  /\ PomOnly(t, s.tree)
  /\ s.tree.pom.plugins = t.pom.plugins /\ s.tree.pom.stale = t.pom.stale

LEMMA EnsureIs ==
  ASSUME NEW t \in Build, NEW d \in {"junit4", "nashorn"}
  PROVE  /\ DependencyStep(Ensure(t, d), t)
         /\ Ensure(t, d).files = {} <=> Present(t.pom, d)
         /\ Ensure(t, d).planned = (IF Present(t.pom, d) THEN 0 ELSE 12)
         /\ Ensure(t, d).applied = (IF Present(t.pom, d) THEN 0 ELSE 6)
         /\ Present(Ensure(t, d).tree.pom, d)
         /\ t.pom.first = "project" =>
              Ensure(t, d).tree.pom.elsewhere = t.pom.elsewhere
<1> DEFINE s == Ensure(t, d)
<1>1. CASE Present(t.pom, d)
  <2>1. s = Untouched(t)
    BY <1>1 DEF Ensure, Present
  <2>2. s.tree = t /\ s.files = {} /\ s.planned = 0 /\ s.applied = 0 /\ Sound(s, t)
    BY <2>1, UntouchedIs
  <2> HIDE DEF s
  <2> QED
    BY <1>1, <2>2 DEF DependencyStep, PomOnly, s
<1>2. CASE ~Present(t.pom, d)
  <2> DEFINE q == IF t.pom.first = "project" THEN [t.pom EXCEPT !.project = @ \cup {d}]
                  ELSE [t.pom EXCEPT !.elsewhere = @ \cup {d}]
             u == [t EXCEPT !.pom = q]
  <2>1. /\ q \in Pom /\ q.plugins = t.pom.plugins /\ q.stale = t.pom.stale
        /\ q.first = t.pom.first /\ Present(q, d)
        /\ DependenciesOnward(t.pom, q)
        /\ t.pom.first = "project" => q.elsewhere = t.pom.elsewhere
    BY <1>2, PluginsType DEF Pom, Present, Dependencies, DependenciesOnward
  <2>2. s = Edited(u, {"pom"}, 12, 6)
    BY <1>2, PluginsType DEF Ensure, Present, Build, Pom
  <2> HIDE DEF q
  <2>3. u \in Build /\ u.pom = q /\ PomOnly(t, u)
    BY <2>1, EditPomIs
  <2> HIDE DEF u
  <2>4. PomOnward(t.pom, q)
    BY <2>1, SamePlugins DEF PomOnward
  <2>5. Onward(t, u)
    BY <2>3, <2>4, PomOnlyOnward
  <2>6. s.tree = u /\ s.files = {"pom"} /\ s.planned = 12 /\ s.applied = 6
    BY <2>2 DEF Edited
  <2> HIDE DEF s
  <2> QED
    BY <1>2, <2>1, <2>3, <2>5, <2>6 DEF DependencyStep, Sound, s
<1> QED
  BY <1>1, <1>2

LEMMA EnsureCovered ==
  ASSUME NEW t \in Build, NEW u \in Build, DependenciesOnward(t.pom, u.pom),
         NEW d \in {"junit4", "nashorn"}
  PROVE  Covered(Ensure(t, d), Ensure(u, d))
<1>1. Present(t.pom, d) => Present(u.pom, d)
  BY DEF Present, DependenciesOnward
<1>2. Ensure(t, d).files = {} <=> Present(t.pom, d)
  BY EnsureIs
<1>3. Ensure(u, d).files = {} <=> Present(u.pom, d)
  BY EnsureIs
<1>4. Ensure(t, d).files \subseteq {"pom"} /\ Ensure(u, d).files \subseteq {"pom"}
  BY EnsureIs DEF DependencyStep
<1>5. Ensure(t, d).planned = (IF Present(t.pom, d) THEN 0 ELSE 12)
  BY EnsureIs
<1>6. Ensure(u, d).applied = (IF Present(u.pom, d) THEN 0 ELSE 6)
  BY EnsureIs
<1> QED
  BY <1>1, <1>2, <1>3, <1>4, <1>5, <1>6 DEF Covered

-----------------------------------------------------------------------------
(* The edits of the test sources.                                             *)

ChangedTests(t, new) == {f \in {"A", "B"} : new[f] # t.tests[f]}

TestsOnly(t, u) ==
  /\ u.kind = t.kind /\ u.pom = t.pom /\ u.wrapper = t.wrapper
  /\ u.groovy = t.groovy /\ u.kotlin = t.kotlin /\ u.properties = t.properties

TestStep(s, t) == Sound(s, t) /\ s.files \subseteq {"A", "B"} /\ TestsOnly(t, s.tree)

LEMMA SomeTests ==
  ASSUME NEW S, S \subseteq {"A", "B"}
  PROVE  IsFiniteSet(S) /\ Cardinality(S) \in Nat /\ (Cardinality(S) = 0 <=> S = {})
<1>1. IsFiniteSet({"A"})
  BY FS_Singleton
<1>2. IsFiniteSet({"A"} \cup {"B"})
  BY <1>1, FS_AddElement
<1>3. {"A", "B"} = {"A"} \cup {"B"}
  OBVIOUS
<1>4. IsFiniteSet(S)
  BY <1>2, <1>3, FS_Subset
<1> QED
  BY <1>4, FS_CardinalityType, FS_EmptySet

LEMMA FewerTests ==
  ASSUME NEW S, NEW T, T \subseteq {"A", "B"}, S \subseteq T
  PROVE  Cardinality(S) <= Cardinality(T)
BY SomeTests, FS_Subset

LEMMA EditTestsIs ==
  ASSUME NEW t \in Build, NEW new \in [{"A", "B"} -> TestFile], NEW lines \in {2, 4}
  PROVE  LET s == EditTests(t, new, lines) IN
         /\ s.tree \in Build /\ TestsOnly(t, s.tree) /\ s.tree.tests = new
         /\ s.files = ChangedTests(t, new)
         /\ s.planned = lines * Cardinality(ChangedTests(t, new)) /\ s.applied = s.planned
         /\ s.planned \in Nat
         /\ s.files = {} => s.tree = t /\ s.planned = 0
<1> DEFINE C == ChangedTests(t, new)
           n == lines * Cardinality(C)
           s == EditTests(t, new, lines)
<1>1. Cardinality(C) \in Nat /\ (Cardinality(C) = 0 <=> C = {})
  BY SomeTests DEF ChangedTests
<1>2. s = Edited([t EXCEPT !.tests = new], C, n, n)
  BY DEF EditTests, ChangedTests
<1>3. /\ s.tree = [t EXCEPT !.tests = new] /\ s.files = C /\ s.planned = n /\ s.applied = n
  BY <1>2 DEF Edited
<1>4. s.tree \in Build /\ TestsOnly(t, s.tree) /\ s.tree.tests = new
  BY <1>3 DEF Build, TestsOnly
<1>5. C = {} => new = t.tests
  BY TestsType DEF ChangedTests
<1>6. C = {} => s.tree = t
  BY <1>3, <1>5 DEF Build
<1>7. n \in Nat /\ (C = {} => n = 0)
  BY <1>1
<1> HIDE DEF C, n, s
<1> QED
  BY <1>3, <1>4, <1>6, <1>7 DEF C, n, s

LEMMA EditTestsTree ==
  ASSUME NEW t \in Build, NEW new \in [{"A", "B"} -> TestFile], NEW lines \in {2, 4}
  PROVE  /\ EditTests(t, new, lines).tree \in Build
         /\ EditTests(t, new, lines).tree.tests = new
         /\ EditTests(t, new, lines).files = ChangedTests(t, new)
<1> DEFINE s == EditTests(t, new, lines)
<1>1. s.tree \in Build /\ s.tree.tests = new /\ s.files = ChangedTests(t, new)
  BY EditTestsIs
<1> QED
  BY <1>1

LEMMA EditTestsSound ==
  ASSUME NEW t \in Build, NEW new \in [{"A", "B"} -> TestFile], NEW lines \in {2, 4},
         \A f \in {"A", "B"} : FileOnward(t.tests[f], new[f])
  PROVE  TestStep(EditTests(t, new, lines), t)
<1> DEFINE s == EditTests(t, new, lines)
<1>1. /\ s.tree \in Build /\ TestsOnly(t, s.tree) /\ s.tree.tests = new
      /\ s.files = ChangedTests(t, new) /\ s.applied = s.planned /\ s.planned \in Nat
      /\ s.files = {} => s.tree = t /\ s.planned = 0
  BY EditTestsIs
<1> HIDE DEF s
<1>2. TestsOnward(t, s.tree)
  BY <1>1 DEF TestsOnward
<1>3. PomOnward(t.pom, s.tree.pom) /\ GradleOnward(t, s.tree)
  BY <1>1, SamePom, SameGradle DEF TestsOnly
<1>4. Onward(t, s.tree)
  BY <1>1, <1>2, <1>3 DEF Onward, Ahead, PropertiesOnward, TestsOnly
<1>5. s.files \subseteq {"A", "B"}
  BY <1>1 DEF ChangedTests
<1> QED
  BY <1>1, <1>4, <1>5 DEF TestStep, Sound, s

LEMMA EditTestsCovered ==
  ASSUME NEW t \in Build, NEW u \in Build, NEW old \in [{"A", "B"} -> TestFile],
         NEW new \in [{"A", "B"} -> TestFile], NEW lines \in {2, 4},
         \A f \in {"A", "B"} : new[f] # u.tests[f] => old[f] # t.tests[f]
  PROVE  Covered(EditTests(t, old, lines), EditTests(u, new, lines))
<1> DEFINE C == ChangedTests(t, old)
           D == ChangedTests(u, new)
<1>1. D \subseteq C /\ C \subseteq {"A", "B"}
  BY DEF ChangedTests
<1>2. Cardinality(D) <= Cardinality(C) /\ Cardinality(D) \in Nat /\ Cardinality(C) \in Nat
  BY <1>1, FewerTests, SomeTests
<1>3. EditTests(t, old, lines).planned = lines * Cardinality(C) /\ EditTests(t, old, lines).files = C
  BY EditTestsIs
<1>4. EditTests(u, new, lines).applied = lines * Cardinality(D) /\ EditTests(u, new, lines).files = D
  BY EditTestsIs
<1> HIDE DEF C, D
<1>5. EditTests(u, new, lines).applied <= EditTests(t, old, lines).planned
  BY <1>2, <1>3, <1>4
<1> QED
  BY <1>1, <1>3, <1>4, <1>5 DEF Covered

LEMMA EditTestsAgain ==
  ASSUME NEW t \in Build, NEW new \in [{"A", "B"} -> TestFile],
         NEW again \in [{"A", "B"} -> TestFile], NEW lines \in {2, 4},
         \A f \in {"A", "B"} : again[f] = new[f]
  PROVE  EditTests(EditTests(t, new, lines).tree, again, lines).files = {}
<1> DEFINE u == EditTests(t, new, lines).tree
<1>1. u \in Build /\ u.tests = new
  BY EditTestsIs
<1> HIDE DEF u
<1>2. ChangedTests(u, again) = {}
  BY <1>1 DEF ChangedTests
<1> QED
  BY <1>1, <1>2, EditTestsIs DEF u

-----------------------------------------------------------------------------
(* The recipes on the test sources.                                           *)

LEMMA NashornIgnoreImportRewriteIs ==
  ASSUME NEW t \in Build
  PROVE  /\ TestStep(NashornIgnoreImportRewrite(t), t)
         /\ \A f \in {"A", "B"} :
              NashornIgnoreImportRewrite(t).tree.tests[f] = Importing(t.tests[f], {"jdk"}, "junit4")
         /\ NashornIgnoreImportRewrite(t).files = {f \in {"A", "B"} : "jdk" \in t.tests[f].imports}
         /\ NashornIgnoreImportRewrite(NashornIgnoreImportRewrite(t).tree).files = {}
         /\ NoNew(t, NashornIgnoreImportRewrite(t).tree)
<1> DEFINE B(file) == Importing(file, {"jdk"}, "junit4")
           new == [f \in {"A", "B"} |-> B(t.tests[f])]
           u == EditTests(t, new, 2).tree
           again == [f \in {"A", "B"} |-> B(new[f])]
<1>1. \A file \in TestFile :
        /\ B(file) \in TestFile /\ B(B(file)) = B(file) /\ FileOnward(file, B(file))
        /\ B(file) # file <=> "jdk" \in file.imports
  BY DEF TestFile, Imports, Importing, FileOnward, MentionsNashorn, UsesJdk, KnownImport
<1>2. NashornIgnoreImportRewrite(t) = EditTests(t, new, 2)
  BY TestsType DEF NashornIgnoreImportRewrite
<1>3. \A f \in {"A", "B"} : new[f] = Importing(t.tests[f], {"jdk"}, "junit4")
  OBVIOUS
<1>10. \A file \in TestFile : MentionsNashorn(B(file)) => MentionsNashorn(file)
  BY DEF TestFile, Imports, Importing, MentionsNashorn
<1> HIDE DEF B
<1>4. new \in [{"A", "B"} -> TestFile] /\ again \in [{"A", "B"} -> TestFile]
  BY <1>1, TestsType
<1>5. TestStep(EditTests(t, new, 2), t)
  BY <1>1, <1>4, TestsType, EditTestsSound
<1>6. u \in Build /\ u.tests = new /\ EditTests(t, new, 2).files = ChangedTests(t, new)
  BY <1>4, EditTestsTree
<1>7. NashornIgnoreImportRewrite(u) = EditTests(u, again, 2)
  <2> HIDE DEF u, new
  <2> QED
    BY <1>4, <1>6, TestsType DEF NashornIgnoreImportRewrite, B
<1>8. EditTests(u, again, 2).files = {}
  BY <1>1, <1>4, TestsType, EditTestsAgain
<1>9. ChangedTests(t, new) = {f \in {"A", "B"} : "jdk" \in t.tests[f].imports}
  BY <1>1, TestsType DEF ChangedTests
<1>11. NoNew(t, u)
  BY <1>6, <1>10, TestsType DEF NoNew
<1> HIDE DEF new, again, u
<1> QED
  BY <1>2, <1>3, <1>5, <1>6, <1>7, <1>8, <1>9, <1>11 DEF u

LEMMA NashornIgnoreImportRewriteCovered ==
  ASSUME NEW t \in Build, NEW u \in Build, TestsOnward(t, u)
  PROVE  Covered(NashornIgnoreImportRewrite(t), NashornIgnoreImportRewrite(u))
<1> DEFINE B(file) == Importing(file, {"jdk"}, "junit4")
           old == [f \in {"A", "B"} |-> B(t.tests[f])]
           new == [f \in {"A", "B"} |-> B(u.tests[f])]
<1>1. \A file \in TestFile :
        B(file) \in TestFile /\ (B(file) # file <=> "jdk" \in file.imports)
  BY DEF TestFile, Imports, Importing, UsesJdk, KnownImport
<1>2. /\ NashornIgnoreImportRewrite(t) = EditTests(t, old, 2)
      /\ NashornIgnoreImportRewrite(u) = EditTests(u, new, 2)
  BY TestsType DEF NashornIgnoreImportRewrite
<1> HIDE DEF B
<1>3. old \in [{"A", "B"} -> TestFile] /\ new \in [{"A", "B"} -> TestFile]
  BY <1>1, TestsType
<1>4. \A f \in {"A", "B"} : new[f] # u.tests[f] => old[f] # t.tests[f]
  BY <1>1, TestsType DEF TestsOnward, FileOnward, UsesJdk
<1> HIDE DEF old, new
<1> QED
  BY <1>2, <1>3, <1>4, EditTestsCovered

LEMMA NashornNamespaceRewriteIs ==
  ASSUME NEW t \in Build
  PROVE  /\ TestStep(NashornNamespaceRewrite(t), t)
         /\ \A f \in {"A", "B"} :
              NashornNamespaceRewrite(t).tree.tests[f] = [Importing(t.tests[f], {"jdk"}, "openjdk") EXCEPT
                                   !.mentions = IF @ = "jdk" THEN "openjdk" ELSE @]
         /\ NashornNamespaceRewrite(t).files = {f \in {"A", "B"} : UsesJdk(t.tests[f])}
         /\ NashornNamespaceRewrite(NashornNamespaceRewrite(t).tree).files = {}
<1> DEFINE B(file) == [Importing(file, {"jdk"}, "openjdk") EXCEPT
                         !.mentions = IF @ = "jdk" THEN "openjdk" ELSE @]
           new == [f \in {"A", "B"} |-> B(t.tests[f])]
           u == EditTests(t, new, 2).tree
           again == [f \in {"A", "B"} |-> B(new[f])]
<1>1. \A file \in TestFile :
        /\ B(file) \in TestFile /\ B(B(file)) = B(file) /\ FileOnward(file, B(file))
        /\ B(file) # file <=> UsesJdk(file)
  <2> SUFFICES ASSUME NEW file \in TestFile
               PROVE  /\ B(file) \in TestFile /\ B(B(file)) = B(file) /\ FileOnward(file, B(file))
                      /\ B(file) # file <=> UsesJdk(file)
    OBVIOUS
  <2>1. /\ B(file) \in TestFile /\ B(file).annotation = file.annotation
        /\ B(file).imports = IF "jdk" \in file.imports
                              THEN (file.imports \ {"jdk"}) \cup {"openjdk"} ELSE file.imports
        /\ B(file).mentions = IF file.mentions = "jdk" THEN "openjdk" ELSE file.mentions
    BY DEF TestFile, Imports, Importing
  <2>2. B(file) # file <=> UsesJdk(file)
    <3>1. CASE UsesJdk(file)
      <4> HIDE DEF B
      <4>1. B(file) = file => B(file).imports = file.imports /\ B(file).mentions = file.mentions
        OBVIOUS
      <4> QED
        BY <2>1, <3>1, <4>1 DEF UsesJdk
    <3>2. CASE ~UsesJdk(file)
      BY <3>2 DEF UsesJdk, Importing, TestFile
    <3> QED
      BY <3>1, <3>2
  <2>3. B(B(file)) = B(file)
    <3>1. ~UsesJdk(B(file))
      BY <2>1 DEF UsesJdk
    <3> HIDE DEF B
    <3>2. \A g \in TestFile : ~UsesJdk(g) => B(g) = g
      BY DEF B, UsesJdk, Importing, TestFile
    <3> QED
      BY <2>1, <3>1, <3>2
  <2> HIDE DEF B
  <2>4. FileOnward(file, B(file))
    BY <2>1 DEF FileOnward, MentionsNashorn, UsesJdk, KnownImport
  <2> QED
    BY <2>1, <2>2, <2>3, <2>4
<1>2. NashornNamespaceRewrite(t) = EditTests(t, new, 2)
  BY TestsType DEF NashornNamespaceRewrite
<1>3. \A f \in {"A", "B"} : new[f] = [Importing(t.tests[f], {"jdk"}, "openjdk") EXCEPT
                                   !.mentions = IF @ = "jdk" THEN "openjdk" ELSE @]
  OBVIOUS
<1> HIDE DEF B
<1>4. new \in [{"A", "B"} -> TestFile] /\ again \in [{"A", "B"} -> TestFile]
  BY <1>1, TestsType
<1>5. TestStep(EditTests(t, new, 2), t)
  BY <1>1, <1>4, TestsType, EditTestsSound
<1>6. u \in Build /\ u.tests = new /\ EditTests(t, new, 2).files = ChangedTests(t, new)
  BY <1>4, EditTestsTree
<1>7. NashornNamespaceRewrite(u) = EditTests(u, again, 2)
  <2> HIDE DEF u, new
  <2> QED
    BY <1>4, <1>6, TestsType DEF NashornNamespaceRewrite, B
<1>8. EditTests(u, again, 2).files = {}
  BY <1>1, <1>4, TestsType, EditTestsAgain
<1>9. ChangedTests(t, new) = {f \in {"A", "B"} : UsesJdk(t.tests[f])}
  BY <1>1, TestsType DEF ChangedTests
<1> HIDE DEF new, again, u
<1> QED
  BY <1>2, <1>3, <1>5, <1>6, <1>7, <1>8, <1>9 DEF u

LEMMA NashornNamespaceRewriteCovered ==
  ASSUME NEW t \in Build, NEW u \in Build, TestsOnward(t, u)
  PROVE  Covered(NashornNamespaceRewrite(t), NashornNamespaceRewrite(u))
<1> DEFINE B(file) == [Importing(file, {"jdk"}, "openjdk") EXCEPT
                         !.mentions = IF @ = "jdk" THEN "openjdk" ELSE @]
           old == [f \in {"A", "B"} |-> B(t.tests[f])]
           new == [f \in {"A", "B"} |-> B(u.tests[f])]
<1>1. \A file \in TestFile :
        B(file) \in TestFile /\ (B(file) # file <=> UsesJdk(file))
  BY DEF TestFile, Imports, Importing, UsesJdk, KnownImport
<1>2. /\ NashornNamespaceRewrite(t) = EditTests(t, old, 2)
      /\ NashornNamespaceRewrite(u) = EditTests(u, new, 2)
  BY TestsType DEF NashornNamespaceRewrite
<1> HIDE DEF B
<1>3. old \in [{"A", "B"} -> TestFile] /\ new \in [{"A", "B"} -> TestFile]
  BY <1>1, TestsType
<1>4. \A f \in {"A", "B"} : new[f] # u.tests[f] => old[f] # t.tests[f]
  BY <1>1, TestsType DEF TestsOnward, FileOnward, UsesJdk
<1> HIDE DEF old, new
<1> QED
  BY <1>2, <1>3, <1>4, EditTestsCovered

LEMMA NormalizeIgnoreImportsIs ==
  ASSUME NEW t \in Build
  PROVE  /\ TestStep(NormalizeIgnoreImports(t), t)
         /\ \A f \in {"A", "B"} :
              NormalizeIgnoreImports(t).tree.tests[f] = IF t.tests[f].annotation # "Ignore" THEN t.tests[f]
                                ELSE Importing(t.tests[f], {"jdk", "openjdk"}, "junit4")
         /\ NormalizeIgnoreImports(t).files = {f \in {"A", "B"} : t.tests[f].annotation = "Ignore" /\ KnownImport(t.tests[f])}
         /\ NormalizeIgnoreImports(NormalizeIgnoreImports(t).tree).files = {}
         /\ NoNew(t, NormalizeIgnoreImports(t).tree)
<1> DEFINE B(file) == IF file.annotation # "Ignore" THEN file
                      ELSE Importing(file, {"jdk", "openjdk"}, "junit4")
           new == [f \in {"A", "B"} |-> B(t.tests[f])]
           u == EditTests(t, new, 2).tree
           again == [f \in {"A", "B"} |-> B(new[f])]
<1>1. \A file \in TestFile :
        /\ B(file) \in TestFile /\ B(B(file)) = B(file) /\ FileOnward(file, B(file))
        /\ B(file) # file <=> file.annotation = "Ignore" /\ KnownImport(file)
  BY DEF TestFile, Imports, Importing, FileOnward, MentionsNashorn, UsesJdk, KnownImport
<1>2. NormalizeIgnoreImports(t) = EditTests(t, new, 2)
  BY TestsType DEF NormalizeIgnoreImports
<1>3. \A f \in {"A", "B"} : new[f] = IF t.tests[f].annotation # "Ignore" THEN t.tests[f]
                                ELSE Importing(t.tests[f], {"jdk", "openjdk"}, "junit4")
  OBVIOUS
<1>10. \A file \in TestFile : MentionsNashorn(B(file)) => MentionsNashorn(file)
  BY DEF TestFile, Imports, Importing, MentionsNashorn
<1> HIDE DEF B
<1>4. new \in [{"A", "B"} -> TestFile] /\ again \in [{"A", "B"} -> TestFile]
  BY <1>1, TestsType
<1>5. TestStep(EditTests(t, new, 2), t)
  BY <1>1, <1>4, TestsType, EditTestsSound
<1>6. u \in Build /\ u.tests = new /\ EditTests(t, new, 2).files = ChangedTests(t, new)
  BY <1>4, EditTestsTree
<1>7. NormalizeIgnoreImports(u) = EditTests(u, again, 2)
  <2> HIDE DEF u, new
  <2> QED
    BY <1>4, <1>6, TestsType DEF NormalizeIgnoreImports, B
<1>8. EditTests(u, again, 2).files = {}
  BY <1>1, <1>4, TestsType, EditTestsAgain
<1>9. ChangedTests(t, new) = {f \in {"A", "B"} : t.tests[f].annotation = "Ignore" /\ KnownImport(t.tests[f])}
  BY <1>1, TestsType DEF ChangedTests
<1>11. NoNew(t, u)
  BY <1>6, <1>10, TestsType DEF NoNew
<1> HIDE DEF new, again, u
<1> QED
  BY <1>2, <1>3, <1>5, <1>6, <1>7, <1>8, <1>9, <1>11 DEF u

LEMMA NormalizeIgnoreImportsCovered ==
  ASSUME NEW t \in Build, NEW u \in Build, TestsOnward(t, u)
  PROVE  Covered(NormalizeIgnoreImports(t), NormalizeIgnoreImports(u))
<1> DEFINE B(file) == IF file.annotation # "Ignore" THEN file
                      ELSE Importing(file, {"jdk", "openjdk"}, "junit4")
           old == [f \in {"A", "B"} |-> B(t.tests[f])]
           new == [f \in {"A", "B"} |-> B(u.tests[f])]
<1>1. \A file \in TestFile :
        B(file) \in TestFile /\ (B(file) # file <=> file.annotation = "Ignore" /\ KnownImport(file))
  BY DEF TestFile, Imports, Importing, UsesJdk, KnownImport
<1>2. /\ NormalizeIgnoreImports(t) = EditTests(t, old, 2)
      /\ NormalizeIgnoreImports(u) = EditTests(u, new, 2)
  BY TestsType DEF NormalizeIgnoreImports
<1> HIDE DEF B
<1>3. old \in [{"A", "B"} -> TestFile] /\ new \in [{"A", "B"} -> TestFile]
  BY <1>1, TestsType
<1>4. \A f \in {"A", "B"} : new[f] # u.tests[f] => old[f] # t.tests[f]
  BY <1>1, TestsType DEF TestsOnward, FileOnward, UsesJdk
<1> HIDE DEF old, new
<1> QED
  BY <1>2, <1>3, <1>4, EditTestsCovered

LEMMA MigrateIgnoreIs ==
  ASSUME NEW t \in Build,
         NEW known, known \subseteq {"jdk", "openjdk", "junit4"}
  PROVE  /\ TestStep(MigrateIgnore(t, known), t)
         /\ \A f \in {"A", "B"} :
              MigrateIgnore(t, known).tree.tests[f] = IF t.tests[f].annotation # "Ignore" THEN t.tests[f]
                                ELSE [Importing(t.tests[f], known, "junit5") EXCEPT !.annotation = "Disabled"]
         /\ MigrateIgnore(t, known).files = {f \in {"A", "B"} : t.tests[f].annotation = "Ignore"}
         /\ MigrateIgnore(MigrateIgnore(t, known).tree, known).files = {}
         /\ NoNew(t, MigrateIgnore(t, known).tree)
<1> DEFINE B(file) == IF file.annotation # "Ignore" THEN file
                      ELSE [Importing(file, known, "junit5") EXCEPT !.annotation = "Disabled"]
           new == [f \in {"A", "B"} |-> B(t.tests[f])]
           u == EditTests(t, new, 4).tree
           again == [f \in {"A", "B"} |-> B(new[f])]
<1>1. \A file \in TestFile :
        /\ B(file) \in TestFile /\ B(B(file)) = B(file) /\ FileOnward(file, B(file))
        /\ B(file) # file <=> file.annotation = "Ignore"
  BY DEF TestFile, Imports, Importing, FileOnward, MentionsNashorn, UsesJdk, KnownImport
<1>2. MigrateIgnore(t, known) = EditTests(t, new, 4)
  BY TestsType DEF MigrateIgnore
<1>3. \A f \in {"A", "B"} : new[f] = IF t.tests[f].annotation # "Ignore" THEN t.tests[f]
                                ELSE [Importing(t.tests[f], known, "junit5") EXCEPT !.annotation = "Disabled"]
  OBVIOUS
<1>10. \A file \in TestFile : MentionsNashorn(B(file)) => MentionsNashorn(file)
  BY DEF TestFile, Imports, Importing, MentionsNashorn
<1> HIDE DEF B
<1>4. new \in [{"A", "B"} -> TestFile] /\ again \in [{"A", "B"} -> TestFile]
  BY <1>1, TestsType
<1>5. TestStep(EditTests(t, new, 4), t)
  BY <1>1, <1>4, TestsType, EditTestsSound
<1>6. u \in Build /\ u.tests = new /\ EditTests(t, new, 4).files = ChangedTests(t, new)
  BY <1>4, EditTestsTree
<1>7. MigrateIgnore(u, known) = EditTests(u, again, 4)
  <2> HIDE DEF u, new
  <2> QED
    BY <1>4, <1>6, TestsType DEF MigrateIgnore, B
<1>8. EditTests(u, again, 4).files = {}
  BY <1>1, <1>4, TestsType, EditTestsAgain
<1>9. ChangedTests(t, new) = {f \in {"A", "B"} : t.tests[f].annotation = "Ignore"}
  BY <1>1, TestsType DEF ChangedTests
<1>11. NoNew(t, u)
  BY <1>6, <1>10, TestsType DEF NoNew
<1> HIDE DEF new, again, u
<1> QED
  BY <1>2, <1>3, <1>5, <1>6, <1>7, <1>8, <1>9, <1>11 DEF u

LEMMA MigrateIgnoreCovered ==
  ASSUME NEW t \in Build, NEW u \in Build, TestsOnward(t, u),
         NEW known, known \subseteq {"jdk", "openjdk", "junit4"}
  PROVE  Covered(MigrateIgnore(t, known), MigrateIgnore(u, known))
<1> DEFINE B(file) == IF file.annotation # "Ignore" THEN file
                      ELSE [Importing(file, known, "junit5") EXCEPT !.annotation = "Disabled"]
           old == [f \in {"A", "B"} |-> B(t.tests[f])]
           new == [f \in {"A", "B"} |-> B(u.tests[f])]
<1>1. \A file \in TestFile :
        B(file) \in TestFile /\ (B(file) # file <=> file.annotation = "Ignore")
  BY DEF TestFile, Imports, Importing, UsesJdk, KnownImport
<1>2. /\ MigrateIgnore(t, known) = EditTests(t, old, 4)
      /\ MigrateIgnore(u, known) = EditTests(u, new, 4)
  BY TestsType DEF MigrateIgnore
<1> HIDE DEF B
<1>3. old \in [{"A", "B"} -> TestFile] /\ new \in [{"A", "B"} -> TestFile]
  BY <1>1, TestsType
<1>4. \A f \in {"A", "B"} : new[f] # u.tests[f] => old[f] # t.tests[f]
  BY <1>1, TestsType DEF TestsOnward, FileOnward, UsesJdk
<1> HIDE DEF old, new
<1> QED
  BY <1>2, <1>3, <1>4, EditTestsCovered

-----------------------------------------------------------------------------
(* JUnit and Nashorn.                                                         *)

(* A step within the Maven files that mentions Nashorn nowhere it was not.    *)
MavenStep(s, t) ==
  Sound(s, t) /\ s.files \subseteq {"pom", "A", "B"} /\ NoNew(t, s.tree)

LEMMA SameTestsNoNew ==
  ASSUME NEW t, NEW u, u.tests = t.tests
  PROVE  NoNew(t, u)
BY DEF NoNew

LEMMA JunitSame ==
  ASSUME NEW t \in Build, NEW u \in Build, Onward(t, u) \/ Ahead(t, u)
  PROVE  HasJunit5(u) <=> HasJunit5(t)
BY DEF HasJunit5, Onward, Ahead, PomOnward, DependenciesOnward

LEMMA IgnoreBefore ==
  ASSUME NEW t \in Build, NEW u \in Build, TestsOnward(t, u), UsesIgnore(u)
  PROVE  UsesIgnore(t)
BY TestsType DEF UsesIgnore, TestsOnward, FileOnward

LEMMA UntouchedMaven ==
  ASSUME NEW t \in Build
  PROVE  MavenStep(Untouched(t), t)
BY UntouchedIs, SameTestsNoNew DEF MavenStep

LEMMA NothingCovered ==
  ASSUME NEW s, NEW r, s.planned \in Nat, r.files = {}, r.applied = 0
  PROVE  Covered(s, r)
BY DEF Covered

LEMMA JunitIgnoreCompatIs ==
  ASSUME NEW t \in Build
  PROVE  MavenStep(JunitIgnoreCompat(t), t) /\ JunitIgnoreCompat(JunitIgnoreCompat(t).tree).files = {}
<1>1. CASE ~UsesIgnore(t)
  <2>1. JunitIgnoreCompat(t) = Untouched(t)
    BY <1>1 DEF JunitIgnoreCompat
  <2> QED
    BY <2>1, UntouchedIs, UntouchedMaven
<1>2. CASE UsesIgnore(t) /\ HasJunit5(t)
  <2> DEFINE s == MigrateIgnore(t, {"jdk", "junit4"})
  <2>1. JunitIgnoreCompat(t) = s
    BY <1>2 DEF JunitIgnoreCompat
  <2>2. TestStep(s, t) /\ NoNew(t, s.tree)
    BY MigrateIgnoreIs
  <2>3. MigrateIgnore(s.tree, {"jdk", "junit4"}).files = {}
    BY MigrateIgnoreIs
  <2>4. s.tree \in Build
    BY <2>2 DEF TestStep, Sound
  <2>5. MigrateIgnore(s.tree, {"jdk", "junit4"}).files =
          {f \in {"A", "B"} : s.tree.tests[f].annotation = "Ignore"}
    BY <2>4, MigrateIgnoreIs
  <2> HIDE DEF s
  <2>6. ~UsesIgnore(s.tree)
    BY <2>3, <2>4, <2>5, TestsType DEF UsesIgnore
  <2>7. JunitIgnoreCompat(s.tree) = Untouched(s.tree)
    BY <2>6 DEF JunitIgnoreCompat
  <2> QED
    BY <2>1, <2>2, <2>4, <2>7, UntouchedIs DEF MavenStep, TestStep
<1>3. CASE UsesIgnore(t) /\ ~HasJunit5(t)
  <2> DEFINE s == Ensure(t, "junit4")
  <2>1. JunitIgnoreCompat(t) = s
    BY <1>3 DEF JunitIgnoreCompat
  <2>2. DependencyStep(s, t) /\ Present(s.tree.pom, "junit4")
    BY EnsureIs
  <2> HIDE DEF s
  <2>3. s.tree \in Build /\ s.tree.tests = t.tests /\ Onward(t, s.tree)
    BY <2>2 DEF DependencyStep, Sound, PomOnly
  <2>4. UsesIgnore(s.tree) /\ ~HasJunit5(s.tree)
    BY <1>3, <2>3, JunitSame DEF UsesIgnore
  <2>5. JunitIgnoreCompat(s.tree) = Ensure(s.tree, "junit4")
    BY <2>4 DEF JunitIgnoreCompat
  <2>6. Ensure(s.tree, "junit4").files = {}
    BY <2>2, <2>3, EnsureIs
  <2>7. MavenStep(s, t)
    BY <2>2, <2>3, SameTestsNoNew DEF MavenStep, DependencyStep
  <2> QED
    BY <2>1, <2>5, <2>6, <2>7
<1> QED
  BY <1>1, <1>2, <1>3

LEMMA JunitIgnoreCompatCovered ==
  ASSUME NEW t \in Build, NEW u \in Build, Ahead(t, u)
  PROVE  Covered(JunitIgnoreCompat(t), JunitIgnoreCompat(u))
<1>1. CASE ~UsesIgnore(u)
  <2>1. JunitIgnoreCompat(u) = Untouched(u)
    BY <1>1 DEF JunitIgnoreCompat
  <2>2. JunitIgnoreCompat(t).planned \in Nat
    BY JunitIgnoreCompatIs DEF MavenStep, Sound
  <2> QED
    BY <2>1, <2>2, UntouchedIs, NothingCovered
<1>2. CASE UsesIgnore(u) /\ HasJunit5(u)
  <2>1. UsesIgnore(t) /\ HasJunit5(t)
    BY <1>2, IgnoreBefore, JunitSame DEF Ahead
  <2>2. Covered(MigrateIgnore(t, {"jdk", "junit4"}), MigrateIgnore(u, {"jdk", "junit4"}))
    BY MigrateIgnoreCovered DEF Ahead
  <2> QED
    BY <1>2, <2>1, <2>2 DEF JunitIgnoreCompat
<1>3. CASE UsesIgnore(u) /\ ~HasJunit5(u)
  <2>1. UsesIgnore(t) /\ ~HasJunit5(t)
    BY <1>3, IgnoreBefore, JunitSame DEF Ahead
  <2>2. Covered(Ensure(t, "junit4"), Ensure(u, "junit4"))
    BY EnsureCovered DEF Ahead, PomOnward
  <2> QED
    BY <1>3, <2>1, <2>2 DEF JunitIgnoreCompat
<1> QED
  BY <1>1, <1>2, <1>3

(* With JUnit 4 the second version rewrites the imports, then the pom.        *)
Normalized(t) == NormalizeIgnoreImports(t).tree
ThenJunit4(t) == Ensure(Normalized(t), "junit4")

LEMMA NormalizedIs ==
  ASSUME NEW t \in Build
  PROVE  /\ Normalized(t) \in Build /\ Onward(t, Normalized(t)) /\ NoNew(t, Normalized(t))
         /\ Normalized(t).pom = t.pom
         /\ NormalizeIgnoreImports(t).planned \in Nat /\ NormalizeIgnoreImports(t).applied \in Nat
         /\ NormalizeIgnoreImports(t).files \subseteq {"A", "B"}
         /\ NormalizeIgnoreImports(t).files = {} =>
              /\ Normalized(t) = t
              /\ NormalizeIgnoreImports(t).planned = 0 /\ NormalizeIgnoreImports(t).applied = 0
         /\ UsesIgnore(Normalized(t)) <=> UsesIgnore(t)
<1>1. TestStep(NormalizeIgnoreImports(t), t) /\ NoNew(t, Normalized(t))
  BY NormalizeIgnoreImportsIs DEF Normalized
<1>2. \A f \in {"A", "B"} : Normalized(t).tests[f].annotation = t.tests[f].annotation
  <2>1. \A f \in {"A", "B"} :
          Normalized(t).tests[f] = IF t.tests[f].annotation # "Ignore" THEN t.tests[f]
                                   ELSE Importing(t.tests[f], {"jdk", "openjdk"}, "junit4")
    BY NormalizeIgnoreImportsIs DEF Normalized
  <2>2. \A file \in TestFile :
          Importing(file, {"jdk", "openjdk"}, "junit4").annotation = file.annotation
    BY DEF Importing, TestFile
  <2> QED
    BY <2>1, <2>2, TestsType
<1>3. Normalized(t) \in Build
  BY <1>1 DEF TestStep, Sound, Normalized
<1>4. UsesIgnore(Normalized(t)) <=> UsesIgnore(t)
  BY <1>2, <1>3, TestsType DEF UsesIgnore
<1> QED
  BY <1>1, <1>3, <1>4 DEF TestStep, Sound, TestsOnly, Normalized

LEMMA JunitV2Does ==
  ASSUME NEW t \in Build, UsesIgnore(t), ~HasJunit5(t)
  PROVE  LET s == JunitIgnoreCompatV2(t) IN
         /\ s.tree = ThenJunit4(t).tree
         /\ s.files = NormalizeIgnoreImports(t).files \cup ThenJunit4(t).files
         /\ s.planned = NormalizeIgnoreImports(t).planned + ThenJunit4(t).planned
         /\ s.applied = NormalizeIgnoreImports(t).applied + ThenJunit4(t).applied
BY DEF JunitIgnoreCompatV2, Edited, ThenJunit4, Normalized

LEMMA JunitIgnoreCompatV2Is ==
  ASSUME NEW t \in Build
  PROVE  /\ MavenStep(JunitIgnoreCompatV2(t), t)
         /\ JunitIgnoreCompatV2(JunitIgnoreCompatV2(t).tree).files = {}
<1>1. CASE ~UsesIgnore(t)
  <2>1. JunitIgnoreCompatV2(t) = Untouched(t)
    BY <1>1 DEF JunitIgnoreCompatV2
  <2> QED
    BY <2>1, UntouchedIs, UntouchedMaven
<1>2. CASE UsesIgnore(t) /\ HasJunit5(t)
  <2> DEFINE s == MigrateIgnore(t, {"jdk", "openjdk", "junit4"})
  <2>1. JunitIgnoreCompatV2(t) = s
    BY <1>2 DEF JunitIgnoreCompatV2
  <2>2. TestStep(s, t) /\ NoNew(t, s.tree)
    BY MigrateIgnoreIs
  <2>3. MigrateIgnore(s.tree, {"jdk", "openjdk", "junit4"}).files = {}
    BY MigrateIgnoreIs
  <2>4. s.tree \in Build
    BY <2>2 DEF TestStep, Sound
  <2>5. MigrateIgnore(s.tree, {"jdk", "openjdk", "junit4"}).files =
          {f \in {"A", "B"} : s.tree.tests[f].annotation = "Ignore"}
    BY <2>4, MigrateIgnoreIs
  <2> HIDE DEF s
  <2>6. ~UsesIgnore(s.tree)
    BY <2>3, <2>4, <2>5, TestsType DEF UsesIgnore
  <2>7. JunitIgnoreCompatV2(s.tree) = Untouched(s.tree)
    BY <2>6 DEF JunitIgnoreCompatV2
  <2> QED
    BY <2>1, <2>2, <2>4, <2>7, UntouchedIs DEF MavenStep, TestStep
<1>3. CASE UsesIgnore(t) /\ ~HasJunit5(t)
  <2> DEFINE s == JunitIgnoreCompatV2(t)
             n == NormalizeIgnoreImports(t)
             m == Normalized(t)
             d == ThenJunit4(t)
  <2>1. /\ s.tree = d.tree /\ s.files = n.files \cup d.files
        /\ s.planned = n.planned + d.planned /\ s.applied = n.applied + d.applied
    BY <1>3, JunitV2Does
  <2>2. /\ m \in Build /\ Onward(t, m) /\ NoNew(t, m)
        /\ n.planned \in Nat /\ n.applied \in Nat /\ n.files \subseteq {"A", "B"}
        /\ n.files = {} => m = t /\ n.planned = 0 /\ n.applied = 0
        /\ UsesIgnore(m)
    BY <1>3, NormalizedIs
  <2>3. DependencyStep(d, m) /\ Present(d.tree.pom, "junit4")
    BY <2>2, EnsureIs DEF ThenJunit4
  <2> HIDE DEF s, n, m, d
  <2>4. /\ d.tree \in Build /\ Onward(m, d.tree) /\ d.tree.tests = m.tests
        /\ d.planned \in Nat /\ d.applied \in Nat /\ d.files \subseteq {"pom"}
        /\ d.files = {} => d.tree = m /\ d.planned = 0 /\ d.applied = 0
    BY <2>3 DEF DependencyStep, Sound, PomOnly
  <2>5. Onward(t, d.tree)
    BY <2>2, <2>4, OnwardTrans
  <2>6. Sound(s, t)
    BY SMTT(30), <2>1, <2>2, <2>4, <2>5 DEF Sound
  <2>7. NoNew(t, s.tree)
    BY <2>1, <2>2, <2>4 DEF NoNew
  <2>8. MavenStep(s, t)
    BY <2>1, <2>2, <2>4, <2>6, <2>7 DEF MavenStep
  <2>9. NormalizeIgnoreImports(d.tree).files = {}
    <3>1. NormalizeIgnoreImports(m).files = {}
      BY NormalizeIgnoreImportsIs DEF m, Normalized
    <3>2. NormalizeIgnoreImports(m).files =
            {f \in {"A", "B"} : m.tests[f].annotation = "Ignore" /\ KnownImport(m.tests[f])}
      BY <2>2, NormalizeIgnoreImportsIs
    <3>3. NormalizeIgnoreImports(d.tree).files =
            {f \in {"A", "B"} : d.tree.tests[f].annotation = "Ignore" /\ KnownImport(d.tree.tests[f])}
      BY <2>4, NormalizeIgnoreImportsIs
    <3> QED
      BY <2>4, <3>1, <3>2, <3>3
  <2>10. Normalized(d.tree) = d.tree
    BY <2>4, <2>9, NormalizedIs
  <2>11. ThenJunit4(d.tree).files = {}
    BY <2>3, <2>4, <2>10, EnsureIs DEF ThenJunit4
  <2>12. UsesIgnore(d.tree) /\ ~HasJunit5(d.tree)
    BY <1>3, <2>2, <2>4, <2>5, JunitSame DEF UsesIgnore
  <2>13. JunitIgnoreCompatV2(d.tree).files = {}
    BY <2>4, <2>9, <2>11, <2>12, JunitV2Does
  <2> QED
    BY <2>1, <2>8, <2>13 DEF s
<1> QED
  BY <1>1, <1>2, <1>3

LEMMA JunitIgnoreCompatV2Covered ==
  ASSUME NEW t \in Build, NEW u \in Build, Ahead(t, u)
  PROVE  Covered(JunitIgnoreCompatV2(t), JunitIgnoreCompatV2(u))
<1>1. CASE ~UsesIgnore(u)
  <2>1. JunitIgnoreCompatV2(u) = Untouched(u)
    BY <1>1 DEF JunitIgnoreCompatV2
  <2>2. JunitIgnoreCompatV2(t).planned \in Nat
    BY JunitIgnoreCompatV2Is DEF MavenStep, Sound
  <2> QED
    BY <2>1, <2>2, UntouchedIs, NothingCovered
<1>2. CASE UsesIgnore(u) /\ HasJunit5(u)
  <2>1. UsesIgnore(t) /\ HasJunit5(t)
    BY <1>2, IgnoreBefore, JunitSame DEF Ahead
  <2>2. Covered(MigrateIgnore(t, {"jdk", "openjdk", "junit4"}),
                MigrateIgnore(u, {"jdk", "openjdk", "junit4"}))
    BY MigrateIgnoreCovered DEF Ahead
  <2> QED
    BY <1>2, <2>1, <2>2 DEF JunitIgnoreCompatV2
<1>3. CASE UsesIgnore(u) /\ ~HasJunit5(u)
  <2>1. UsesIgnore(t) /\ ~HasJunit5(t)
    BY <1>3, IgnoreBefore, JunitSame DEF Ahead
  <2>2. Covered(NormalizeIgnoreImports(t), NormalizeIgnoreImports(u))
    BY NormalizeIgnoreImportsCovered DEF Ahead
  <2>3. /\ Normalized(t) \in Build /\ Normalized(u) \in Build
        /\ Normalized(t).pom = t.pom /\ Normalized(u).pom = u.pom
        /\ NormalizeIgnoreImports(t).planned \in Nat /\ NormalizeIgnoreImports(u).applied \in Nat
    BY NormalizedIs
  <2>4. Covered(ThenJunit4(t), ThenJunit4(u))
    BY <2>3, EnsureCovered DEF Ahead, PomOnward, ThenJunit4
  <2>5. ThenJunit4(t).planned \in Nat /\ ThenJunit4(u).applied \in Nat
    BY <2>3, EnsureIs DEF ThenJunit4
  <2>6. /\ JunitIgnoreCompatV2(t).files = NormalizeIgnoreImports(t).files \cup ThenJunit4(t).files
        /\ JunitIgnoreCompatV2(t).planned
             = NormalizeIgnoreImports(t).planned + ThenJunit4(t).planned
    BY <2>1, JunitV2Does
  <2>7. /\ JunitIgnoreCompatV2(u).files = NormalizeIgnoreImports(u).files \cup ThenJunit4(u).files
        /\ JunitIgnoreCompatV2(u).applied
             = NormalizeIgnoreImports(u).applied + ThenJunit4(u).applied
    BY <1>3, JunitV2Does
  <2> QED
    BY <2>2, <2>3, <2>4, <2>5, <2>6, <2>7 DEF Covered
<1> QED
  BY <1>1, <1>2, <1>3

Nashorn(t) == \E f \in {"A", "B"} : MentionsNashorn(t.tests[f])

LEMMA NashornCoreDependencyDoes ==
  ASSUME NEW t \in Build
  PROVE  NashornCoreDependency(t) = IF Nashorn(t) THEN Ensure(t, "nashorn") ELSE Untouched(t)
BY TestsType DEF NashornCoreDependency, Nashorn

LEMMA NashornCoreDependencyIs ==
  ASSUME NEW t \in Build
  PROVE  /\ MavenStep(NashornCoreDependency(t), t)
         /\ NashornCoreDependency(NashornCoreDependency(t).tree).files = {}
<1>1. CASE ~Nashorn(t)
  <2>1. NashornCoreDependency(t) = Untouched(t)
    BY <1>1, NashornCoreDependencyDoes
  <2> QED
    BY <2>1, UntouchedIs, UntouchedMaven
<1>2. CASE Nashorn(t)
  <2> DEFINE s == Ensure(t, "nashorn")
  <2>1. NashornCoreDependency(t) = s
    BY <1>2, NashornCoreDependencyDoes
  <2>2. DependencyStep(s, t) /\ Present(s.tree.pom, "nashorn")
    BY EnsureIs
  <2> HIDE DEF s
  <2>3. s.tree \in Build /\ s.tree.tests = t.tests
    BY <2>2 DEF DependencyStep, Sound, PomOnly
  <2>4. NashornCoreDependency(s.tree) = Ensure(s.tree, "nashorn")
    BY <1>2, <2>3, NashornCoreDependencyDoes DEF Nashorn
  <2>5. Ensure(s.tree, "nashorn").files = {}
    BY <2>2, <2>3, EnsureIs
  <2>6. MavenStep(s, t)
    BY <2>2, <2>3, SameTestsNoNew DEF MavenStep, DependencyStep
  <2> QED
    BY <2>1, <2>4, <2>5, <2>6
<1> QED
  BY <1>1, <1>2

LEMMA NashornCoreDependencyCovered ==
  ASSUME NEW t \in Build, NEW u \in Build, Ahead(t, u), NoNew(t, u)
  PROVE  Covered(NashornCoreDependency(t), NashornCoreDependency(u))
<1>1. CASE ~Nashorn(u)
  <2>1. NashornCoreDependency(u) = Untouched(u)
    BY <1>1, NashornCoreDependencyDoes
  <2>2. NashornCoreDependency(t).planned \in Nat
    BY NashornCoreDependencyIs DEF MavenStep, Sound
  <2> QED
    BY <2>1, <2>2, UntouchedIs, NothingCovered
<1>2. CASE Nashorn(u)
  <2>1. Nashorn(t)
    BY <1>2 DEF Nashorn, NoNew
  <2>2. Covered(Ensure(t, "nashorn"), Ensure(u, "nashorn"))
    BY EnsureCovered DEF Ahead, PomOnward
  <2> QED
    BY <1>2, <2>1, <2>2, NashornCoreDependencyDoes
<1> QED
  BY <1>1, <1>2

-----------------------------------------------------------------------------
(* The Gradle recipes.                                                        *)

GradleOnly(t, u) == u.kind = t.kind /\ u.pom = t.pom /\ u.tests = t.tests

GradleStep(s, t, files) == Sound(s, t) /\ s.files \subseteq files /\ GradleOnly(t, s.tree)

LEMMA GradleStepSound ==
  ASSUME NEW t \in Build, NEW u \in Build, GradleOnly(t, u), GradleOnward(t, u),
         PropertiesOnward(t, u)
  PROVE  Onward(t, u)
BY SamePom, SameTests DEF Onward, Ahead, GradleOnly

LEMMA UntouchedGradle ==
  ASSUME NEW t \in Build, NEW files
  PROVE  GradleStep(Untouched(t), t, files)
BY UntouchedIs DEF GradleStep, GradleOnly

LEMMA WrapperJava17MinIs ==
  ASSUME NEW t \in Build
  PROVE  /\ GradleStep(WrapperJava17Min(t), t, {"wrapper"})
         /\ WrapperJava17Min(WrapperJava17Min(t).tree).files = {}
<1>1. CASE ~Lower(t.wrapper)
  <2>1. WrapperJava17Min(t) = Untouched(t)
    BY <1>1 DEF WrapperJava17Min
  <2> QED
    BY <2>1, UntouchedIs, UntouchedGradle
<1>2. CASE Lower(t.wrapper)
  <2> DEFINE u == [t EXCEPT !.wrapper = Base]
  <2>1. WrapperJava17Min(t) = Edited(u, {"wrapper"}, 2, 2)
    BY <1>2 DEF WrapperJava17Min
  <2>2. /\ u \in Build /\ u.wrapper = Base /\ GradleOnly(t, u) /\ u.groovy = t.groovy
        /\ u.kotlin = t.kotlin /\ u.properties = t.properties
    BY DEF Build, GradleOnly, Base, Versions
  <2> HIDE DEF u
  <2>3. GradleOnward(t, u) /\ PropertiesOnward(t, u)
    BY <1>2, <2>2 DEF GradleOnward, ScriptOnward, PropertiesOnward
  <2>4. Onward(t, u)
    BY <2>2, <2>3, GradleStepSound
  <2>5. ~Lower(u.wrapper)
    BY <2>2 DEF Lower, Base
  <2>6. WrapperJava17Min(u) = Untouched(u)
    BY <2>5 DEF WrapperJava17Min
  <2> QED
    BY <2>1, <2>2, <2>4, <2>6, UntouchedIs DEF GradleStep, Sound, Edited
<1> QED
  BY <1>1, <1>2

LEMMA WrapperJava17MinCovered ==
  ASSUME NEW t \in Build, NEW u \in Build, GradleOnward(t, u)
  PROVE  Covered(WrapperJava17Min(t), WrapperJava17Min(u))
<1>1. Lower(u.wrapper) => Lower(t.wrapper)
  BY DEF GradleOnward
<1> QED
  BY <1>1 DEF WrapperJava17Min, Covered, Untouched, Edited

LEMMA Java17BaselineIs ==
  ASSUME NEW t \in Build
  PROVE  /\ GradleStep(Java17Baseline(t), t, {"groovy", "kotlin"})
         /\ Java17Baseline(Java17Baseline(t).tree).files = {}
<1> DEFINE n == IF t.groovy.present THEN t.groovy.old ELSE t.kotlin.old
<1>1. n \in 0..2 /\ t.groovy \in Script /\ t.kotlin \in Script
  BY DEF Build, Script
<1>2. CASE n = 0
  <2>1. Java17Baseline(t) = Untouched(t)
    BY <1>2 DEF Java17Baseline
  <2> QED
    BY <2>1, UntouchedIs, UntouchedGradle
<1>3. CASE n # 0 /\ t.groovy.present
  <2> DEFINE u == [t EXCEPT !.groovy.old = 0]
  <2>1. Java17Baseline(t) = Edited(u, {"groovy"}, 2 * n, 2 * n)
    BY <1>3 DEF Java17Baseline
  <2>2. /\ u \in Build /\ GradleOnly(t, u) /\ u.wrapper = t.wrapper
        /\ u.kotlin = t.kotlin /\ u.properties = t.properties
        /\ u.groovy.present = t.groovy.present /\ u.groovy.old = 0
    BY <1>1 DEF Build, GradleOnly, Script
  <2> HIDE DEF u
  <2>3. GradleOnward(t, u) /\ PropertiesOnward(t, u)
    BY <2>2 DEF GradleOnward, ScriptOnward, PropertiesOnward
  <2>4. Onward(t, u)
    BY <2>2, <2>3, GradleStepSound
  <2>5. Java17Baseline(u) = Untouched(u)
    BY <1>3, <2>2 DEF Java17Baseline
  <2> QED
    BY <1>1, <1>3, <2>1, <2>2, <2>4, <2>5, UntouchedIs DEF GradleStep, Sound, Edited
<1>4. CASE n # 0 /\ ~t.groovy.present
  <2> DEFINE u == [t EXCEPT !.kotlin.old = 0]
  <2>1. Java17Baseline(t) = Edited(u, {"kotlin"}, 2 * n, 2 * n)
    BY <1>4 DEF Java17Baseline
  <2>2. /\ u \in Build /\ GradleOnly(t, u) /\ u.wrapper = t.wrapper
        /\ u.groovy = t.groovy /\ u.properties = t.properties
        /\ u.kotlin.present = t.kotlin.present /\ u.kotlin.old = 0
    BY <1>1 DEF Build, GradleOnly, Script
  <2> HIDE DEF u
  <2>3. GradleOnward(t, u) /\ PropertiesOnward(t, u)
    BY <2>2 DEF GradleOnward, ScriptOnward, PropertiesOnward
  <2>4. Onward(t, u)
    BY <2>2, <2>3, GradleStepSound
  <2>5. Java17Baseline(u) = Untouched(u)
    BY <1>4, <2>2 DEF Java17Baseline
  <2> QED
    BY <1>1, <1>4, <2>1, <2>2, <2>4, <2>5, UntouchedIs DEF GradleStep, Sound, Edited
<1> QED
  BY <1>2, <1>3, <1>4

LEMMA Java17BaselineCovered ==
  ASSUME NEW t \in Build, NEW u \in Build, GradleOnward(t, u)
  PROVE  Covered(Java17Baseline(t), Java17Baseline(u))
<1>1. /\ t.groovy.present \in BOOLEAN /\ t.groovy.old \in 0..2 /\ t.kotlin.old \in 0..2
      /\ u.groovy.old \in 0..2 /\ u.kotlin.old \in 0..2
  BY DEF Build, Script
<1>2. /\ u.groovy.present = t.groovy.present
      /\ u.groovy.old = t.groovy.old \/ u.groovy.old = 0
      /\ u.kotlin.old = t.kotlin.old \/ u.kotlin.old = 0
  BY DEF GradleOnward, ScriptOnward
<1> QED
  BY <1>1, <1>2 DEF Java17Baseline, Covered, Untouched, Edited

LEMMA GuardedPropertiesBaselineIs ==
  ASSUME NEW t \in Build
  PROVE  /\ GradleStep(GuardedPropertiesBaseline(t), t, {"properties"})
         /\ GuardedPropertiesBaseline(GuardedPropertiesBaseline(t).tree).files = {}
         /\ GuardedPropertiesBaseline(t).tree =
              [t EXCEPT !.properties = GuardedPropertiesBaseline(t).tree.properties]
<1>1. t.properties \in Properties /\ t.properties.wrong \in 0..2
  BY DEF Build, Properties
<1>2. CASE t.properties.wrong = 0
  <2>1. GuardedPropertiesBaseline(t) = Untouched(t)
    BY <1>2 DEF GuardedPropertiesBaseline
  <2>2. t = [t EXCEPT !.properties = t.properties]
    BY DEF Build
  <2> QED
    BY <2>1, <2>2, UntouchedIs, UntouchedGradle
<1>3. CASE t.properties.wrong # 0
  <2> DEFINE u == [t EXCEPT !.properties = Wanted]
             s == GuardedPropertiesBaseline(t)
  <2>1. /\ s.tree = u /\ s.files = {"properties"} /\ s.planned = 4
        /\ s.applied = IF t.properties.text = "some" THEN 2 * t.properties.wrong
                       ELSE t.properties.wrong
    BY <1>3 DEF GuardedPropertiesBaseline, Edited, Wanted
  <2>2. /\ u \in Build /\ GradleOnly(t, u) /\ u.wrapper = t.wrapper
        /\ u.groovy = t.groovy /\ u.kotlin = t.kotlin /\ u.properties = Wanted
    BY <1>1 DEF Build, GradleOnly, Properties, Wanted
  <2>3. u = [t EXCEPT !.properties = u.properties]
    BY <2>2
  <2> HIDE DEF u, s
  <2>4. GradleOnward(t, u) /\ PropertiesOnward(t, u)
    BY <2>2, SameGradle DEF PropertiesOnward
  <2>5. Onward(t, u)
    BY <2>2, <2>4, GradleStepSound
  <2>6. GuardedPropertiesBaseline(u) = Untouched(u)
    BY <2>2 DEF GuardedPropertiesBaseline, Wanted
  <2>7. s.applied \in Nat
    BY <1>1, <2>1
  <2> QED
    BY <2>1, <2>2, <2>3, <2>5, <2>6, <2>7, UntouchedIs DEF GradleStep, Sound, s
<1> QED
  BY <1>2, <1>3

LEMMA GuardedPropertiesBaselineCovered ==
  ASSUME NEW t \in Build, NEW u \in Build, PropertiesOnward(t, u)
  PROVE  Covered(GuardedPropertiesBaseline(t), GuardedPropertiesBaseline(u))
<1>1. /\ t.properties.wrong \in 0..2 /\ u.properties.wrong \in 0..2
      /\ u.properties.wrong # 0 => t.properties.wrong = u.properties.wrong
  BY DEF Build, Properties, PropertiesOnward, Wanted
<1> QED
  BY <1>1 DEF GuardedPropertiesBaseline, Covered, Untouched, Edited

-----------------------------------------------------------------------------
(* The recipes of the packs.                                                  *)

LEMMA ApplyIs ==
  ASSUME NEW t
  PROVE  /\ Apply("target17", t) = CompilerTarget17(t)
         /\ Apply("compiler", t) = Bump(t, "compiler")
         /\ Apply("surefire", t) = SurefireSafe(t)
         /\ Apply("failsafe", t) = Bump(t, "failsafe")
         /\ Apply("jar", t) = Bump(t, "jar")
         /\ Apply("lombok", t) = Bump(t, "lombok")
         /\ Apply("delombok", t) = DelombokInPreparePackage(t)
         /\ Apply("nashorn-import", t) = NashornIgnoreImportRewrite(t)
         /\ Apply("junit", t) = JunitIgnoreCompat(t)
         /\ Apply("namespace", t) = NashornNamespaceRewrite(t)
         /\ Apply("junit-v2", t) = JunitIgnoreCompatV2(t)
         /\ Apply("nashorn-core", t) = NashornCoreDependency(t)
         /\ Apply("wrapper", t) = WrapperJava17Min(t)
         /\ Apply("java17", t) = Java17Baseline(t)
         /\ Apply("properties", t) = GuardedPropertiesBaseline(t)
BY DEF Apply, CompilerPluginBump, FailsafeSafe, JarPluginBump, LombokPluginBump

PluginRecipes == {"target17", "compiler", "surefire", "failsafe", "jar", "lombok", "delombok"}
TestRecipes == {"nashorn-import", "junit", "namespace", "junit-v2", "nashorn-core"}

LEMMA RecipeKinds == Recipes = PluginRecipes \cup TestRecipes \cup GradleRecipes
BY DEF Recipes, PluginRecipes, TestRecipes, GradleRecipes

(* The files that a recipe is for.                                            *)
FilesOf(recipe) ==
  CASE recipe = "wrapper" -> {"wrapper"}
    [] recipe = "java17" -> {"groovy", "kotlin"}
    [] recipe = "properties" -> {"properties"}
    [] OTHER -> {"pom", "A", "B"}

LEMMA PluginRecipeIs ==
  ASSUME NEW t \in Build, NEW recipe \in PluginRecipes
  PROVE  PluginStep(Apply(recipe, t), t) /\ Apply(recipe, Apply(recipe, t).tree).files = {}
<1>1. CASE recipe = "target17"
  BY <1>1, ApplyIs, CompilerTarget17Is
<1>2. CASE recipe \in {"compiler", "failsafe", "jar", "lombok"}
  BY <1>2, ApplyIs, BumpIs
<1>3. CASE recipe = "surefire"
  BY <1>3, ApplyIs, SurefireSafeIs
<1>4. CASE recipe = "delombok"
  BY <1>4, ApplyIs, DelombokInPreparePackageIs
<1> QED
  BY <1>1, <1>2, <1>3, <1>4 DEF PluginRecipes

(* What a recipe does: its result is sound, a second time it finds nothing to *)
(* do, and only the namespace's rewriting makes a file mention Nashorn.       *)
LEMMA RecipeIs ==
  ASSUME NEW t \in Build, NEW recipe \in Recipes
  PROVE  /\ Sound(Apply(recipe, t), t)
         /\ Apply(recipe, Apply(recipe, t).tree).files = {}
         /\ Apply(recipe, t).files \subseteq FilesOf(recipe)
         /\ recipe # "namespace" => NoNew(t, Apply(recipe, t).tree)
<1>1. CASE recipe \in PluginRecipes
  <2>1. PluginStep(Apply(recipe, t), t) /\ Apply(recipe, Apply(recipe, t).tree).files = {}
    BY <1>1, PluginRecipeIs
  <2>2. FilesOf(recipe) = {"pom", "A", "B"}
    BY <1>1 DEF PluginRecipes, FilesOf
  <2> QED
    BY <2>1, <2>2, SameTestsNoNew DEF PluginStep, PomOnly
<1>2. CASE recipe \in TestRecipes
  <2>1. FilesOf(recipe) = {"pom", "A", "B"}
    BY <1>2 DEF TestRecipes, FilesOf
  <2>2. CASE recipe = "nashorn-import"
    <3>1. /\ TestStep(NashornIgnoreImportRewrite(t), t)
          /\ NashornIgnoreImportRewrite(NashornIgnoreImportRewrite(t).tree).files = {}
          /\ NoNew(t, NashornIgnoreImportRewrite(t).tree)
      BY NashornIgnoreImportRewriteIs
    <3> QED
      BY <2>1, <2>2, <3>1, ApplyIs DEF TestStep
  <2>3. CASE recipe = "junit"
    BY <2>1, <2>3, ApplyIs, JunitIgnoreCompatIs DEF MavenStep
  <2>4. CASE recipe = "namespace"
    <3>1. /\ TestStep(NashornNamespaceRewrite(t), t)
          /\ NashornNamespaceRewrite(NashornNamespaceRewrite(t).tree).files = {}
      BY NashornNamespaceRewriteIs
    <3> QED
      BY <2>1, <2>4, <3>1, ApplyIs DEF TestStep
  <2>5. CASE recipe = "junit-v2"
    BY <2>1, <2>5, ApplyIs, JunitIgnoreCompatV2Is DEF MavenStep
  <2>6. CASE recipe = "nashorn-core"
    BY <2>1, <2>6, ApplyIs, NashornCoreDependencyIs DEF MavenStep
  <2> QED
    BY <1>2, <2>2, <2>3, <2>4, <2>5, <2>6 DEF TestRecipes
<1>3. CASE recipe = "wrapper"
  BY <1>3, ApplyIs, WrapperJava17MinIs, SameTestsNoNew DEF GradleStep, GradleOnly, FilesOf
<1>4. CASE recipe = "java17"
  BY <1>4, ApplyIs, Java17BaselineIs, SameTestsNoNew DEF GradleStep, GradleOnly, FilesOf
<1>5. CASE recipe = "properties"
  <2>1. /\ GradleStep(GuardedPropertiesBaseline(t), t, {"properties"})
        /\ GuardedPropertiesBaseline(GuardedPropertiesBaseline(t).tree).files = {}
    BY GuardedPropertiesBaselineIs
  <2> QED
    BY <1>5, <2>1, ApplyIs, SameTestsNoNew DEF GradleStep, GradleOnly, FilesOf
<1> QED
  BY <1>1, <1>2, <1>3, <1>4, <1>5, RecipeKinds DEF GradleRecipes

(* What a recipe would still edit in u, which recipes made of t, and the      *)
(* lines, its plan on t announces.                                            *)
LEMMA RecipeCovered ==
  ASSUME NEW t \in Build, NEW u \in Build, Ahead(t, u), NEW recipe \in Recipes,
         recipe = "properties" => PropertiesOnward(t, u),
         recipe = "nashorn-core" => NoNew(t, u)
  PROVE  Covered(Apply(recipe, t), Apply(recipe, u))
<1>1. PomOnward(t.pom, u.pom) /\ TestsOnward(t, u) /\ GradleOnward(t, u)
  BY DEF Ahead
<1>2. CASE recipe = "target17"
  BY <1>1, <1>2, ApplyIs, CompilerTarget17Covered
<1>3. CASE recipe \in {"compiler", "failsafe", "jar", "lombok"}
  BY <1>1, <1>3, ApplyIs, BumpCovered
<1>4. CASE recipe = "surefire"
  BY <1>1, <1>4, ApplyIs, SurefireSafeCovered
<1>5. CASE recipe = "delombok"
  BY <1>1, <1>5, ApplyIs, DelombokInPreparePackageCovered
<1>6. CASE recipe = "nashorn-import"
  BY <1>1, <1>6, ApplyIs, NashornIgnoreImportRewriteCovered
<1>7. CASE recipe = "junit"
  BY <1>7, ApplyIs, JunitIgnoreCompatCovered
<1>8. CASE recipe = "namespace"
  BY <1>1, <1>8, ApplyIs, NashornNamespaceRewriteCovered
<1>9. CASE recipe = "junit-v2"
  BY <1>9, ApplyIs, JunitIgnoreCompatV2Covered
<1>10. CASE recipe = "nashorn-core"
  BY <1>10, ApplyIs, NashornCoreDependencyCovered
<1>11. CASE recipe = "wrapper"
  BY <1>1, <1>11, ApplyIs, WrapperJava17MinCovered
<1>12. CASE recipe = "java17"
  BY <1>1, <1>12, ApplyIs, Java17BaselineCovered
<1>13. CASE recipe = "properties"
  BY <1>13, ApplyIs, GuardedPropertiesBaselineCovered
<1> QED
  BY <1>2, <1>3, <1>4, <1>5, <1>6, <1>7, <1>8, <1>9, <1>10, <1>11, <1>12, <1>13 DEF Recipes, GradleRecipes

(* Only a recipe for a file of the repository's kind is applied.              *)
LEMMA InScope ==
  ASSUME NEW t \in Build, NEW recipe \in Recipes, AppliesTo(recipe, t)
  PROVE  Apply(recipe, t).files \subseteq Scope(t) /\ Apply(recipe, t).files \subseteq Files
<1>1. t.kind \in {"maven", "jvm", "android"}
  BY DEF Build
<1>2. FilesOf(recipe) \subseteq Scope(t) /\ FilesOf(recipe) \subseteq Files
  BY <1>1 DEF FilesOf, Scope, AppliesTo, Recipes, GradleRecipes, Files
<1> QED
  BY <1>2, RecipeIs

LEMMA SameApplies ==
  ASSUME NEW t, NEW u, u.kind = t.kind, NEW recipe
  PROVE  AppliesTo(recipe, u) <=> AppliesTo(recipe, t)
BY DEF AppliesTo

-----------------------------------------------------------------------------
(* The packs.                                                                 *)

LEMMA PackIs ==
  ASSUME NEW p \in Packs
  PROVE  /\ p \in Seq(Recipes)
         /\ \A i, j \in 1..Len(p) : p[i] = "nashorn-core" /\ p[j] = "namespace" => j < i
<1>1. p \in NamedPacks
  BY RecipesAssumption
<1>2. CASE p = Core
  BY <1>2 DEF Core, Recipes, GradleRecipes
<1>3. CASE p = PluginModernize
  BY <1>3 DEF PluginModernize, Core, Recipes, GradleRecipes
<1>4. CASE p = Lombok
  BY <1>4 DEF Lombok, Recipes, GradleRecipes
<1>5. CASE p = Delombok
  BY <1>5 DEF Delombok, Recipes, GradleRecipes
<1>6. CASE p = TestCompat
  BY <1>6 DEF TestCompat, Recipes, GradleRecipes
<1>7. CASE p = TestCompatV2
  BY <1>7 DEF TestCompatV2, Recipes, GradleRecipes
<1>8. CASE p = GradleJava17
  BY <1>8 DEF GradleJava17, Recipes, GradleRecipes
<1>9. CASE p = GradleGuarded
  BY <1>9 DEF GradleGuarded, Recipes, GradleRecipes
<1> QED
  BY <1>1, <1>2, <1>3, <1>4, <1>5, <1>6, <1>7, <1>8, <1>9 DEF NamedPacks

-----------------------------------------------------------------------------
(* The inductive invariant.                                                   *)

Settled(recipe, t) == AppliesTo(recipe, t) => Apply(recipe, t).files = {}
SettledBefore(n, t) == \A i \in 1..Len(pack) : i < n => Settled(pack[i], t)
AllSettled(t) == \A i \in 1..Len(pack) : Settled(pack[i], t)
ButProperties(t) == \A i \in 1..Len(pack) : pack[i] # "properties" => Settled(pack[i], t)

(* Nothing is written while the plan is made, and what is written is onward.  *)
Moving ==
  /\ phase = "planning" => tree = repo /\ done = NothingDone
  /\ phase = "applying" =>
       /\ Onward(repo, tree)
       /\ HasRecipe("namespace") \/ NoNew(repo, tree)

(* The recipes that were applied have nothing left to do.                     *)
AppliedSettled == phase = "applying" => SettledBefore(at, tree)

(* The files that changed are in done.                                        *)
DoneSays ==
  phase = "applying" =>
    /\ done.files = {} => tree = repo
    /\ done.files \subseteq {"properties"} => tree = [repo EXCEPT !.properties = tree.properties]

(* Recipes with nothing to do announce nothing.                               *)
QuietPlan ==
  phase # "ended" /\ SettledBefore(IF phase = "planning" THEN at ELSE Len(pack) + 1, repo) =>
    plan.files = {} /\ plan.lines = 0

(* A run leaves nothing to do but for a properties file that no commit holds. *)
Rerun ==
  round = 2 \/ phase = "ended" =>
    /\ ButProperties(repo)
    /\ AllSettled(repo) \/ repo.properties.text = "absent"

Again ==
  round = 2 /\ phase # "ended" =>
    /\ done.files \subseteq {"properties"}
    /\ AllSettled(repo) => done.files = {}

-----------------------------------------------------------------------------
(* Types.                                                                     *)

LEMMA FilesAreFinite ==
  ASSUME NEW S, S \subseteq Files
  PROVE  IsFiniteSet(S) /\ Cardinality(S) \in Nat
<1>1. IsFiniteSet({"pom"})
  BY FS_Singleton
<1>2. IsFiniteSet({"pom"} \cup {"A"})
  BY <1>1, FS_AddElement
<1>3. IsFiniteSet({"pom"} \cup {"A"} \cup {"B"})
  BY <1>2, FS_AddElement
<1>4. IsFiniteSet({"pom"} \cup {"A"} \cup {"B"} \cup {"wrapper"})
  BY <1>3, FS_AddElement
<1>5. IsFiniteSet({"pom"} \cup {"A"} \cup {"B"} \cup {"wrapper"} \cup {"groovy"})
  BY <1>4, FS_AddElement
<1>6. IsFiniteSet({"pom"} \cup {"A"} \cup {"B"} \cup {"wrapper"} \cup {"groovy"} \cup {"kotlin"})
  BY <1>5, FS_AddElement
<1>7. IsFiniteSet({"pom"} \cup {"A"} \cup {"B"} \cup {"wrapper"} \cup {"groovy"} \cup {"kotlin"}
                    \cup {"properties"})
  BY <1>6, FS_AddElement
<1>8. Files = {"pom"} \cup {"A"} \cup {"B"} \cup {"wrapper"} \cup {"groovy"} \cup {"kotlin"}
                \cup {"properties"}
  BY DEF Files
<1>9. IsFiniteSet(Files)
  BY <1>7, <1>8
<1>10. IsFiniteSet(S)
  BY <1>9, FS_Subset
<1> QED
  BY <1>10, FS_CardinalityType

LEMMA UnionCounts ==
  ASSUME NEW S, NEW T, S \subseteq Files, T \subseteq Files
  PROVE  Cardinality(S \cup T) <= Cardinality(S) + Cardinality(T)
<1>1. IsFiniteSet(S) /\ IsFiniteSet(T)
  BY FilesAreFinite
<1>2. Cardinality(S \cup T) = Cardinality(S) + Cardinality(T) - Cardinality(S \cap T)
  BY <1>1, FS_Union
<1>3. S \cap T \subseteq Files
  OBVIOUS
<1>4. Cardinality(S \cap T) \in Nat /\ Cardinality(S) \in Nat /\ Cardinality(T) \in Nat
  BY <1>3, FilesAreFinite
<1> QED
  BY <1>2, <1>4

LEMMA PackType ==
  ASSUME pack \in Packs
  PROVE  /\ pack \in Seq(Recipes) /\ Len(pack) \in Nat /\ DOMAIN pack = 1..Len(pack)
         /\ \A i \in 1..Len(pack) : pack[i] \in Recipes
         /\ \A i, j \in 1..Len(pack) : pack[i] = "nashorn-core" /\ pack[j] = "namespace" => j < i
<1>1. pack \in Seq(Recipes)
  BY PackIs
<1>2. \A i, j \in 1..Len(pack) : pack[i] = "nashorn-core" /\ pack[j] = "namespace" => j < i
  BY PackIs
<1> QED
  BY <1>1, <1>2

(* The recipe that is next, and what applying it gives.                       *)
LEMMA NextRecipe ==
  ASSUME TypeOK, at <= Len(pack)
  PROVE  /\ at \in 1..Len(pack) /\ pack[at] \in Recipes /\ at + 1 \in 1..(Len(pack) + 1)
         /\ Apply(pack[at], tree).tree \in Build
         /\ Apply(pack[at], tree).planned \in Nat /\ Apply(pack[at], tree).applied \in Nat
         /\ AppliesTo(pack[at], tree) =>
              /\ Apply(pack[at], tree).files \subseteq Files
              /\ Apply(pack[at], tree).files \subseteq Scope(tree)
<1>1. at \in 1..Len(pack) /\ at + 1 \in 1..(Len(pack) + 1)
  BY PackType DEF TypeOK
<1>2. pack[at] \in Recipes /\ tree \in Build
  BY <1>1, PackType DEF TypeOK
<1> QED
  BY <1>1, <1>2, RecipeIs, InScope DEF Sound

LEMMA NothingIs ==
  /\ NothingPlanned.files = {} /\ NothingPlanned.lines = 0
  /\ NothingDone.files = {} /\ NothingDone.changes = 0 /\ NothingDone.lines = 0
  /\ Cardinality(NothingDone.files) = 0
<1>1. NothingDone.files = {}
  BY DEF NothingDone
<1>2. Cardinality(NothingDone.files) = 0
  BY <1>1, FS_EmptySet
<1> QED
  BY <1>1, <1>2 DEF NothingDone, NothingPlanned

LEMMA InitTypeOK == Init => TypeOK
<1> SUFFICES ASSUME Init PROVE TypeOK
  OBVIOUS
<1>1. repo \in Build /\ tree \in Build /\ pack \in Packs
  BY RecipesAssumption DEF Init
<1>2. at \in 1..(Len(pack) + 1)
  BY <1>1, PackType DEF Init
<1>3. plan.files \subseteq Files /\ plan.lines \in Nat
  BY NothingIs DEF Init
<1>4. done.files \subseteq Files /\ done.lines \in Nat /\ done.changes \in Nat
  BY NothingIs DEF Init
<1>5. done.changes >= Cardinality(done.files)
  <2>1. done = NothingDone
    BY DEF Init
  <2>2. 0 >= 0
    OBVIOUS
  <2> QED
    BY <2>1, <2>2, NothingIs
<1>6. phase \in {"planning", "applying", "ended"} /\ committed \in BOOLEAN
  BY DEF Init
<1>7. round \in 1..2
  BY DEF Init
<1> QED
  BY <1>1, <1>2, <1>3, <1>4, <1>5, <1>6, <1>7 DEF TypeOK

LEMMA StepTypeOK == TypeOK /\ [Next]_vars => TypeOK'
<1> SUFFICES ASSUME TypeOK, [Next]_vars PROVE TypeOK'
  OBVIOUS
<1>1. CASE PlanRecipe
  <2>1. CASE AppliesTo(pack[at], tree)
    <3>1. /\ plan'.files = plan.files \cup Apply(pack[at], tree).files
          /\ plan'.lines = plan.lines + Apply(pack[at], tree).planned
      BY <1>1, <2>1 DEF PlanRecipe, Announced
    <3>2. plan'.files \subseteq Files /\ plan'.lines \in Nat
      BY <1>1, <2>1, <3>1, NextRecipe DEF PlanRecipe, TypeOK
    <3>3. at' \in 1..(Len(pack) + 1)
      BY <1>1, NextRecipe DEF PlanRecipe
    <3> QED
      BY <1>1, <3>2, <3>3 DEF PlanRecipe, TypeOK
  <2>2. CASE ~AppliesTo(pack[at], tree)
    <3>1. plan' = plan
      BY <1>1, <2>2 DEF PlanRecipe, Announced
    <3>2. at' \in 1..(Len(pack) + 1)
      BY <1>1, NextRecipe DEF PlanRecipe
    <3> QED
      BY <1>1, <3>1, <3>2 DEF PlanRecipe, TypeOK
  <2> QED
    BY <2>1, <2>2
<1>2. CASE BeginApply
  <2>1. at' \in 1..(Len(pack) + 1)
    BY <1>2, PackType DEF BeginApply, TypeOK
  <2> QED
    BY <1>2, <2>1 DEF BeginApply, TypeOK
<1>3. CASE ApplyRecipe
  <2>1. at' \in 1..(Len(pack) + 1)
    BY <1>3, NextRecipe DEF ApplyRecipe
  <2>2. CASE AppliesTo(pack[at], tree)
    <3> DEFINE s == Apply(pack[at], tree)
    <3>1. /\ tree' = s.tree /\ done'.files = done.files \cup s.files
          /\ done'.changes = done.changes + Cardinality(s.files)
          /\ done'.lines = done.lines + s.applied
      BY <1>3, <2>2 DEF ApplyRecipe, After
    <3>2. s.tree \in Build /\ s.files \subseteq Files /\ s.applied \in Nat
      BY <1>3, <2>2, NextRecipe DEF ApplyRecipe
    <3> HIDE DEF s
    <3>3. done.files \subseteq Files /\ done.changes \in Nat /\ done.changes >= Cardinality(done.files)
      BY DEF TypeOK
    <3>4. Cardinality(s.files) \in Nat /\ Cardinality(done.files) \in Nat
      BY <3>2, <3>3, FilesAreFinite
    <3>5. Cardinality(done.files \cup s.files) <= Cardinality(done.files) + Cardinality(s.files)
      BY <3>2, <3>3, UnionCounts
    <3>6. Cardinality(done.files \cup s.files) \in Nat
      BY <3>2, <3>3, FilesAreFinite
    <3>7. done'.changes \in Nat /\ done'.changes >= Cardinality(done'.files)
      BY <3>1, <3>3, <3>4, <3>5, <3>6
    <3>8. done'.files \subseteq Files /\ done'.lines \in Nat /\ tree' \in Build
      BY <3>1, <3>2, <3>3 DEF TypeOK
    <3> QED
      BY <1>3, <2>1, <3>7, <3>8 DEF ApplyRecipe, TypeOK
  <2>3. CASE ~AppliesTo(pack[at], tree)
    BY <1>3, <2>1, <2>3 DEF ApplyRecipe, TypeOK
  <2> QED
    BY <2>2, <2>3
<1>4. CASE CommitAll
  BY <1>4 DEF CommitAll, AllApplied, TypeOK
<1>5. CASE RunAgain
  <2>1. at' \in 1..(Len(pack) + 1)
    BY <1>5, PackType DEF RunAgain, TypeOK
  <2>2. plan'.files \subseteq Files /\ plan'.lines \in Nat
    BY <1>5, NothingIs DEF RunAgain
  <2>3. done'.files \subseteq Files /\ done'.lines \in Nat /\ done'.changes \in Nat
    BY <1>5, NothingIs DEF RunAgain
  <2>4. done'.changes >= Cardinality(done'.files)
    <3>1. done' = NothingDone
      BY <1>5 DEF RunAgain
    <3>2. 0 >= 0
      OBVIOUS
    <3> QED
      BY <3>1, <3>2, NothingIs
  <2>5. phase' \in {"planning", "applying", "ended"} /\ committed' \in BOOLEAN
    BY <1>5 DEF RunAgain
  <2>6. round' \in 1..2 /\ repo' \in Build /\ tree' \in Build /\ pack' \in Packs /\ pack' = pack
    BY <1>5 DEF RunAgain, TypeOK
  <2> QED
    BY <2>1, <2>2, <2>3, <2>4, <2>5, <2>6 DEF TypeOK
<1>6. CASE UNCHANGED vars
  BY <1>6 DEF vars, TypeOK
<1> QED
  BY <1>1, <1>2, <1>3, <1>4, <1>5, <1>6 DEF Next

(* Through every recipe of every pack the repository keeps its shape, and no  *)
(* fewer changes are counted than files.                                      *)
THEOREM RecipeTypes == Spec => []TypeOK
<1>1. Init => TypeOK
  BY InitTypeOK
<1>2. TypeOK /\ [Next]_vars => TypeOK'
  BY StepTypeOK
<1> QED
  BY <1>1, <1>2, PTL DEF Spec

-----------------------------------------------------------------------------
(* Scope.                                                                     *)

LEMMA SameScope ==
  ASSUME NEW t, NEW u, u.kind = t.kind
  PROVE  Scope(u) = Scope(t)
BY DEF Scope

LEMMA StepStaysInScope == TypeOK /\ StaysInScope /\ [Next]_vars => StaysInScope'
<1> SUFFICES ASSUME TypeOK, StaysInScope, [Next]_vars PROVE StaysInScope'
  OBVIOUS
<1>1. CASE PlanRecipe
  <2>1. CASE AppliesTo(pack[at], tree)
    <3>1. plan'.files = plan.files \cup Apply(pack[at], tree).files
      BY <1>1, <2>1 DEF PlanRecipe, Announced
    <3>2. Apply(pack[at], tree).files \subseteq Scope(tree)
      BY <1>1, <2>1, NextRecipe DEF PlanRecipe
    <3> QED
      BY <1>1, <3>1, <3>2 DEF PlanRecipe, StaysInScope
  <2>2. CASE ~AppliesTo(pack[at], tree)
    BY <1>1, <2>2 DEF PlanRecipe, Announced, StaysInScope
  <2> QED
    BY <2>1, <2>2
<1>2. CASE BeginApply
  BY <1>2 DEF BeginApply, StaysInScope
<1>3. CASE ApplyRecipe
  <2>1. CASE AppliesTo(pack[at], tree)
    <3>1. tree' = Apply(pack[at], tree).tree
          /\ done'.files = done.files \cup Apply(pack[at], tree).files
      BY <1>3, <2>1 DEF ApplyRecipe, After
    <3>2. Apply(pack[at], tree).files \subseteq Scope(tree) /\ pack[at] \in Recipes
      BY <1>3, <2>1, NextRecipe DEF ApplyRecipe
    <3>3. Scope(tree') = Scope(tree)
      BY <3>1, <3>2, RecipeIs, SameScope DEF Sound, Onward, Ahead, TypeOK
    <3> QED
      BY <1>3, <3>1, <3>2, <3>3 DEF ApplyRecipe, StaysInScope
  <2>2. CASE ~AppliesTo(pack[at], tree)
    BY <1>3, <2>2 DEF ApplyRecipe, StaysInScope
  <2> QED
    BY <2>1, <2>2
<1>4. CASE CommitAll
  BY <1>4 DEF CommitAll, StaysInScope
<1>5. CASE RunAgain
  BY <1>5, NothingIs DEF RunAgain, StaysInScope
<1>6. CASE UNCHANGED vars
  BY <1>6 DEF vars, StaysInScope
<1> QED
  BY <1>1, <1>2, <1>3, <1>4, <1>5, <1>6 DEF Next

(* Whatever the pack, what a run plans and what it changes is in the scope    *)
(* that the merge checklist allows for the repository's kind.                 *)
THEOREM EditsAreInScope == Spec => []StaysInScope
<1>1. Init => TypeOK /\ StaysInScope
  BY InitTypeOK, NothingIs DEF Init, StaysInScope
<1>2. (TypeOK /\ StaysInScope) /\ [Next]_vars => (TypeOK /\ StaysInScope)'
  BY StepTypeOK, StepStaysInScope
<1> QED
  BY <1>1, <1>2, PTL DEF Spec

-----------------------------------------------------------------------------
(* What is written is onward of what the repository holds.                    *)

(* A step of the apply phase, on the tree that the earlier ones left.         *)
LEMMA ApplyOnward ==
  ASSUME TypeOK, Moving, ApplyRecipe
  PROVE  /\ tree' \in Build /\ Onward(tree, tree') /\ Onward(repo, tree')
         /\ pack[at] # "namespace" => NoNew(tree, tree')
<1>1. at \in 1..Len(pack) /\ pack[at] \in Recipes
  BY NextRecipe DEF ApplyRecipe
<1>2. tree \in Build /\ repo \in Build /\ Onward(repo, tree)
  BY DEF TypeOK, ApplyRecipe, Moving
<1>3. CASE AppliesTo(pack[at], tree)
  <2>1. tree' = Apply(pack[at], tree).tree
    BY <1>3 DEF ApplyRecipe
  <2>2. tree' \in Build /\ Onward(tree, tree') /\ (pack[at] # "namespace" => NoNew(tree, tree'))
    BY <1>1, <1>2, <2>1, RecipeIs DEF Sound
  <2> QED
    BY <1>2, <2>2, OnwardTrans
<1>4. CASE ~AppliesTo(pack[at], tree)
  <2>1. tree' = tree
    BY <1>4 DEF ApplyRecipe
  <2> QED
    BY <1>2, <2>1, OnwardRefl, SameTestsNoNew
<1> QED
  BY <1>3, <1>4

LEMMA StepMoving == TypeOK /\ Moving /\ [Next]_vars => Moving'
<1> SUFFICES ASSUME TypeOK, Moving, [Next]_vars PROVE Moving'
  OBVIOUS
<1>1. CASE PlanRecipe
  BY <1>1 DEF PlanRecipe, Moving
<1>2. CASE BeginApply
  <2>1. tree' = repo' /\ phase' = "applying"
    BY <1>2 DEF BeginApply, Moving
  <2> QED
    BY <2>1, OnwardRefl, SameTestsNoNew DEF Moving
<1>3. CASE ApplyRecipe
  <2>1. Onward(repo, tree') /\ (pack[at] # "namespace" => NoNew(tree, tree'))
    BY <1>3, ApplyOnward
  <2>2. /\ phase = "applying" /\ phase' = "applying" /\ repo' = repo /\ pack' = pack
        /\ HasRecipe("namespace") \/ NoNew(repo, tree)
    BY <1>3 DEF ApplyRecipe, Moving
  <2>3. HasRecipe("namespace")' <=> HasRecipe("namespace")
    BY <2>2 DEF HasRecipe
  <2>4. HasRecipe("namespace") \/ pack[at] # "namespace"
    BY <1>3, NextRecipe, PackType DEF HasRecipe, ApplyRecipe, TypeOK
  <2>5. HasRecipe("namespace") \/ NoNew(repo, tree')
    BY <2>1, <2>2, <2>4 DEF NoNew
  <2> QED
    BY <2>1, <2>2, <2>3, <2>5 DEF Moving
<1>4. CASE CommitAll
  BY <1>4 DEF CommitAll, Moving
<1>5. CASE RunAgain
  BY <1>5 DEF RunAgain, Moving
<1>6. CASE UNCHANGED vars
  BY <1>6 DEF vars, Moving, HasRecipe
<1> QED
  BY <1>1, <1>2, <1>3, <1>4, <1>5, <1>6 DEF Next

LEMMA InitMoving == Init => Moving
BY DEF Init, Moving

(* In every state: the plan is made on the repository as it is, and applying  *)
(* takes it onward (engine.ts 12-48).                                         *)
THEOREM Movement == Spec => [](TypeOK /\ Moving)
<1>1. Init => TypeOK /\ Moving
  BY InitTypeOK, InitMoving
<1>2. (TypeOK /\ Moving) /\ [Next]_vars => (TypeOK /\ Moving)'
  BY StepTypeOK, StepMoving
<1> QED
  BY <1>1, <1>2, PTL DEF Spec

LEMMA PluginsKeepTheirOrder ==
  ASSUME TypeOK, Moving, phase = "applying", NEW i \in DOMAIN repo.pom.plugins
  PROVE  /\ repo.pom.plugins[i] \in Plugin /\ tree.pom.plugins[i] \in Plugin
         /\ PluginOnward(repo.pom.plugins[i], tree.pom.plugins[i], Spans(repo.pom.plugins, i))
<1>1. PluginsOnward(repo.pom.plugins, tree.pom.plugins)
  BY DEF Moving, Onward, Ahead, PomOnward
<1>2. i \in 1..Len(repo.pom.plugins) /\ i \in 1..Len(tree.pom.plugins)
  BY <1>1, PluginsType DEF PluginsOnward, TypeOK
<1> QED
  BY <1>1, <1>2, PluginsType DEF PluginsOnward, TypeOK

(* No recipe, in whatever pack, lowers the version of the wrapper or of a     *)
(* plugin, except that SurefireSafe sets its own.                             *)
THEOREM VersionsGoUp == Spec => []NothingIsDowngraded
<1>1. TypeOK /\ Moving => NothingIsDowngraded
  <2> SUFFICES ASSUME TypeOK, Moving, phase = "applying"
               PROVE  /\ tree.wrapper >= repo.wrapper
                      /\ \A i \in DOMAIN repo.pom.plugins :
                           LET old == repo.pom.plugins[i]
                               new == tree.pom.plugins[i]
                           IN \/ new.own >= old.own /\ new.nested >= old.nested
                              \/ old.artifact = "surefire" /\ Version(new) = Base
    BY DEF NothingIsDowngraded
  <2>1. tree.wrapper >= repo.wrapper
    <3>1. repo.wrapper \in Versions /\ tree.wrapper \in Versions
      BY DEF TypeOK, Build
    <3>2. tree.wrapper = repo.wrapper \/ (Lower(repo.wrapper) /\ tree.wrapper = Base)
      BY DEF Moving, Onward, Ahead, GradleOnward
    <3> QED
      BY <3>1, <3>2 DEF Versions, NoVersion, Base, Lower
  <2>2. ASSUME NEW old \in Plugin, NEW new \in Plugin, NEW s, PluginOnward(old, new, s)
        PROVE  \/ new.own >= old.own /\ new.nested >= old.nested
               \/ old.artifact = "surefire" /\ Version(new) = Base
    <3>1. /\ old.own \in Versions /\ old.nested \in Versions
          /\ new.own \in Versions /\ new.nested \in Versions
      BY PluginTypes
    <3>2. CASE new.own = old.own /\ new.nested = old.nested
      BY <3>1, <3>2 DEF Versions, NoVersion, Base
    <3>3. CASE Rebased(old, new)
      <4>1. Version(new) = Base
        BY <2>2, <3>3, VersionOnward
      <4>2. CASE old.artifact = "surefire"
        BY <4>1, <4>2
      <4>3. CASE Lower(Version(old))
        BY <3>1, <3>3, <4>3 DEF Rebased, Version, NestedIsRead, Lower, Versions, NoVersion, Base
      <4> QED
        BY <3>3, <4>2, <4>3 DEF Rebased
    <3> QED
      BY <2>2, <3>2, <3>3 DEF PluginOnward
  <2>3. ASSUME NEW i \in DOMAIN repo.pom.plugins
        PROVE  \/ tree.pom.plugins[i].own >= repo.pom.plugins[i].own
                    /\ tree.pom.plugins[i].nested >= repo.pom.plugins[i].nested
               \/ repo.pom.plugins[i].artifact = "surefire" /\ Version(tree.pom.plugins[i]) = Base
    BY <2>2, PluginsKeepTheirOrder
  <2> QED
    BY <2>1, <2>3
<1> QED
  BY <1>1, Movement, PTL

-----------------------------------------------------------------------------
(* The plan announces what is applied. f[i] is what the plan had announced    *)
(* before the i-th recipe of the pack.                                        *)

LinesOf(i) == IF AppliesTo(pack[i], repo) THEN Apply(pack[i], repo).planned ELSE 0

Sums(f, n) == \A i \in 1..Len(pack) : i < n => f[i + 1] = f[i] + LinesOf(i)
Below(f, n) == \A i \in 1..n : f[i] <= plan.lines
FilesBefore(n) ==
  \A i \in 1..Len(pack) :
    i < n /\ AppliesTo(pack[i], repo) => Apply(pack[i], repo).files \subseteq plan.files

Planning(f) == Sums(f, at) /\ Below(f, at) /\ FilesBefore(at) /\ f[at] = plan.lines

Applying(f) ==
  /\ Sums(f, Len(pack) + 1) /\ Below(f, Len(pack) + 1) /\ FilesBefore(Len(pack) + 1)
  /\ ~NashornIsMoved => done.lines <= f[at] /\ done.files \subseteq plan.files

History(f) ==
  /\ f[1] = 0
  /\ phase = "planning" => Planning(f)
  /\ phase = "applying" => Applying(f)

Covering == \E f \in [1..(Len(pack) + 1) -> Nat] : History(f)

LEMMA LinesType ==
  ASSUME TypeOK, NEW i \in 1..Len(pack)
  PROVE  LinesOf(i) \in Nat
BY RecipeIs, PackType DEF LinesOf, TypeOK, Sound

(* The plan covers each recipe, on whatever those before it left.             *)
LEMMA TreeCovered ==
  ASSUME TypeOK, Moving, phase = "applying", ~NashornIsMoved, NEW i \in 1..Len(pack)
  PROVE  Covered(Apply(pack[i], repo), Apply(pack[i], tree))
<1>1. pack[i] \in Recipes /\ repo \in Build /\ tree \in Build /\ Onward(repo, tree)
  BY PackType DEF TypeOK, Moving
<1>2. NoNew(repo, tree)
  <2>1. CASE ~HasRecipe("namespace")
    BY <2>1 DEF Moving
  <2>2. CASE HasRecipe("namespace")
    <3>1. \A f \in {"A", "B"} : ~UsesJdk(repo.tests[f])
      BY <1>1, <2>2, TestsType DEF NashornIsMoved, UsesJdk
    <3>2. TestsOnward(repo, tree)
      BY <1>1 DEF Onward, Ahead
    <3> QED
      BY <3>1, <3>2 DEF TestsOnward, FileOnward, NoNew
  <2> QED
    BY <2>1, <2>2
<1>3. Ahead(repo, tree) /\ PropertiesOnward(repo, tree)
  BY <1>1 DEF Onward
<1> QED
  BY <1>1, <1>2, <1>3, RecipeCovered

LEMMA InitCovering == Init => Covering
<1> SUFFICES ASSUME Init PROVE Covering
  OBVIOUS
<1> DEFINE f == [i \in 1..(Len(pack) + 1) |-> 0]
<1>1. TypeOK
  BY InitTypeOK
<1>2. Len(pack) \in Nat
  BY <1>1, PackType DEF TypeOK
<1>3. f \in [1..(Len(pack) + 1) -> Nat] /\ f[1] = 0
  BY <1>2
<1>4. at = 1 /\ phase = "planning" /\ plan.lines = 0
  BY NothingIs DEF Init
<1> HIDE DEF f
<1>5. Planning(f)
  BY <1>2, <1>3, <1>4 DEF Planning, Sums, Below, FilesBefore
<1>6. History(f)
  BY <1>3, <1>4, <1>5 DEF History
<1> QED
  BY <1>3, <1>6 DEF Covering

LEMMA StepCovering == TypeOK /\ Moving /\ Covering /\ [Next]_vars => Covering'
<1> SUFFICES ASSUME TypeOK, Moving, Covering, [Next]_vars PROVE Covering'
  OBVIOUS
<1> USE DEF Covering
<1>1. PICK f \in [1..(Len(pack) + 1) -> Nat] : History(f)
  OBVIOUS
<1>2. pack \in Packs /\ Len(pack) \in Nat /\ at \in 1..(Len(pack) + 1) /\ plan.lines \in Nat
  BY PackType DEF TypeOK
<1>3. CASE PlanRecipe
  <2>1. /\ at \in 1..Len(pack) /\ at' = at + 1 /\ pack' = pack /\ repo' = repo
        /\ phase = "planning" /\ phase' = "planning" /\ tree = repo
    BY <1>2, <1>3, NextRecipe DEF PlanRecipe, Moving
  <2>2. Planning(f) /\ f[1] = 0
    BY <1>1, <2>1 DEF History
  <2>3. LinesOf(at) \in Nat /\ pack[at] \in Recipes
    BY <1>2, <2>1, LinesType, PackType
  <2>4. plan'.lines = plan.lines + LinesOf(at)
    BY <1>2, <1>3, <2>1 DEF PlanRecipe, Announced, LinesOf
  <2>5. /\ plan.files \subseteq plan'.files
        /\ AppliesTo(pack[at], repo) => Apply(pack[at], repo).files \subseteq plan'.files
    BY <1>3, <2>1 DEF PlanRecipe, Announced
  <2>6. PICK g \in [1..(Len(pack) + 1) -> Nat] :
          /\ g[at + 1] = plan'.lines
          /\ \A i \in 1..(Len(pack) + 1) : i # at + 1 => g[i] = f[i]
    <3> DEFINE h == [f EXCEPT ![at + 1] = plan'.lines]
    <3>1. h \in [1..(Len(pack) + 1) -> Nat]
      BY <1>2, <2>1, <2>3, <2>4
    <3>2. h[at + 1] = plan'.lines /\ \A i \in 1..(Len(pack) + 1) : i # at + 1 => h[i] = f[i]
      BY <1>2, <2>1
    <3> QED
      BY <3>1, <3>2
  <2>7. \A i \in 1..Len(pack) : LinesOf(i)' = LinesOf(i)
    BY <2>1 DEF LinesOf
  <2>8. Sums(g, at)'
    <3> SUFFICES ASSUME NEW i \in 1..Len(pack), i < at + 1
                 PROVE  g[i + 1] = g[i] + LinesOf(i)
      BY <2>1, <2>7 DEF Sums
    <3>1. CASE i = at
      BY SMTT(30), <1>2, <2>1, <2>2, <2>4, <2>6, <3>1 DEF Planning
    <3>2. CASE i < at
      <4>1. g[i + 1] = f[i + 1] /\ g[i] = f[i]
        BY <1>2, <2>1, <2>6, <3>2
      <4> QED
        BY <2>2, <3>2, <4>1 DEF Planning, Sums
    <3> QED
      BY <1>2, <2>1, <3>1, <3>2
  <2>9. Below(g, at)'
    <3> SUFFICES ASSUME NEW i \in 1..(at + 1)
                 PROVE  g[i] <= plan'.lines
      BY <2>1 DEF Below
    <3>1. CASE i = at + 1
      BY <1>2, <2>3, <2>4, <2>6, <3>1
    <3>2. CASE i \in 1..at
      <4>1. g[i] = f[i] /\ f[i] <= plan.lines
        BY <1>2, <2>1, <2>2, <2>6, <3>2 DEF Planning, Below
      <4>2. f[i] \in Nat
        BY <1>2, <2>1, <3>2
      <4> QED
        BY <1>2, <2>3, <2>4, <4>1, <4>2
    <3> QED
      BY <1>2, <2>1, <3>1, <3>2
  <2>10. FilesBefore(at)'
    <3> SUFFICES ASSUME NEW i \in 1..Len(pack), i < at + 1, AppliesTo(pack[i], repo)
                 PROVE  Apply(pack[i], repo).files \subseteq plan'.files
      BY <2>1 DEF FilesBefore
    <3>1. CASE i = at
      BY <2>5, <3>1
    <3>2. CASE i < at
      BY <2>2, <2>5, <3>2 DEF Planning, FilesBefore
    <3> QED
      BY <1>2, <2>1, <3>1, <3>2
  <2>11. g[1] = 0
    BY <1>2, <2>1, <2>2, <2>6
  <2>12. History(g)'
    BY <2>1, <2>6, <2>8, <2>9, <2>10, <2>11 DEF History, Planning
  <2> QED
    BY <2>1, <2>6, <2>12
<1>4. CASE BeginApply
  <2>1. /\ at = Len(pack) + 1 /\ at' = 1 /\ pack' = pack /\ repo' = repo /\ plan' = plan
        /\ phase = "planning" /\ phase' = "applying" /\ done' = NothingDone
    BY <1>2, <1>4 DEF BeginApply, Moving
  <2>2. Planning(f) /\ f[1] = 0
    BY <1>1, <2>1 DEF History
  <2>3. \A i \in 1..Len(pack) : LinesOf(i)' = LinesOf(i)
    BY <2>1 DEF LinesOf
  <2>4. Sums(f, Len(pack) + 1)' /\ Below(f, Len(pack) + 1)' /\ FilesBefore(Len(pack) + 1)'
    BY <2>1, <2>2, <2>3 DEF Planning, Sums, Below, FilesBefore
  <2>5. done'.lines = 0 /\ done'.files = {}
    BY <2>1, NothingIs
  <2>6. done'.lines <= f[at'] /\ done'.files \subseteq plan'.files
    BY <2>1, <2>2, <2>5
  <2> QED
    BY <1>1, <2>1, <2>2, <2>4, <2>6 DEF History, Applying
<1>5. CASE ApplyRecipe
  <2>1. /\ at \in 1..Len(pack) /\ at' = at + 1 /\ pack' = pack /\ repo' = repo /\ plan' = plan
        /\ phase = "applying" /\ phase' = "applying" /\ pack[at] \in Recipes
    BY <1>2, <1>5, NextRecipe DEF ApplyRecipe
  <2>2. Applying(f) /\ f[1] = 0
    BY <1>1, <2>1 DEF History
  <2>3. \A i \in 1..Len(pack) : LinesOf(i)' = LinesOf(i)
    BY <2>1 DEF LinesOf
  <2>4. Sums(f, Len(pack) + 1)' /\ Below(f, Len(pack) + 1)' /\ FilesBefore(Len(pack) + 1)'
    BY <2>1, <2>2, <2>3 DEF Applying, Sums, Below, FilesBefore
  <2>5. NashornIsMoved' <=> NashornIsMoved
    BY <2>1 DEF NashornIsMoved, HasRecipe
  <2>6. ASSUME ~NashornIsMoved
        PROVE  done'.lines <= f[at'] /\ done'.files \subseteq plan'.files
    <3>1. done.lines <= f[at] /\ done.files \subseteq plan.files /\ done.lines \in Nat
      BY <2>2, <2>6 DEF Applying, TypeOK
    <3>2. f[at + 1] = f[at] + LinesOf(at) /\ f[at] \in Nat /\ LinesOf(at) \in Nat
      BY SMTT(30), <1>2, <2>1, <2>2, LinesType DEF Applying, Sums
    <3>3. repo.kind = tree.kind
      BY <2>1 DEF Moving, Onward, Ahead
    <3>4. CASE AppliesTo(pack[at], tree)
      <4>1. AppliesTo(pack[at], repo)
        BY <3>3, <3>4, SameApplies
      <4>2. Covered(Apply(pack[at], repo), Apply(pack[at], tree))
        BY <2>1, <2>6, TreeCovered
      <4>3. /\ done'.lines = done.lines + Apply(pack[at], tree).applied
            /\ done'.files = done.files \cup Apply(pack[at], tree).files
        BY <1>5, <3>4 DEF ApplyRecipe, After
      <4>4. Apply(pack[at], repo).files \subseteq plan.files
        BY <1>2, <2>1, <2>2, <4>1 DEF Applying, FilesBefore
      <4>5. LinesOf(at) = Apply(pack[at], repo).planned
        BY <4>1 DEF LinesOf
      <4>6. Apply(pack[at], tree).applied \in Nat
        BY <1>5, NextRecipe DEF ApplyRecipe
      <4> QED
        BY <2>1, <3>1, <3>2, <4>2, <4>3, <4>4, <4>5, <4>6 DEF Covered
    <3>5. CASE ~AppliesTo(pack[at], tree)
      <4>1. done' = done
        BY <1>5, <3>5 DEF ApplyRecipe
      <4> QED
        BY <2>1, <3>1, <3>2, <4>1
    <3> QED
      BY <3>4, <3>5
  <2> QED
    BY <1>1, <2>1, <2>2, <2>4, <2>5, <2>6 DEF History, Applying
<1>6. CASE CommitAll
  <2>1. phase' = "ended" /\ pack' = pack /\ f[1] = 0
    BY <1>1, <1>6 DEF CommitAll, History
  <2> QED
    BY <1>1, <2>1 DEF History
<1>7. CASE RunAgain
  <2>1. at' = 1 /\ phase' = "planning" /\ plan'.lines = 0 /\ pack' = pack
    BY <1>7, NothingIs DEF RunAgain
  <2>2. PICK g \in [1..(Len(pack) + 1) -> Nat] : g[1] = 0
    <3> DEFINE h == [i \in 1..(Len(pack) + 1) |-> 0]
    <3>1. h \in [1..(Len(pack) + 1) -> Nat] /\ h[1] = 0
      BY <1>2
    <3> QED
      BY <3>1
  <2>3. Planning(g)'
    BY <1>2, <2>1, <2>2 DEF Planning, Sums, Below, FilesBefore
  <2>4. History(g)'
    BY <2>1, <2>2, <2>3 DEF History
  <2> QED
    BY <2>1, <2>2, <2>4
<1>8. CASE UNCHANGED vars
  <2>1. History(f)'
    BY <1>1, <1>8 DEF vars, History, Planning, Applying, Sums, Below, FilesBefore, LinesOf,
                      NashornIsMoved, HasRecipe
  <2> QED
    BY <1>1, <1>8, <2>1 DEF vars
<1> QED
  BY <1>3, <1>4, <1>5, <1>6, <1>7, <1>8 DEF Next

(* The plan, on which the policy's limits are checked, announces every file   *)
(* that applying the pack changes and at least as many lines, whatever the    *)
(* recipes before it made of the files: but for nashorn-core, when the pack   *)
(* itself brings in the namespace that needs it.                              *)
THEOREM PlansAnnounceAll == Spec => []PlanCoversApply
<1>1. Init => TypeOK /\ Moving /\ Covering
  BY InitTypeOK, InitMoving, InitCovering
<1>2. (TypeOK /\ Moving /\ Covering) /\ [Next]_vars => (TypeOK /\ Moving /\ Covering)'
  BY StepTypeOK, StepMoving, StepCovering
<1>3. TypeOK /\ Moving /\ Covering => PlanCoversApply
  <2> SUFFICES ASSUME TypeOK, Covering, phase = "applying", ~NashornIsMoved
               PROVE  done.files \subseteq plan.files /\ done.lines <= plan.lines
    BY DEF PlanCoversApply
  <2>1. PICK f \in [1..(Len(pack) + 1) -> Nat] : History(f)
    BY DEF Covering
  <2>2. Applying(f)
    BY <2>1 DEF History
  <2>3. at \in 1..(Len(pack) + 1) /\ Len(pack) \in Nat /\ done.lines \in Nat /\ plan.lines \in Nat
    BY PackType DEF TypeOK
  <2>4. f[at] \in Nat /\ f[at] <= plan.lines
    BY <2>2, <2>3 DEF Applying, Below
  <2> QED
    BY <2>2, <2>3, <2>4 DEF Applying
<1> QED
  BY <1>1, <1>2, <1>3, PTL DEF Spec

-----------------------------------------------------------------------------
(* A second run changes nothing.                                              *)

(* A recipe with nothing to do in t has nothing to do in what became of t.    *)
LEMMA SettledOnward ==
  ASSUME NEW t \in Build, NEW u \in Build, Ahead(t, u), NEW recipe \in Recipes,
         recipe = "properties" => PropertiesOnward(t, u),
         recipe = "nashorn-core" => NoNew(t, u), Settled(recipe, t)
  PROVE  Settled(recipe, u)
<1>1. AppliesTo(recipe, u) <=> AppliesTo(recipe, t)
  BY SameApplies DEF Ahead
<1>2. Apply(recipe, u).files \subseteq Apply(recipe, t).files
  BY RecipeCovered DEF Covered
<1> QED
  BY <1>1, <1>2 DEF Settled

(* A tree that differs in its properties at most.                             *)
LEMMA ButForProperties ==
  ASSUME NEW t \in Build, NEW u \in Build, u = [t EXCEPT !.properties = u.properties]
  PROVE  Ahead(t, u) /\ Ahead(u, t) /\ NoNew(t, u) /\ NoNew(u, t)
<1>1. /\ u.kind = t.kind /\ u.pom = t.pom /\ u.tests = t.tests /\ u.wrapper = t.wrapper
      /\ u.groovy = t.groovy /\ u.kotlin = t.kotlin
  BY DEF Build
<1>2. NoNew(t, u) /\ NoNew(u, t) /\ TestsOnward(t, u) /\ TestsOnward(u, t)
  BY <1>1, SameTestsNoNew, SameTests
<1>3. GradleOnward(t, u) /\ GradleOnward(u, t)
  BY <1>1, SameGradle
<1>4. PomOnward(t.pom, u.pom) /\ PomOnward(u.pom, t.pom)
  BY <1>1, SamePom
<1> QED
  BY <1>1, <1>2, <1>3, <1>4 DEF Ahead

LEMMA StepAppliedSettled == TypeOK /\ Moving /\ AppliedSettled /\ [Next]_vars => AppliedSettled'
<1> SUFFICES ASSUME TypeOK, Moving, AppliedSettled, [Next]_vars PROVE AppliedSettled'
  OBVIOUS
<1>1. CASE PlanRecipe
  BY <1>1 DEF PlanRecipe, AppliedSettled
<1>2. CASE BeginApply
  BY <1>2 DEF BeginApply, AppliedSettled, SettledBefore
<1>3. CASE ApplyRecipe
  <2> SUFFICES ASSUME NEW i \in 1..Len(pack), i < at + 1
               PROVE  Settled(pack[i], tree')
    BY <1>3 DEF ApplyRecipe, AppliedSettled, SettledBefore
  <2>1. at \in 1..Len(pack) /\ pack[at] \in Recipes /\ pack[i] \in Recipes /\ tree \in Build
    BY <1>3, NextRecipe, PackType DEF ApplyRecipe, TypeOK
  <2>2. CASE i = at
    <3>1. CASE AppliesTo(pack[at], tree)
      BY <1>3, <2>1, <2>2, <3>1, RecipeIs DEF ApplyRecipe, Settled
    <3>2. CASE ~AppliesTo(pack[at], tree)
      BY <1>3, <2>2, <3>2 DEF ApplyRecipe, Settled
    <3> QED
      BY <3>1, <3>2
  <2>3. CASE i < at
    <3>1. Settled(pack[i], tree)
      BY <1>3, <2>3 DEF ApplyRecipe, AppliedSettled, SettledBefore
    <3>2. tree' \in Build /\ Onward(tree, tree') /\ (pack[at] # "namespace" => NoNew(tree, tree'))
      BY <1>3, ApplyOnward
    <3>3. ~(pack[i] = "nashorn-core" /\ pack[at] = "namespace")
      <4> SUFFICES ASSUME pack[i] = "nashorn-core" /\ pack[at] = "namespace" PROVE FALSE
        OBVIOUS
      <4>1. at < i
        BY <2>1, PackType DEF TypeOK
      <4> QED
        BY <2>1, <2>3, <4>1
    <3> QED
      BY <2>1, <3>1, <3>2, <3>3, SettledOnward DEF Onward
  <2> QED
    BY <2>1, <2>2, <2>3
<1>4. CASE CommitAll
  BY <1>4 DEF CommitAll, AppliedSettled
<1>5. CASE RunAgain
  BY <1>5 DEF RunAgain, AppliedSettled
<1>6. CASE UNCHANGED vars
  BY <1>6 DEF vars, AppliedSettled, SettledBefore
<1> QED
  BY <1>1, <1>2, <1>3, <1>4, <1>5, <1>6 DEF Next

LEMMA StepDoneSays == TypeOK /\ Moving /\ DoneSays /\ [Next]_vars => DoneSays'
<1> SUFFICES ASSUME TypeOK, Moving, DoneSays, [Next]_vars PROVE DoneSays'
  OBVIOUS
<1>1. CASE PlanRecipe
  BY <1>1 DEF PlanRecipe, DoneSays
<1>2. CASE BeginApply
  <2>1. tree' = repo' /\ repo' \in Build
    BY <1>2 DEF BeginApply, Moving, TypeOK
  <2>2. tree' = [repo' EXCEPT !.properties = tree'.properties]
    BY <2>1 DEF Build
  <2> QED
    BY <2>1, <2>2 DEF DoneSays
<1>3. CASE ApplyRecipe
  <2>1. /\ pack[at] \in Recipes /\ tree \in Build /\ repo \in Build
        /\ phase = "applying" /\ repo' = repo
    BY <1>3, NextRecipe DEF ApplyRecipe, TypeOK
  <2>2. CASE AppliesTo(pack[at], tree)
    <3> DEFINE s == Apply(pack[at], tree)
    <3>1. done'.files = done.files \cup s.files /\ tree' = s.tree
      BY <1>3, <2>2 DEF ApplyRecipe, After
    <3>2. s.files = {} => s.tree = tree
      BY <2>1, RecipeIs DEF Sound
    <3>3. s.files \subseteq FilesOf(pack[at]) /\ s.tree \in Build
      BY <2>1, RecipeIs DEF Sound
    <3>4. pack[at] = "properties" => s.tree = [tree EXCEPT !.properties = s.tree.properties]
      BY <2>1, ApplyIs, GuardedPropertiesBaselineIs
    <3> HIDE DEF s
    <3>5. done'.files = {} => tree' = repo
      BY <2>1, <3>1, <3>2 DEF DoneSays
    <3>6. ASSUME done'.files \subseteq {"properties"}
          PROVE  tree' = [repo EXCEPT !.properties = tree'.properties]
      <4>1. tree = [repo EXCEPT !.properties = tree.properties]
        BY <2>1, <3>1, <3>6 DEF DoneSays
      <4>2. CASE pack[at] = "properties"
        <5>1. tree' = [tree EXCEPT !.properties = tree'.properties]
          BY <3>1, <3>4, <4>2
        <5> QED
          BY <2>1, <4>1, <5>1 DEF Build
      <4>3. CASE pack[at] # "properties"
        <5>1. "properties" \notin FilesOf(pack[at])
          BY <4>3 DEF FilesOf
        <5>2. s.files = {}
          BY <3>1, <3>3, <3>6, <5>1
        <5> QED
          BY <3>1, <3>2, <4>1, <5>2
      <4> QED
        BY <4>2, <4>3
    <3> QED
      BY <2>1, <3>5, <3>6 DEF DoneSays
  <2>3. CASE ~AppliesTo(pack[at], tree)
    BY <1>3, <2>1, <2>3 DEF ApplyRecipe, DoneSays
  <2> QED
    BY <2>2, <2>3
<1>4. CASE CommitAll
  BY <1>4 DEF CommitAll, DoneSays
<1>5. CASE RunAgain
  BY <1>5 DEF RunAgain, DoneSays
<1>6. CASE UNCHANGED vars
  BY <1>6 DEF vars, DoneSays
<1> QED
  BY <1>1, <1>2, <1>3, <1>4, <1>5, <1>6 DEF Next

LEMMA StepQuietPlan == TypeOK /\ Moving /\ QuietPlan /\ [Next]_vars => QuietPlan'
<1> SUFFICES ASSUME TypeOK, Moving, QuietPlan, [Next]_vars PROVE QuietPlan'
  OBVIOUS
<1>0. at \in 1..(Len(pack) + 1) /\ Len(pack) \in Nat
  BY PackType DEF TypeOK
<1>1. CASE PlanRecipe
  <2>1. /\ at \in 1..Len(pack) /\ pack[at] \in Recipes /\ tree = repo /\ repo \in Build
        /\ at' = at + 1 /\ repo' = repo /\ pack' = pack /\ phase = "planning" /\ phase' = "planning"
    BY <1>1, NextRecipe DEF PlanRecipe, Moving, TypeOK
  <2> SUFFICES ASSUME SettledBefore(at, repo)' PROVE plan'.files = {} /\ plan'.lines = 0
    BY <2>1 DEF QuietPlan
  <2>2. SettledBefore(at, repo) /\ Settled(pack[at], repo)
    BY <1>0, <2>1 DEF SettledBefore
  <2>3. plan.files = {} /\ plan.lines = 0
    BY <2>1, <2>2 DEF QuietPlan
  <2>4. CASE AppliesTo(pack[at], repo)
    <3>1. Apply(pack[at], repo).files = {} /\ Apply(pack[at], repo).planned = 0
      BY <2>1, <2>2, <2>4, RecipeIs DEF Settled, Sound
    <3>2. /\ plan'.files = plan.files \cup Apply(pack[at], repo).files
          /\ plan'.lines = plan.lines + Apply(pack[at], repo).planned
      BY <1>1, <2>1, <2>4 DEF PlanRecipe, Announced
    <3> QED
      BY <2>3, <3>1, <3>2
  <2>5. CASE ~AppliesTo(pack[at], repo)
    BY <1>1, <2>1, <2>3, <2>5 DEF PlanRecipe, Announced
  <2> QED
    BY <2>4, <2>5
<1>2. CASE BeginApply
  <2>1. /\ at = Len(pack) + 1 /\ phase = "planning" /\ phase' = "applying"
        /\ repo' = repo /\ pack' = pack /\ plan' = plan
    BY <1>0, <1>2 DEF BeginApply
  <2>2. SettledBefore(Len(pack) + 1, repo)' => SettledBefore(at, repo)
    BY <2>1 DEF SettledBefore
  <2> QED
    BY <2>1, <2>2 DEF QuietPlan
<1>3. CASE ApplyRecipe
  <2>1. phase = "applying" /\ phase' = "applying" /\ repo' = repo /\ pack' = pack /\ plan' = plan
    BY <1>3 DEF ApplyRecipe
  <2>2. SettledBefore(Len(pack) + 1, repo)' => SettledBefore(Len(pack) + 1, repo)
    BY <2>1 DEF SettledBefore
  <2> QED
    BY <2>1, <2>2 DEF QuietPlan
<1>4. CASE CommitAll
  BY <1>4 DEF CommitAll, QuietPlan
<1>5. CASE RunAgain
  BY <1>5, NothingIs DEF RunAgain, QuietPlan
<1>6. CASE UNCHANGED vars
  BY <1>6 DEF vars, QuietPlan, SettledBefore
<1> QED
  BY <1>1, <1>2, <1>3, <1>4, <1>5, <1>6 DEF Next

LEMMA StepRerun ==
  TypeOK /\ Moving /\ AppliedSettled /\ DoneSays /\ Rerun /\ [Next]_vars => Rerun'
<1> SUFFICES ASSUME TypeOK, Moving, AppliedSettled, DoneSays, Rerun, [Next]_vars PROVE Rerun'
  OBVIOUS
<1> USE DEF AllSettled, ButProperties
<1>1. CASE PlanRecipe \/ BeginApply \/ ApplyRecipe
  BY <1>1 DEF PlanRecipe, BeginApply, ApplyRecipe, Rerun
<1>2. CASE CommitAll
  <2>1. /\ phase = "applying" /\ at = Len(pack) + 1 /\ pack' = pack
        /\ tree \in Build /\ repo \in Build /\ done.files \subseteq Files
        /\ \A i \in 1..Len(pack) : pack[i] \in Recipes
    BY <1>2, PackType DEF CommitAll, AllApplied, TypeOK
  <2>2. AllSettled(tree)
    <3> SUFFICES ASSUME NEW i \in 1..Len(pack) PROVE Settled(pack[i], tree)
      OBVIOUS
    <3>1. i < at
      BY <2>1, PackType DEF TypeOK
    <3> QED
      BY <2>1, <3>1 DEF AppliedSettled, SettledBefore
  <2>3. CASE committed'
    <3>1. repo' = tree
      BY <1>2, <2>3 DEF CommitAll
    <3> QED
      BY <2>1, <2>2, <3>1 DEF Rerun
  <2>4. CASE ~committed'
    <3>1. repo' = repo /\ done.files \cap Tracked(repo) = {}
      BY <1>2, <2>4 DEF CommitAll
    <3>2. done.files \subseteq {"properties"}
      BY <2>1, <3>1 DEF Tracked
    <3>3. repo.properties.text # "absent" => tree = repo
      BY <2>1, <3>1 DEF Tracked, DoneSays
    <3>4. Ahead(tree, repo) /\ NoNew(tree, repo)
      BY <2>1, <3>2, ButForProperties DEF DoneSays
    <3>5. ASSUME NEW i \in 1..Len(pack), pack[i] # "properties"
          PROVE  Settled(pack[i], repo)
      BY <2>1, <2>2, <3>4, <3>5, SettledOnward
    <3> QED
      BY <2>1, <2>2, <3>1, <3>3, <3>5 DEF Rerun
  <2> QED
    BY <2>3, <2>4
<1>3. CASE RunAgain
  BY <1>3 DEF RunAgain, Rerun
<1>4. CASE UNCHANGED vars
  BY <1>4 DEF vars, Rerun
<1> QED
  BY <1>1, <1>2, <1>3, <1>4 DEF Next

LEMMA StepAgain == TypeOK /\ Moving /\ DoneSays /\ Rerun /\ Again /\ [Next]_vars => Again'
<1> SUFFICES ASSUME TypeOK, Moving, DoneSays, Rerun, Again, [Next]_vars PROVE Again'
  OBVIOUS
<1> USE DEF AllSettled, ButProperties
<1>1. CASE PlanRecipe \/ BeginApply
  BY <1>1 DEF PlanRecipe, BeginApply, Again
<1>2. CASE ApplyRecipe
  <2> SUFFICES ASSUME round = 2
               PROVE  /\ done'.files \subseteq {"properties"}
                      /\ AllSettled(repo) => done'.files = {}
    BY <1>2 DEF ApplyRecipe, Again
  <2>1. /\ at \in 1..Len(pack) /\ pack[at] \in Recipes /\ tree \in Build /\ repo \in Build
        /\ phase = "applying"
    BY <1>2, NextRecipe DEF ApplyRecipe, TypeOK
  <2>2. done.files \subseteq {"properties"} /\ (AllSettled(repo) => done.files = {})
    BY <2>1 DEF Again
  <2>3. CASE AppliesTo(pack[at], tree)
    <3>1. done'.files = done.files \cup Apply(pack[at], tree).files
      BY <1>2, <2>3 DEF ApplyRecipe, After
    <3>2. Apply(pack[at], tree).files \subseteq {"properties"}
      <4>1. CASE pack[at] = "properties"
        BY <2>1, <4>1, RecipeIs DEF FilesOf
      <4>2. CASE pack[at] # "properties"
        <5>1. Settled(pack[at], repo)
          BY <2>1, <4>2 DEF Rerun
        <5>2. Ahead(repo, tree) /\ NoNew(repo, tree)
          BY <2>1, <2>2, ButForProperties DEF DoneSays
        <5> QED
          BY <2>1, <2>3, <4>2, <5>1, <5>2, SettledOnward DEF Settled
      <4> QED
        BY <4>1, <4>2
    <3>3. AllSettled(repo) => Apply(pack[at], tree).files = {}
      BY <2>1, <2>2, <2>3 DEF DoneSays, Settled
    <3> QED
      BY <2>2, <3>1, <3>2, <3>3
  <2>4. CASE ~AppliesTo(pack[at], tree)
    BY <1>2, <2>2, <2>4 DEF ApplyRecipe
  <2> QED
    BY <2>3, <2>4
<1>3. CASE CommitAll
  BY <1>3 DEF CommitAll, Again
<1>4. CASE RunAgain
  BY <1>4, NothingIs DEF RunAgain, Again
<1>5. CASE UNCHANGED vars
  BY <1>5 DEF vars, Again
<1> QED
  BY <1>1, <1>2, <1>3, <1>4, <1>5 DEF Next

Repeating == AppliedSettled /\ DoneSays /\ QuietPlan /\ Rerun /\ Again

(* On what a first run committed, a second of the same pack plans nothing and *)
(* changes nothing, or creates once more the gradle.properties that the first *)
(* run created and no commit holds.                                           *)
THEOREM SecondRunsAreNoops == Spec => []SecondRunIsNoop
<1>1. Init => TypeOK /\ Moving /\ Repeating
  <2>1. Init => AppliedSettled /\ DoneSays /\ QuietPlan /\ Rerun /\ Again
    BY NothingIs DEF Init, AppliedSettled, DoneSays, QuietPlan, Rerun, Again
  <2> QED
    BY <2>1, InitTypeOK, InitMoving DEF Repeating
<1>2. (TypeOK /\ Moving /\ Repeating) /\ [Next]_vars => (TypeOK /\ Moving /\ Repeating)'
  <2> SUFFICES ASSUME TypeOK, Moving, Repeating, [Next]_vars
               PROVE  (TypeOK /\ Moving /\ Repeating)'
    OBVIOUS
  <2>1. AppliedSettled /\ DoneSays /\ QuietPlan /\ Rerun /\ Again
    BY DEF Repeating
  <2>2. TypeOK' /\ Moving'
    BY StepTypeOK, StepMoving
  <2>3. AppliedSettled' /\ DoneSays' /\ QuietPlan' /\ Rerun' /\ Again'
    BY <2>1, StepAppliedSettled, StepDoneSays, StepQuietPlan, StepRerun, StepAgain
  <2> QED
    BY <2>2, <2>3 DEF Repeating
<1>3. TypeOK /\ Moving /\ Repeating => SecondRunIsNoop
  <2> SUFFICES ASSUME TypeOK, Repeating, round = 2, AllApplied
               PROVE  \/ done.files = {} /\ plan.files = {} /\ plan.lines = 0 /\ tree = repo
                      \/ Created
    BY DEF SecondRunIsNoop
  <2>1. /\ phase = "applying" /\ done.files \subseteq {"properties"}
        /\ AllSettled(repo) => done.files = {}
        /\ AllSettled(repo) \/ repo.properties.text = "absent"
    BY DEF AllApplied, Repeating, Again, Rerun
  <2>2. CASE AllSettled(repo)
    <3>1. SettledBefore(Len(pack) + 1, repo)
      BY <2>2 DEF AllSettled, SettledBefore
    <3>2. plan.files = {} /\ plan.lines = 0
      BY <2>1, <3>1 DEF Repeating, QuietPlan
    <3> QED
      BY <2>1, <2>2, <3>2 DEF Repeating, DoneSays
  <2>3. CASE ~AllSettled(repo) /\ done.files # {}
    BY <2>1, <2>3 DEF Created, Tracked
  <2>4. CASE ~AllSettled(repo) /\ done.files = {}
    <3>1. tree = repo
      BY <2>1, <2>4 DEF Repeating, DoneSays
    <3>2. AllSettled(tree)
      <4> SUFFICES ASSUME NEW i \in 1..Len(pack) PROVE Settled(pack[i], tree)
        BY DEF AllSettled
      <4>1. i < at
        BY PackType DEF AllApplied, TypeOK
      <4> QED
        BY <2>1, <4>1 DEF Repeating, AppliedSettled, SettledBefore
    <3> QED
      BY <2>4, <3>1, <3>2
  <2> QED
    BY <2>2, <2>3, <2>4
<1> QED
  BY <1>1, <1>2, <1>3, PTL DEF Spec

-----------------------------------------------------------------------------
(* Test sources find what they need after the test-compatibility pack (v2).   *)

(* A test source that this is promised of.                                    *)
Asked(f) ==
  /\ repo.tests[f].annotation = "Ignore"
  /\ repo.tests[f].imports \cap {"jdk", "openjdk", "junit4"} # {}

JunitResolves(t, f) ==
  /\ t.tests[f].annotation = "Ignore" => "junit4" \in t.tests[f].imports /\ "junit4" \in t.pom.project
  /\ t.tests[f].annotation = "Disabled" => "junit5" \in t.tests[f].imports /\ "junit5" \in t.pom.project

(* What holds of the tree when the n-th recipe of the pack is next: the       *)
(* namespace is the fifth, JUnit the sixth and nashorn-core the seventh.      *)
Stage(n, t) ==
  /\ ~DependenciesElsewhere(t)
  /\ n <= 5 => t.tests = repo.tests
  /\ n = 6 => \A f \in {"A", "B"} : Asked(f) =>
                /\ t.tests[f].annotation = "Ignore"
                /\ t.tests[f].imports \cap {"openjdk", "junit4"} # {}
  /\ n >= 7 => \A f \in {"A", "B"} : Asked(f) => JunitResolves(t, f)
  /\ n >= 8 => (Nashorn(t) => "nashorn" \in t.pom.project)

Staged ==
  phase = "applying" /\ tree.kind = "maven" /\ pack = TestCompatV2 /\ ~DependenciesElsewhere(repo)
    => Stage(at, tree)

LEMMA TestCompatV2Is ==
  /\ Len(TestCompatV2) = 10
  /\ \A i \in {1, 2, 3, 4, 8, 9, 10} : TestCompatV2[i] \in PluginRecipes
  /\ TestCompatV2[5] = "namespace" /\ TestCompatV2[6] = "junit-v2"
  /\ TestCompatV2[7] = "nashorn-core"
BY DEF TestCompatV2, PluginRecipes

LEMMA ImportingIs ==
  ASSUME NEW file \in TestFile, NEW from \in SUBSET Imports, NEW to \in Imports
  PROVE  /\ Importing(file, from, to) \in TestFile
         /\ Importing(file, from, to).annotation = file.annotation
         /\ Importing(file, from, to).imports =
              IF file.imports \cap from = {} THEN file.imports ELSE (file.imports \ from) \cup {to}
BY DEF Importing, TestFile

LEMMA PluginStage ==
  ASSUME NEW t \in Build, NEW n \in {1, 2, 3, 4, 8, 9, 10}, NEW recipe \in PluginRecipes,
         Stage(n, t)
  PROVE  Stage(n + 1, Apply(recipe, t).tree)
<1> DEFINE u == Apply(recipe, t).tree
<1>1. u.tests = t.tests /\ SameBlocks(t.pom, u.pom)
  BY PluginRecipeIs DEF PluginStep, PomOnly
<1> HIDE DEF u
<1>2. Nashorn(u) <=> Nashorn(t)
  BY <1>1 DEF Nashorn
<1>3. \A f \in {"A", "B"} : JunitResolves(u, f) <=> JunitResolves(t, f)
  BY <1>1 DEF JunitResolves, SameBlocks
<1>4. Stage(n + 1, u)
  BY <1>1, <1>2, <1>3 DEF Stage, DependenciesElsewhere, SameBlocks
<1> QED
  BY <1>4 DEF u

LEMMA NamespaceStage ==
  ASSUME NEW t \in Build, Stage(5, t)
  PROVE  Stage(6, Apply("namespace", t).tree)
<1> DEFINE u == NashornNamespaceRewrite(t).tree
<1>1. u \in Build /\ u.pom = t.pom
  BY NashornNamespaceRewriteIs DEF TestStep, TestsOnly, Sound
<1>2. \A f \in {"A", "B"} :
        u.tests[f] = [Importing(t.tests[f], {"jdk"}, "openjdk") EXCEPT
                        !.mentions = IF @ = "jdk" THEN "openjdk" ELSE @]
  BY NashornNamespaceRewriteIs
<1> HIDE DEF u
<1>3. ASSUME NEW f \in {"A", "B"}, Asked(f)
      PROVE  u.tests[f].annotation = "Ignore" /\ u.tests[f].imports \cap {"openjdk", "junit4"} # {}
  <2> DEFINE file == t.tests[f]
             moved == Importing(file, {"jdk"}, "openjdk")
  <2>1. file \in TestFile /\ file.annotation = "Ignore"
        /\ file.imports \cap {"jdk", "openjdk", "junit4"} # {}
    BY <1>3, TestsType DEF Stage, Asked
  <2>2. /\ moved \in TestFile /\ moved.annotation = file.annotation
        /\ moved.imports = IF file.imports \cap {"jdk"} = {} THEN file.imports
                           ELSE (file.imports \ {"jdk"}) \cup {"openjdk"}
    BY <2>1, ImportingIs DEF Imports
  <2>3. u.tests[f] = [moved EXCEPT !.mentions = IF @ = "jdk" THEN "openjdk" ELSE @]
    BY <1>2
  <2> HIDE DEF file, moved
  <2>4. u.tests[f].annotation = moved.annotation /\ u.tests[f].imports = moved.imports
    BY <2>2, <2>3 DEF TestFile
  <2> QED
    BY <2>1, <2>2, <2>4
<1>4. Stage(6, u)
  BY <1>1, <1>3 DEF Stage, DependenciesElsewhere
<1> QED
  BY <1>4, ApplyIs DEF u

LEMMA JunitStage ==
  ASSUME NEW t \in Build, Stage(6, t)
  PROVE  Stage(7, Apply("junit-v2", t).tree)
<1> DEFINE u == JunitIgnoreCompatV2(t).tree
<1>1. /\ t.pom.first = "project" /\ t.pom.elsewhere = {}
      /\ \A f \in {"A", "B"} : Asked(f) =>
           t.tests[f].annotation = "Ignore" /\ t.tests[f].imports \cap {"openjdk", "junit4"} # {}
  BY DEF Stage, DependenciesElsewhere
<1>2. CASE ~UsesIgnore(t)
  <2>1. u = t
    BY <1>2, UntouchedIs DEF JunitIgnoreCompatV2
  <2>2. \A f \in {"A", "B"} : ~Asked(f)
    BY <1>1, <1>2, TestsType DEF UsesIgnore
  <2> QED
    BY <1>1, <2>1, <2>2, ApplyIs DEF Stage, DependenciesElsewhere
<1>3. CASE UsesIgnore(t) /\ HasJunit5(t)
  <2> DEFINE known == {"jdk", "openjdk", "junit4"}
             v == MigrateIgnore(t, known).tree
  <2>1. JunitIgnoreCompatV2(t) = MigrateIgnore(t, known)
    BY <1>3 DEF JunitIgnoreCompatV2
  <2>2. /\ v.pom = t.pom
        /\ \A f \in {"A", "B"} :
             v.tests[f] = IF t.tests[f].annotation # "Ignore" THEN t.tests[f]
                          ELSE [Importing(t.tests[f], known, "junit5") EXCEPT !.annotation = "Disabled"]
    BY MigrateIgnoreIs DEF TestStep, TestsOnly
  <2> HIDE DEF v
  <2>3. "junit5" \in v.pom.project
    BY <1>1, <1>3, <2>2 DEF HasJunit5
  <2>4. ASSUME NEW f \in {"A", "B"}, Asked(f)
        PROVE  v.tests[f].annotation = "Disabled" /\ "junit5" \in v.tests[f].imports
    <3> DEFINE moved == Importing(t.tests[f], known, "junit5")
    <3>1. moved \in TestFile /\ "junit5" \in moved.imports
      <4>1. t.tests[f] \in TestFile /\ t.tests[f].imports \cap known # {}
        BY <1>1, <2>4, TestsType
      <4>2. moved = [t.tests[f] EXCEPT !.imports = (@ \ known) \cup {"junit5"}]
        BY <4>1 DEF Importing
      <4> QED
        BY <4>1, <4>2 DEF TestFile, Imports
    <3>2. v.tests[f] = [moved EXCEPT !.annotation = "Disabled"]
      BY <1>1, <2>2, <2>4
    <3> HIDE DEF moved
    <3> QED
      BY <3>1, <3>2 DEF TestFile
  <2>5. Stage(7, v)
    BY <1>1, <2>2, <2>3, <2>4 DEF Stage, DependenciesElsewhere, JunitResolves
  <2> QED
    BY <2>1, <2>5, ApplyIs DEF v
<1>4. CASE UsesIgnore(t) /\ ~HasJunit5(t)
  <2> DEFINE v == Normalized(t)
             w == Ensure(v, "junit4").tree
  <2>1. u = w
    BY <1>4, JunitV2Does DEF ThenJunit4
  <2>2. /\ v \in Build /\ v.pom = t.pom
        /\ \A f \in {"A", "B"} :
             v.tests[f] = IF t.tests[f].annotation # "Ignore" THEN t.tests[f]
                          ELSE Importing(t.tests[f], {"jdk", "openjdk"}, "junit4")
    BY NormalizedIs, NormalizeIgnoreImportsIs DEF Normalized
  <2> HIDE DEF v
  <2>3. /\ w \in Build /\ w.tests = v.tests /\ w.pom.first = v.pom.first
        /\ Present(w.pom, "junit4") /\ w.pom.elsewhere = {}
    BY <1>1, <2>2, EnsureIs
       DEF DependencyStep, PomOnly, Sound, Onward, Ahead, PomOnward, DependenciesOnward
  <2> HIDE DEF w
  <2>4. "junit4" \in w.pom.project /\ w.pom.first = "project"
    BY <1>1, <2>2, <2>3 DEF Present
  <2>5. ASSUME NEW f \in {"A", "B"}, Asked(f)
        PROVE  w.tests[f].annotation = "Ignore" /\ "junit4" \in w.tests[f].imports
    <3> DEFINE moved == Importing(t.tests[f], {"jdk", "openjdk"}, "junit4")
    <3>1. moved.annotation = "Ignore" /\ "junit4" \in moved.imports
      <4>1. /\ t.tests[f] \in TestFile /\ t.tests[f].annotation = "Ignore"
            /\ t.tests[f].imports \cap {"openjdk", "junit4"} # {}
        BY <1>1, <2>5, TestsType
      <4>2. CASE t.tests[f].imports \cap {"jdk", "openjdk"} = {}
        BY <4>1, <4>2 DEF Importing
      <4>3. CASE t.tests[f].imports \cap {"jdk", "openjdk"} # {}
        <5>1. moved = [t.tests[f] EXCEPT !.imports = (@ \ {"jdk", "openjdk"}) \cup {"junit4"}]
          BY <4>3 DEF Importing
        <5> QED
          BY <4>1, <5>1 DEF TestFile
      <4> QED
        BY <4>2, <4>3
    <3>2. w.tests[f] = moved
      BY <1>1, <2>2, <2>3, <2>5
    <3> QED
      BY <3>1, <3>2
  <2>6. Stage(7, w)
    BY <2>3, <2>4, <2>5 DEF Stage, DependenciesElsewhere, JunitResolves
  <2> QED
    BY <2>1, <2>6, ApplyIs
<1> QED
  BY <1>2, <1>3, <1>4

LEMMA NashornStage ==
  ASSUME NEW t \in Build, Stage(7, t)
  PROVE  Stage(8, Apply("nashorn-core", t).tree)
<1>1. t.pom.first = "project" /\ t.pom.elsewhere = {}
  BY DEF Stage, DependenciesElsewhere
<1>2. CASE ~Nashorn(t)
  <2>1. Apply("nashorn-core", t).tree = t
    BY <1>2, ApplyIs, NashornCoreDependencyDoes, UntouchedIs
  <2> QED
    BY <1>2, <2>1 DEF Stage
<1>3. CASE Nashorn(t)
  <2> DEFINE u == Ensure(t, "nashorn").tree
  <2>1. Apply("nashorn-core", t).tree = u
    BY <1>3, ApplyIs, NashornCoreDependencyDoes
  <2>2. /\ u.tests = t.tests /\ u.pom.first = t.pom.first /\ u.pom.elsewhere = {}
        /\ t.pom.project \subseteq u.pom.project /\ Present(u.pom, "nashorn")
    BY <1>1, EnsureIs
       DEF DependencyStep, PomOnly, Sound, Onward, Ahead, PomOnward, DependenciesOnward
  <2> HIDE DEF u
  <2>3. "nashorn" \in u.pom.project /\ ~DependenciesElsewhere(u)
    BY <1>1, <2>2 DEF Present, DependenciesElsewhere
  <2>4. \A f \in {"A", "B"} : JunitResolves(t, f) => JunitResolves(u, f)
    BY <2>2 DEF JunitResolves
  <2> QED
    BY <2>1, <2>3, <2>4 DEF Stage
<1> QED
  BY <1>2, <1>3

LEMMA StepStaged == TypeOK /\ Moving /\ Staged /\ [Next]_vars => Staged'
<1> SUFFICES ASSUME TypeOK, Moving, Staged, [Next]_vars PROVE Staged'
  OBVIOUS
<1>1. CASE PlanRecipe
  BY <1>1 DEF PlanRecipe, Staged
<1>2. CASE BeginApply
  <2>1. tree' = repo' /\ at' = 1
    BY <1>2 DEF BeginApply, Moving
  <2> QED
    BY <2>1 DEF Staged, Stage
<1>3. CASE ApplyRecipe
  <2> SUFFICES ASSUME tree'.kind = "maven", pack = TestCompatV2, ~DependenciesElsewhere(repo)
               PROVE  Stage(at + 1, tree')
    BY <1>3 DEF ApplyRecipe, Staged, Stage, Asked
  <2>1. tree.kind = "maven" /\ tree \in Build
    BY <1>3, ApplyOnward DEF Onward, Ahead, TypeOK
  <2>2. Stage(at, tree)
    BY <1>3, <2>1 DEF ApplyRecipe, Staged
  <2>3. at \in 1..10
    BY <1>3, NextRecipe, TestCompatV2Is DEF ApplyRecipe
  <2>4. pack[at] \in PluginRecipes \cup TestRecipes
    BY <2>3, TestCompatV2Is DEF TestRecipes
  <2>5. tree' = Apply(pack[at], tree).tree
    BY <1>3, <2>1, <2>4 DEF ApplyRecipe, AppliesTo, PluginRecipes, TestRecipes, GradleRecipes
  <2>6. CASE at \in {1, 2, 3, 4, 8, 9, 10}
    BY <2>1, <2>2, <2>5, <2>6, TestCompatV2Is, PluginStage
  <2>7. CASE at = 5
    BY <2>1, <2>2, <2>5, <2>7, TestCompatV2Is, NamespaceStage
  <2>8. CASE at = 6
    BY <2>1, <2>2, <2>5, <2>8, TestCompatV2Is, JunitStage
  <2>9. CASE at = 7
    BY <2>1, <2>2, <2>5, <2>9, TestCompatV2Is, NashornStage
  <2> QED
    BY <2>3, <2>6, <2>7, <2>8, <2>9
<1>4. CASE CommitAll
  BY <1>4 DEF CommitAll, Staged
<1>5. CASE RunAgain
  BY <1>5 DEF RunAgain, Staged
<1>6. CASE UNCHANGED vars
  BY <1>6 DEF vars, Staged, Stage, Asked
<1> QED
  BY <1>1, <1>2, <1>3, <1>4, <1>5, <1>6 DEF Next

(* After the test-compatibility pack (v2), a test source with an imported     *)
(* @Ignore has the import and the dependency of the JUnit whose annotation it *)
(* carries, and nashorn-core if it mentions Nashorn: of every repository      *)
(* whose dependencies are in the project's own block.                         *)
THEOREM TestSourcesResolve == Spec => []TestsResolve
<1>1. Init => TypeOK /\ Moving /\ Staged
  <2>1. Init => Staged
    BY DEF Init, Staged
  <2> QED
    BY <2>1, InitTypeOK, InitMoving
<1>2. (TypeOK /\ Moving /\ Staged) /\ [Next]_vars => (TypeOK /\ Moving /\ Staged)'
  BY StepTypeOK, StepMoving, StepStaged
<1>3. TypeOK /\ Staged => TestsResolve
  <2> SUFFICES ASSUME TypeOK, Staged, AllApplied, tree.kind = "maven", pack = TestCompatV2,
                      ~DependenciesElsewhere(repo), NEW f \in {"A", "B"}, Asked(f)
               PROVE  Resolves(tree, f)
    BY TestsType DEF TestsResolve, Asked, TypeOK
  <2>1. at > 10 /\ Stage(at, tree) /\ at \in Nat
    BY TestCompatV2Is DEF AllApplied, Staged, TypeOK
  <2>2. JunitResolves(tree, f) /\ (Nashorn(tree) => "nashorn" \in tree.pom.project)
    BY <2>1 DEF Stage
  <2> QED
    BY <2>2 DEF Resolves, JunitResolves, Nashorn
<1> QED
  BY <1>1, <1>2, <1>3, PTL DEF Spec
=============================================================================
