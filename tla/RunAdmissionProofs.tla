------------------------- MODULE RunAdmissionProofs -------------------------
(***************************************************************************)
(* How far concurrent starts overrun the in-flight limits, for every       *)
(* number of campaigns, projects, runs and requests.                       *)
(***************************************************************************)
EXTENDS RunLifecycleProofs, FiniteSetTheorems

IsActive(r) == run[r].status \in {"queued", "running"}

(* The two counts a start waits for, and the request states that have one     *)
(* behind them.                                                              *)
PassedProject == {"projectCounted", "admitted"}
PassedGlobal == {"globalCounted", "admitted"}

RunsOfProject(c) == {r \in Runs : ProjectOf[CampaignOf[r]] = ProjectOf[c]}

(* The runs of K that occupy a slot of a limit or will once they are inserted. *)
Slots(K, passed) == {r \in K : IsActive(r) \/ request[r] \in passed}

(* What is inductive: the runs a start that passed its count will insert are  *)
(* counted as if they were there.                                            *)
SlotsWithinLimits ==
  /\ Cardinality(Starting) <= MaxStarting
  /\ \A c \in Campaigns : Cardinality(Slots(RunsOfProject(c), PassedProject))
                            <= MaxInflightPerProject + MaxStarting - 1
  /\ Cardinality(Slots(Runs, PassedGlobal)) <= MaxInflightGlobal + MaxStarting - 1

AInv == IInv /\ SlotsWithinLimits

-----------------------------------------------------------------------------

LEMMA RunSets ==
  ASSUME NEW S, S \subseteq Runs
  PROVE  IsFiniteSet(S) /\ Cardinality(S) \in Nat
BY ControlAssumption, FS_Subset, FS_CardinalityType

(* The actions that move a request between the states a limit looks at. *)
LEMMA StartMoves ==
  ASSUME TypeInv, [Next]_vars, NEW r \in Runs
  PROVE  /\ request'[r] \in PassedProject => request[r] \in PassedProject \/ CountProject(r)
         /\ request'[r] \in PassedGlobal => request[r] \in PassedGlobal \/ CountGlobal(r)
         /\ r \in Starting' => r \in Starting \/ CheckCampaign(r)
<1> request \in [Runs -> RequestState] BY DEF TypeInv, TypeOK, ControlTypeOK
<1> DEFINE Moves ==
      /\ request'[r] \in PassedProject => request[r] \in PassedProject \/ CountProject(r)
      /\ request'[r] \in PassedGlobal => request[r] \in PassedGlobal \/ CountGlobal(r)
      /\ r \in Starting' => r \in Starting \/ CheckCampaign(r)
<1>0. request' = request => Moves BY DEF Starting
<1>1. ASSUME NEW q \in Runs, CheckCampaign(q) PROVE Moves
  BY <1>1 DEF CheckCampaign, PassedProject, PassedGlobal, Starting
<1>2. ASSUME NEW q \in Runs, CountProject(q) PROVE Moves
  <2>1. q # r => request'[r] = request[r] BY <1>2 DEF CountProject
  <2>2. CASE q # r BY <2>1, <2>2 DEF Starting
  <2>3. CASE q = r
    <3>1. \/ request[r] = "checked" /\ request'[r] = "projectCounted"
          \/ request[r] = "globalCounted" /\ request'[r] = "admitted"
      BY <1>2, <2>3 DEF CountProject
    <3> QED BY <1>2, <2>3, <3>1 DEF PassedProject, PassedGlobal, Starting
  <2> QED BY <2>2, <2>3
<1>3. ASSUME NEW q \in Runs, CountGlobal(q) PROVE Moves
  <2>1. q # r => request'[r] = request[r] BY <1>3 DEF CountGlobal
  <2>2. CASE q # r BY <2>1, <2>2 DEF Starting
  <2>3. CASE q = r
    <3>1. \/ request[r] = "checked" /\ request'[r] = "globalCounted"
          \/ request[r] = "projectCounted" /\ request'[r] = "admitted"
      BY <1>3, <2>3 DEF CountGlobal
    <3> QED BY <1>3, <2>3, <3>1 DEF PassedProject, PassedGlobal, Starting
  <2> QED BY <2>2, <2>3
<1>4. ASSUME NEW q \in Runs, Throttle(q) PROVE Moves
  BY <1>4 DEF Throttle, PassedProject, PassedGlobal, Starting
<1>5. ASSUME NEW q \in Runs, InsertRun(q) \/ InsertJob(q) \/ EnqueueDies(q) PROVE Moves
  BY <1>5 DEF InsertRun, InsertJob, EnqueueDies, PassedProject, PassedGlobal, Starting
<1> HIDE DEF Moves
<1>6. Moves
  BY <1>0, <1>1, <1>2, <1>3, <1>4, <1>5
  DEF Next, ControlNext, WorkerNext, TimePasses, Enqueue, Cancel, Proceed, vars,
      tableVars, controlVars, processVars, Pause, Resume, ReadRun, WriteCancel,
      DropJob, CancelDies, Claim, LoadContext, StartRun, Work,
      RecheckCancellation, CheckLease, Finalize, RecordEvidence, Complete,
      ReturnLeaseLost, ReadAttempts, Requeue, GiveUpJob, FailRun, Throw,
      AbandonCatch, Heartbeat, Stall, Crash, LeaseExpires, BackoffElapses
<1> QED BY <1>6 DEF Moves

(* A run is queued by a request that passed both counts, and never again.     *)
LEMMA ActiveMoves ==
  ASSUME TypeInv, [Next]_vars, NEW r \in Runs, IsActive(r)'
  PROVE  IsActive(r) \/ request[r] = "admitted"
<1>1. run'[r].status \in {"queued", "running"} BY DEF IsActive
<1> QED BY <1>1, RunMove DEF RunMoves, IsActive, InsertRun, Terminal

(* Fewer runs than the limit were counted, and only the requests handled at   *)
(* the same time come on top of them.                                        *)
LEMMA CountedSlots ==
  ASSUME NEW counted, counted \subseteq Runs, NEW slots, NEW starting,
         starting \subseteq Runs, slots \subseteq counted \cup starting,
         NEW limit \in Nat, Cardinality(counted) < limit,
         Cardinality(starting) <= MaxStarting
  PROVE  Cardinality(slots) <= limit + MaxStarting - 1
<1>1. /\ IsFiniteSet(counted) /\ IsFiniteSet(starting)
      /\ Cardinality(counted) \in Nat /\ Cardinality(starting) \in Nat
      /\ Cardinality(counted \cap starting) \in Nat
  <2>1. counted \cap starting \subseteq Runs OBVIOUS
  <2> QED BY <2>1, RunSets
<1>2. /\ IsFiniteSet(counted \cup starting)
      /\ Cardinality(counted \cup starting) =
           Cardinality(counted) + Cardinality(starting) - Cardinality(counted \cap starting)
  BY <1>1, FS_Union
<1>3. Cardinality(slots) <= Cardinality(counted \cup starting)
  BY <1>2, FS_Subset
<1>4. slots \subseteq Runs OBVIOUS
<1>5. Cardinality(slots) \in Nat BY <1>4, RunSets
<1>6. MaxStarting \in Nat BY ControlAssumption
<1> QED BY <1>1, <1>2, <1>3, <1>5, <1>6

LEMMA StartingStep ==
  ASSUME AInv, [Next]_vars PROVE Cardinality(Starting') <= MaxStarting
<1> USE DEF AInv, IInv, SlotsWithinLimits
<1>1. Starting \subseteq Runs /\ Starting' \subseteq Runs BY DEF Starting
<1>2. CASE \E q \in Runs : CheckCampaign(q)
  <2>1. PICK q \in Runs : CheckCampaign(q) BY <1>2
  <2>2. Starting' \subseteq Starting \cup {q}
    BY <2>1 DEF CheckCampaign, Starting, TypeInv, TypeOK, ControlTypeOK
  <2>3. Cardinality(Starting) < MaxStarting BY <2>1 DEF CheckCampaign
  <2>4. IsFiniteSet(Starting) /\ Cardinality(Starting) \in Nat BY <1>1, RunSets
  <2>5. /\ IsFiniteSet(Starting \cup {q})
        /\ Cardinality(Starting \cup {q}) \in {Cardinality(Starting), Cardinality(Starting) + 1}
    BY <2>4, FS_AddElement
  <2>6. Cardinality(Starting') <= Cardinality(Starting \cup {q})
    BY <2>2, <2>5, FS_Subset
  <2>7. Cardinality(Starting') \in Nat /\ MaxStarting \in Nat
    BY <1>1, RunSets, ControlAssumption
  <2> QED BY <2>3, <2>4, <2>5, <2>6, <2>7
<1>3. CASE ~\E q \in Runs : CheckCampaign(q)
  <2>1. Starting' \subseteq Starting BY <1>1, <1>3, StartMoves
  <2>2. IsFiniteSet(Starting) BY <1>1, RunSets
  <2>3. Cardinality(Starting') <= Cardinality(Starting) BY <2>1, <2>2, FS_Subset
  <2>4. Cardinality(Starting') \in Nat /\ Cardinality(Starting) \in Nat /\ MaxStarting \in Nat
    BY <1>1, RunSets, ControlAssumption
  <2> QED BY <2>3, <2>4
<1> QED BY <1>2, <1>3

(* The slots of a limit that no count of its own is taken for shrink.         *)
LEMMA SlotsShrink ==
  ASSUME TypeInv, [Next]_vars, NEW K, K \subseteq Runs,
         NEW passed, "admitted" \in passed,
         \A r \in K : request'[r] \in passed => request[r] \in passed
  PROVE  /\ Slots(K, passed)' \subseteq Slots(K, passed)
         /\ Cardinality(Slots(K, passed)') <= Cardinality(Slots(K, passed))
<1>1. Slots(K, passed)' \subseteq Slots(K, passed)
  BY ActiveMoves DEF Slots, IsActive
<1>2. Slots(K, passed) \subseteq Runs BY DEF Slots
<1> QED BY <1>1, <1>2, RunSets, FS_Subset

LEMMA ProjectStep ==
  ASSUME AInv, [Next]_vars, NEW c \in Campaigns
  PROVE  Cardinality(Slots(RunsOfProject(c), PassedProject)')
           <= MaxInflightPerProject + MaxStarting - 1
<1> USE DEF AInv, IInv
<1> DEFINE K == RunsOfProject(c)
<1>1. K \subseteq Runs BY DEF RunsOfProject
<1>2. Slots(K, PassedProject) \subseteq Runs /\ Slots(K, PassedProject)' \subseteq Runs
  BY <1>1 DEF Slots
<1>3. CASE \E q \in K : CountProject(q)
  <2>1. PICK q \in K : CountProject(q) BY <1>3
  <2>2. ProjectInflight(CampaignOf[q]) = ProjectInflight(c)
    BY <2>1 DEF RunsOfProject, ProjectInflight
  <2>3. ProjectInflight(c) \subseteq Runs /\ Starting' \subseteq Runs
    BY DEF ProjectInflight, InflightRuns, Starting
  <2>4. Cardinality(ProjectInflight(c)) < MaxInflightPerProject
    <3>1. ~(Cardinality(ProjectInflight(c)) >= MaxInflightPerProject)
      BY <2>1, <2>2 DEF CountProject, ProjectIsFull
    <3>2. Cardinality(ProjectInflight(c)) \in Nat BY <2>3, RunSets
    <3> QED BY <3>1, <3>2, ControlAssumption
  <2>5. Slots(K, PassedProject)' \subseteq ProjectInflight(c) \cup Starting'
    BY <1>1, <2>1 DEF CountProject, tableVars, Slots, IsActive, RunsOfProject,
       ProjectInflight, InflightRuns, Inflight, Starting, PassedProject
  <2> HIDE DEF K
  <2> QED BY <2>3, <2>4, <2>5, StartingStep, CountedSlots, ControlAssumption DEF K
<1>4. CASE ~\E q \in K : CountProject(q)
  <2>1. \A r \in K : request'[r] \in PassedProject => request[r] \in PassedProject
    BY <1>1, <1>4, StartMoves
  <2>2. "admitted" \in PassedProject BY DEF PassedProject
  <2> HIDE DEF K
  <2>3. Cardinality(Slots(K, PassedProject)') <= Cardinality(Slots(K, PassedProject))
    BY <1>1, <2>1, <2>2, SlotsShrink
  <2>4. /\ Cardinality(Slots(K, PassedProject)') \in Nat
        /\ Cardinality(Slots(K, PassedProject)) \in Nat
    BY <1>2, RunSets
  <2>5. Cardinality(Slots(K, PassedProject)) <= MaxInflightPerProject + MaxStarting - 1
    BY DEF SlotsWithinLimits, K
  <2> QED BY <2>3, <2>4, <2>5, ControlAssumption DEF K
<1> QED BY <1>3, <1>4

LEMMA GlobalStep ==
  ASSUME AInv, [Next]_vars
  PROVE  Cardinality(Slots(Runs, PassedGlobal)') <= MaxInflightGlobal + MaxStarting - 1
<1> USE DEF AInv, IInv
<1>1. Slots(Runs, PassedGlobal) \subseteq Runs /\ Slots(Runs, PassedGlobal)' \subseteq Runs
  BY DEF Slots
<1>2. CASE \E q \in Runs : CountGlobal(q)
  <2>1. PICK q \in Runs : CountGlobal(q) BY <1>2
  <2>2. InflightRuns \subseteq Runs /\ Starting' \subseteq Runs
    BY DEF InflightRuns, Starting
  <2>3. Cardinality(InflightRuns) < MaxInflightGlobal
    <3>1. ~(Cardinality(InflightRuns) >= MaxInflightGlobal)
      BY <2>1 DEF CountGlobal, GlobalIsFull
    <3>2. Cardinality(InflightRuns) \in Nat BY <2>2, RunSets
    <3> QED BY <3>1, <3>2, ControlAssumption
  <2>4. Slots(Runs, PassedGlobal)' \subseteq InflightRuns \cup Starting'
    BY <2>1 DEF CountGlobal, tableVars, Slots, IsActive, InflightRuns, Inflight,
       Starting, PassedGlobal
  <2> QED BY <2>2, <2>3, <2>4, StartingStep, CountedSlots, ControlAssumption
<1>3. CASE ~\E q \in Runs : CountGlobal(q)
  <2>1. \A r \in Runs : request'[r] \in PassedGlobal => request[r] \in PassedGlobal
    BY <1>3, StartMoves
  <2>2. "admitted" \in PassedGlobal BY DEF PassedGlobal
  <2>3. Cardinality(Slots(Runs, PassedGlobal)') <= Cardinality(Slots(Runs, PassedGlobal))
    BY <2>1, <2>2, SlotsShrink
  <2>4. /\ Cardinality(Slots(Runs, PassedGlobal)') \in Nat
        /\ Cardinality(Slots(Runs, PassedGlobal)) \in Nat
    BY <1>1, RunSets
  <2>5. Cardinality(Slots(Runs, PassedGlobal)) <= MaxInflightGlobal + MaxStarting - 1
    BY DEF SlotsWithinLimits
  <2> QED BY <2>3, <2>4, <2>5, ControlAssumption
<1> QED BY <1>2, <1>3

-----------------------------------------------------------------------------

LEMMA AInvInit == Init => AInv
<1> SUFFICES ASSUME Init PROVE AInv OBVIOUS
<1>1. \A r \in Runs : run[r].status = "absent" /\ request[r] = "none"
  BY DEF Init, TablesInit, ControlInit, NoRunRow
<1>2. Starting = {} BY <1>1 DEF Starting
<1>3. \A K \in SUBSET Runs : Slots(K, PassedProject) = {} /\ Slots(K, PassedGlobal) = {}
  BY <1>1 DEF Slots, IsActive, PassedProject, PassedGlobal
<1>4. \A c \in Campaigns : RunsOfProject(c) \in SUBSET Runs BY DEF RunsOfProject
<1>5. Cardinality({}) = 0 BY FS_EmptySet
<1>6. /\ MaxStarting \in Nat /\ MaxStarting >= 1
      /\ MaxInflightPerProject \in Nat /\ MaxInflightGlobal \in Nat
  BY ControlAssumption
<1>7. 0 <= MaxStarting /\ 0 <= MaxInflightPerProject + MaxStarting - 1
                       /\ 0 <= MaxInflightGlobal + MaxStarting - 1 BY <1>6
<1> QED BY <1>2, <1>3, <1>4, <1>5, <1>7, IInvInit DEF AInv, SlotsWithinLimits

LEMMA AInvStep == AInv /\ [Next]_vars => AInv'
<1> SUFFICES ASSUME AInv, [Next]_vars PROVE AInv' OBVIOUS
<1>1. IInv' BY IInvStep DEF AInv
<1>2. \A c \in Campaigns : Cardinality(Slots(RunsOfProject(c), PassedProject)')
                              <= MaxInflightPerProject + MaxStarting - 1
  BY ProjectStep
<1> QED BY <1>1, <1>2, StartingStep, GlobalStep DEF AInv, SlotsWithinLimits

(* Runs that are queued or running exceed the limits of enforceInflightThrottle *)
(* by at most the number of other starts handled at the same time, for any      *)
(* number of campaigns, runs, workers and requests.                             *)
THEOREM ActiveRunsWithinLimits == Spec => []ActiveWithinLimits
<1>1. AInv => ActiveWithinLimits
  <2> SUFFICES ASSUME AInv PROVE ActiveWithinLimits OBVIOUS
  <2>1. Inflight = {"queued", "running", "cancelling"} BY DEF Inflight
  <2>2. ASSUME NEW c \in Campaigns
        PROVE  Cardinality(Active(c)) <= MaxInflightPerProject + MaxStarting - 1
    <3> DEFINE slots == Slots(RunsOfProject(c), PassedProject)
    <3>1. Active(c) \subseteq slots
      BY <2>1 DEF Active, ProjectInflight, InflightRuns, Slots, IsActive, RunsOfProject
    <3>2. slots \subseteq Runs BY DEF Slots, RunsOfProject
    <3>3. Active(c) \subseteq Runs BY <3>1, <3>2
    <3>4. Cardinality(slots) <= MaxInflightPerProject + MaxStarting - 1
      BY DEF AInv, SlotsWithinLimits
    <3> HIDE DEF slots
    <3>5. Cardinality(Active(c)) <= Cardinality(slots)
      BY <3>1, <3>2, RunSets, FS_Subset
    <3> QED BY <3>2, <3>3, <3>4, <3>5, RunSets, ControlAssumption
  <2>3. Cardinality(UNION {Active(c) : c \in Campaigns})
          <= MaxInflightGlobal + MaxStarting - 1
    <3> DEFINE slots == Slots(Runs, PassedGlobal)
               active == UNION {Active(c) : c \in Campaigns}
    <3>1. active \subseteq slots
      BY <2>1 DEF Active, ProjectInflight, InflightRuns, Slots, IsActive
    <3>2. slots \subseteq Runs BY DEF Slots
    <3>3. Cardinality(slots) <= MaxInflightGlobal + MaxStarting - 1
      BY DEF AInv, SlotsWithinLimits
    <3> HIDE DEF slots, active
    <3>4. active \subseteq Runs BY <3>1, <3>2
    <3>5. Cardinality(active) <= Cardinality(slots)
      BY <3>1, <3>2, RunSets, FS_Subset
    <3>6. Cardinality(active) <= MaxInflightGlobal + MaxStarting - 1
      BY <3>2, <3>3, <3>4, <3>5, RunSets, ControlAssumption
    <3> QED BY <3>6 DEF active
  <2> QED BY <2>2, <2>3 DEF ActiveWithinLimits
<1> QED BY AInvInit, AInvStep, <1>1, PTL DEF Spec
=============================================================================
