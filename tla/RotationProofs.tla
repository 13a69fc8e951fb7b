--------------------------- MODULE RotationProofs ----------------------------
(***************************************************************************)
(* How long an edge waits for its turn in a timed rotation, for a pool of  *)
(* any size and wherever runs are killed.                                  *)
(***************************************************************************)
EXTENDS MCRotation, PublicationProofs

(* A pool that stays healthy: at least two edges, all of them listed and   *)
(* available, which pass every test alike.                                 *)
EvenHealths == {[e \in Edges |-> h] : h \in PassingHealths}
HealthyPool ==
  /\ Timed = {TRUE} /\ EdgeLists = WholeList /\ EdgeModes = AllAvailable
  /\ TestHealths \subseteq EvenHealths
  /\ Cardinality(Edges) >= 2

RotationWithKills ==
  Init_waited /\ [][NextWithCrash /\ Count]_<<vars, waited>>

(* The cycle: the live edge is in it.  An edge already used in this cycle  *)
(* has waited for those used after it; one not yet used for those, and for *)
(* all the others of the cycle before.                                     *)
N == Cardinality(Edges)
Turns == Cardinality(rotationCycle)
CycleInOrder ==
  /\ lastLive = {} => rotationCycle = {}
  /\ lastLive # {} => \E l \in rotationCycle : lastLive = {l} /\ waited[l] = 0
  /\ waited \in [Edges -> Nat]
  /\ \A e \in Edges :
       waited[e] <= IF e \in rotationCycle THEN Turns - 1 ELSE N + Turns - 2

(* A run keeps the live edge, or takes one that is new to the cycle, or    *)
(* starts the next cycle, from the live edge, with any other.              *)
Kept == live = lastLive /\ cycle = rotationCycle
Taken(e) ==
  /\ live = {e} /\ e \notin lastLive
  /\ \/ e \notin rotationCycle /\ cycle = rotationCycle \cup {e}
     \/ rotationCycle = Edges /\ cycle = lastLive \cup {e}
ChoiceInOrder ==
  /\ pc = "select" => cycle = rotationCycle
  /\ Selected => Kept \/ \E e \in Edges : Taken(e)

LEMMA PoolSize ==
  ASSUME HealthyPool
  PROVE  /\ N \in Nat /\ N >= 2 /\ Edges # {}
         /\ \A S \in SUBSET Edges : IsFiniteSet(S) /\ Cardinality(S) \in Nat /\ Cardinality(S) <= N
         /\ \A S \in SUBSET Edges : S # Edges => Cardinality(S) <= N - 1
<1>1. IsFiniteSet(Edges) /\ N \in Nat /\ N >= 2
  BY NamesAreOrdered, FS_CardinalityType DEF HealthyPool, N
<1>2. Edges # {}
  BY <1>1, FS_EmptySet DEF N
<1>3. \A S \in SUBSET Edges : IsFiniteSet(S) /\ Cardinality(S) \in Nat /\ Cardinality(S) <= N
  BY <1>1, FS_Subset, FS_CardinalityType DEF N
<1>4. \A S \in SUBSET Edges : S # Edges => Cardinality(S) # N
  BY <1>1, FS_Subset DEF N
<1>. QED
  BY <1>1, <1>2, <1>3, <1>4

(* What a run of a healthy pool knows.                                     *)
LEMMA HealthyRun ==
  ASSUME HealthyPool, TypeOK, run \in Runs
  PROVE  /\ run.timed /\ Judged = Edges /\ Forced = {}
         /\ Candidates = Edges \ lastLive
         /\ \A e \in Edges : Passing(e)
         /\ \A e, f \in Edges : RankOf(e) = RankOf(f)
<1>1. /\ run.timed /\ run.listed = Edges /\ run.mode = [e \in Edges |-> "available"]
      /\ run.health \in EvenHealths
  BY DEF HealthyPool, Runs, WholeList, AllAvailable
<1>2. PICK h \in PassingHealths : run.health = [e \in Edges |-> h]
  BY <1>1 DEF EvenHealths
<1>3. Judged = Edges /\ Forced = {}
  BY <1>1 DEF Judged, Forced, Blindforced, ForcedPassing
<1>4. \A e \in Edges : RankOf(e) = Rank(h)
  BY <1>2, <1>3 DEF RankOf
<1>5. Rank(h) \in Nat /\ Rank(h) < FailRank
  BY DEF Rank, FailRank, PassingHealths
<1>6. \A e \in Edges : Passing(e)
  BY <1>4, <1>5 DEF Passing
<1>7. Candidates = Edges \ lastLive
  BY <1>3, <1>4, <1>5, <1>6 DEF Candidates
<1>. QED
  BY <1>1, <1>3, <1>4, <1>6, <1>7

(* The choice of a run: another edge, as the cycle has it, or the same.    *)
LEMMA RotateTakes ==
  ASSUME HealthyPool, TypeOK, Course, CycleInOrder, Rotate
  PROVE  \E e \in Edges : Taken(e)'
<1>1. run \in Runs /\ UNCHANGED <<lastLive, rotationCycle>>
  BY DEF Rotate, Course, Serve, stateFile
<1>2. Candidates = Edges \ lastLive
  BY <1>1, HealthyRun
<1>3. PICK e \in Unused : live' = {e} /\ cycle' = CycleBeforePick \cup {e}
  BY DEF Rotate, Serve
<1>4. e \in Edges /\ e \notin lastLive
  BY <1>2 DEF Unused
<1>5. CASE Candidates \subseteq rotationCycle
  <2>1. cycle' = lastLive \cup {e}
    BY <1>3, <1>5 DEF CycleBeforePick
  <2>2. lastLive # {}
    BY <1>2, <1>4, <1>5 DEF CycleInOrder
  <2>3. lastLive \subseteq rotationCycle /\ rotationCycle \subseteq Edges
    BY <2>2 DEF CycleInOrder, TypeOK
  <2>4. rotationCycle = Edges
    BY <1>2, <1>5, <2>3
  <2>. QED
    BY <1>1, <1>3, <1>4, <2>1, <2>4 DEF Taken
<1>6. CASE ~(Candidates \subseteq rotationCycle)
  <2>1. e \notin rotationCycle /\ cycle' = rotationCycle \cup {e}
    BY <1>3, <1>6 DEF Unused, CycleBeforePick
  <2>. QED
    BY <1>1, <1>3, <1>4, <2>1 DEF Taken
<1>. QED
  BY <1>5, <1>6

LEMMA KeepCurrentKeeps ==
  ASSUME HealthyPool, TypeOK, Course, CycleInOrder, KeepCurrent
  PROVE  Kept'
<1>1. /\ run \in Runs /\ UNCHANGED <<lastLive, rotationCycle>>
      /\ live' = CurrentEdge /\ cycle' = rotationCycle \cup CurrentEdge
  BY DEF KeepCurrent, Course, Serve, stateFile
<1>2. PICK c \in CurrentEdge : TRUE
  BY DEF KeepCurrent, CurrentPassing
<1>3. CurrentEdge = {c} /\ c \in lastLive
  BY <1>1, <1>2, RunsAreTyped, CurrentEdgeIsOne DEF CurrentEdge, JudgedLastLive
<1>4. lastLive = {c} /\ c \in rotationCycle
  BY <1>3 DEF CycleInOrder
<1>. QED
  BY <1>1, <1>3, <1>4 DEF Kept

(* With every edge passing there is always another to rotate to, or the    *)
(* live one to keep: nothing is forced and no last resort needed.          *)
LEMMA ChoosingInOrder ==
  ASSUME HealthyPool, TypeOK, Course, CycleInOrder, TimeBased
  PROVE  Kept' \/ \E e \in Edges : Taken(e)'
<1>1. run \in Runs
  BY DEF TimeBased, ServeForced, Rotate, KeepCurrent, ServeLastResort, Course
<1>2. ~ServeForced
  BY <1>1, HealthyRun DEF ServeForced
<1>3. ASSUME ServeLastResort PROVE FALSE
  <2>1. ~Move /\ ~CurrentPassing /\ lastLive \in SUBSET Edges
    BY <1>3 DEF ServeLastResort, TypeOK
  <2>2. lastLive = Edges
    BY <1>1, <2>1, HealthyRun DEF Move
  <2>3. PICK l \in Edges : Edges = {l}
    BY <2>2, PoolSize DEF CycleInOrder, TypeOK
  <2>. QED
    BY <2>3, PoolSize, FS_Singleton DEF N
<1>. QED
  BY <1>2, <1>3, RotateTakes, KeepCurrentKeeps DEF TimeBased

LEMMA ChoiceInOrderStep ==
  ASSUME HealthyPool, TypeOK, Course, FillsForAReason, CycleInOrder, ChoiceInOrder,
         [NextWithCrash]_vars
  PROVE  ChoiceInOrder'
<1>1. CASE TimeBased
  <2>1. pc' = "publish"
    BY <1>1 DEF TimeBased, ServeForced, Rotate, KeepCurrent, ServeLastResort, Serve
  <2>. QED
    BY <1>1, <2>1, ChoosingInOrder DEF ChoiceInOrder
<1>2. CASE HealthBased
  <2>1. run \in Runs /\ ~run.timed
    BY <1>2 DEF HealthBased, KeepHealthyList, StartFilling, FillTier, ReAddLastLive,
       FillsForAReason, Course
  <2>. QED
    BY <2>1, HealthyRun
<1>3. CASE Begin
  <2>1. pc' = "select" /\ cycle' = rotationCycle /\ rotationCycle' = rotationCycle
    BY <1>3 DEF Begin, stateFile
  <2>. QED
    BY <2>1 DEF ChoiceInOrder, Selected
<1>4. CASE SaveState \/ EndDryRun \/ Crash
  <2>1. pc' = "idle"
    BY <1>4 DEF SaveState, EndDryRun, Crash, CrashBetweenSteps, CrashWritingZone,
       CrashSettingStates, CrashWritingLiveList, CrashSaving, Exit
  <2>. QED
    BY <2>1 DEF ChoiceInOrder, Selected
<1>5. CASE \/ \E z \in Zones : SkipZone(z) \/ WriteZone(z)
           \/ SetEdgeStates \/ WriteLiveList \/ Tick \/ UNCHANGED vars
  <2>1. /\ UNCHANGED <<live, cycle, lastLive, rotationCycle>>
        /\ Selected' <=> Selected
        /\ pc' = "select" => pc = "select"
    BY <1>5 DEF SkipZone, WriteZone, Visit, SetEdgeStates, WriteLiveList, Tick, vars, memory,
       selection, stateFile, Selected
  <2>. QED
    BY <2>1 DEF ChoiceInOrder, Kept, Taken
<1>. QED
  BY <1>1, <1>2, <1>3, <1>4, <1>5 DEF NextWithCrash, Next, RunStep, HealthBased, TimeBased

-----------------------------------------------------------------------------
(* How saving a choice moves the counts and the cycle on.                  *)
LEMMA CountMoves ==
  ASSUME waited \in [Edges -> Nat], Count, lastLive' # lastLive, N \in Nat, N >= 2
  PROVE  /\ waited' \in [Edges -> Nat]
         /\ \A e \in lastLive' \cap Edges : waited'[e] = 0
         /\ \A e \in Edges : waited'[e] <= waited[e] + 1
<1>1. waited' = [e \in Edges |-> IF e \in lastLive' THEN 0
                                 ELSE Lesser(waited[e] + 1, MaxWaited)]
  BY DEF Count
<1>2. MaxWaited \in Nat
  BY DEF MaxWaited, Longest, N
<1>3. \A e \in Edges :
        /\ Lesser(waited[e] + 1, MaxWaited) \in Nat
        /\ Lesser(waited[e] + 1, MaxWaited) <= waited[e] + 1
  BY <1>2 DEF Lesser
<1>. QED
  BY <1>1, <1>3

LEMMA SavingTaken ==
  ASSUME HealthyPool, TypeOK, CycleInOrder, NEW e \in Edges, Taken(e), Count,
         lastLive' = live, rotationCycle' = cycle
  PROVE  CycleInOrder'
<1>1. N \in Nat /\ N >= 2 /\ IsFiniteSet(Edges)
  BY PoolSize, NamesAreOrdered
<1>2. lastLive' = {e} /\ lastLive' # lastLive
  BY DEF Taken
<1>3. /\ waited' \in [Edges -> Nat] /\ waited'[e] = 0
      /\ \A f \in Edges : waited'[f] <= waited[f] + 1
  BY <1>1, <1>2, CountMoves DEF CycleInOrder
<1>4. e \in rotationCycle'
  BY DEF Taken
<1>5. rotationCycle \in SUBSET Edges /\ Turns \in Nat /\ Turns <= N
  BY PoolSize DEF TypeOK, Turns
<1>6. ASSUME NEW f \in Edges
      PROVE  waited'[f] <= IF f \in rotationCycle' THEN Turns' - 1 ELSE N + Turns' - 2
  <2>1. /\ waited[f] \in Nat /\ waited'[f] <= waited[f] + 1
        /\ waited[f] <= IF f \in rotationCycle THEN Turns - 1 ELSE N + Turns - 2
    BY <1>3 DEF CycleInOrder
  <2>2. CASE e \notin rotationCycle /\ rotationCycle' = rotationCycle \cup {e}
    <3>1. Turns' = Turns + 1
      BY <1>5, <2>2, PoolSize, FS_AddElement DEF Turns
    <3>2. CASE f = e
      BY <1>1, <1>3, <1>5, <2>2, <3>1, <3>2
    <3>3. CASE f # e
      <4>1. f \in rotationCycle' <=> f \in rotationCycle
        BY <2>2, <3>3
      <4>. QED
        BY <1>1, <1>3, <1>5, <2>1, <3>1, <4>1
    <3>. QED
      BY <3>2, <3>3
  <2>3. CASE rotationCycle = Edges /\ rotationCycle' = lastLive \cup {e}
    <3>1. PICK l \in Edges : lastLive = {l} /\ waited[l] = 0
      BY <1>1, <2>3, PoolSize DEF CycleInOrder
    <3>2. rotationCycle' = {l, e} /\ l # e
      BY <2>3, <3>1 DEF Taken
    <3>3. Turns' = 2
      <4>1. IsFiniteSet({l}) /\ Cardinality({l}) = 1
        BY FS_Singleton
      <4>2. {l, e} = {l} \cup {e} /\ e \notin {l}
        BY <3>2
      <4>3. Cardinality({l} \cup {e}) = 2
        BY <4>1, <4>2, FS_AddElement
      <4>. QED
        BY <3>2, <4>2, <4>3 DEF Turns
    <3>4. Turns = N
      BY <2>3 DEF Turns, N
    <3>5. CASE f = e
      BY <1>1, <1>3, <3>2, <3>3, <3>5
    <3>6. CASE f = l
      BY <1>1, <1>3, <3>1, <3>2, <3>3, <3>6
    <3>7. CASE f # e /\ f # l
      <4>1. f \notin rotationCycle' /\ f \in rotationCycle
        BY <2>3, <3>2, <3>7
      <4>2. waited'[f] \in Nat /\ waited'[f] <= N
        BY <1>1, <1>3, <2>1, <3>4, <4>1
      <4>. QED
        BY <1>1, <3>3, <4>1, <4>2
    <3>. QED
      BY <3>5, <3>6, <3>7
  <2>. QED
    BY <2>2, <2>3 DEF Taken
<1>7. N' = N
  BY DEF N
<1>. QED
  BY <1>2, <1>3, <1>4, <1>6, <1>7 DEF CycleInOrder

LEMMA CycleInOrderStep ==
  ASSUME HealthyPool, TypeOK, CycleInOrder, ChoiceInOrder, [NextWithCrash /\ Count]_<<vars, waited>>
  PROVE  CycleInOrder'
<1>1. CASE UNCHANGED <<lastLive, rotationCycle, waited>>
  BY <1>1 DEF CycleInOrder, Turns, N
<1>2. CASE SaveState /\ Count
  <2>1. lastLive' = live /\ rotationCycle' = cycle /\ Selected
    BY <1>2 DEF SaveState, Selected
  <2>2. CASE Kept
    <3>1. UNCHANGED <<lastLive, rotationCycle>>
      BY <2>1, <2>2 DEF Kept
    <3>. QED
      BY <1>1, <1>2, <3>1 DEF Count
  <2>3. CASE \E e \in Edges : Taken(e)
    BY <1>2, <2>1, <2>3, SavingTaken
  <2>. QED
    BY <2>1, <2>2, <2>3 DEF ChoiceInOrder
<1>3. CASE NextWithCrash /\ Count /\ ~SaveState
  <2>1. UNCHANGED <<lastLive, rotationCycle>>
    BY <1>3, ChoosingKeeps
       DEF NextWithCrash, Next, RunStep, HealthBased, TimeBased, Begin, SkipZone, WriteZone,
       Visit, SetEdgeStates, WriteLiveList, EndDryRun, Tick, Crash, CrashBetweenSteps,
       CrashWritingZone, CrashSettingStates, CrashWritingLiveList, CrashSaving, stateFile
  <2>. QED
    BY <1>1, <1>3, <2>1 DEF Count
<1>4. CASE UNCHANGED <<vars, waited>>
  BY <1>1, <1>4 DEF vars, stateFile
<1>. QED
  BY <1>2, <1>3, <1>4

-----------------------------------------------------------------------------
LEMMA CycleInit ==
  ASSUME HealthyPool, Init_waited
  PROVE  CycleInOrder /\ ChoiceInOrder
<1>1. rotationCycle = {} /\ Turns = 0
  BY FS_EmptySet DEF Init_waited, Init, Turns
<1>. QED
  BY <1>1, PoolSize DEF Init_waited, Init, CycleInOrder, ChoiceInOrder, Selected

LEMMA WaitIsBounded ==
  ASSUME HealthyPool, TypeOK, CycleInOrder
  PROVE  NoEdgeStarves
<1>1. N \in Nat /\ N >= 2 /\ rotationCycle \in SUBSET Edges
  BY PoolSize DEF TypeOK
<1>2. SUFFICES ASSUME NEW e \in Edges PROVE waited[e] <= 2 * N - 3
  BY DEF NoEdgeStarves, Longest, N
<1>3. /\ waited[e] \in Nat
      /\ waited[e] <= IF e \in rotationCycle THEN Turns - 1 ELSE N + Turns - 2
  BY DEF CycleInOrder
<1>4. Turns \in Nat /\ Turns <= N /\ (e \notin rotationCycle => Turns <= N - 1)
  BY <1>1, PoolSize DEF Turns
<1>. QED
  BY <1>1, <1>3, <1>4

LEMMA RotationGoesOn ==
  ASSUME [NextWithCrash /\ Count]_<<vars, waited>>
  PROVE  [NextWithCrash]_vars
BY DEF vars

(* However the random choices of a timed rotation fall, and whichever runs *)
(* are killed at whatever step, every edge of a healthy pool of N edges is *)
(* live again after at most 2N - 3 others (NoEdgeStarves), for every N.    *)
THEOREM EveryEdgeComesRound ==
  ASSUME HealthyPool
  PROVE  RotationWithKills => []NoEdgeStarves
<1>1. Init_waited => TypeOK /\ Course /\ FillsForAReason /\ CycleInOrder /\ ChoiceInOrder
  BY TypeInit, CourseInit, CycleInit DEF Init_waited, Init, FillsForAReason
<1>2. TypeOK /\ Course /\ FillsForAReason /\ CycleInOrder /\ ChoiceInOrder
      /\ [NextWithCrash /\ Count]_<<vars, waited>>
      => (TypeOK /\ Course /\ FillsForAReason /\ CycleInOrder /\ ChoiceInOrder)'
  BY TypeStep, CourseStep, FillsForAReasonStep, CycleInOrderStep, ChoiceInOrderStep,
     RotationGoesOn
<1>3. TypeOK /\ CycleInOrder => NoEdgeStarves
  BY WaitIsBounded
<1>. QED
  BY <1>1, <1>2, <1>3, PTL DEF RotationWithKills

(* In particular in the rotation the run rotation_fair goes through.       *)
THEOREM NoEdgeIsLeftOut ==
  ASSUME HealthyPool
  PROVE  RotationSpec => []NoEdgeStarves
<1>1. [Next_waited]_<<vars, waited>> => [NextWithCrash /\ Count]_<<vars, waited>>
  BY DEF Next_waited, NextWithCrash
<1>. QED
  BY <1>1, EveryEdgeComesRound, PTL DEF RotationSpec, RotationWithKills
=============================================================================
