-------------------------- MODULE EdgeManageProofs --------------------------
(***************************************************************************)
(* What EdgeManage guarantees for every pool of edges, every set of zones  *)
(* and every choice of inputs, with runs killed at any point.              *)
(***************************************************************************)
EXTENDS EdgeManage, FiniteSetTheorems, WellFoundedInduction, TLAPS

(* A behaviour without kills is one of SpecWithCrash.                      *)
LEMMA CrashFree == Spec => SpecWithCrash
<1>1. [Next]_vars => [NextWithCrash]_vars
  BY DEF NextWithCrash
<1>. QED
  BY <1>1, PTL DEF Spec, SpecWithCrash

(* The inputs of a run have the types TypeOK states.                       *)
LEMMA RunsAreTyped == Runs \subseteq RunTypes
BY ChoicesAreTyped DEF Runs, RunTypes

(* Whatever sets of hosts the selections choose, they choose edges.        *)
LEMMA SelectionsAreEdges ==
  ASSUME TypeOK, run \in RunTypes
  PROVE  /\ Judged \subseteq Edges /\ Blindforced \subseteq Edges
         /\ ForcedPassing \subseteq Edges /\ StillHealthy \subseteq Edges
         /\ ForcedFirst \subseteq Edges /\ Forced \subseteq Edges
         /\ Unused \subseteq Edges /\ CycleBeforePick \subseteq Edges
         /\ CurrentEdge \subseteq Edges
<1>1. run.listed \subseteq Edges
  BY DEF RunTypes
<1>2. lastLive \subseteq Edges /\ rotationCycle \subseteq Edges
  BY DEF TypeOK
<1>3. /\ Judged \subseteq Edges /\ Blindforced \subseteq Edges
      /\ ForcedPassing \subseteq Edges
  BY <1>1 DEF Judged, Blindforced, ForcedPassing
<1>4. StillHealthy \subseteq Edges
  BY <1>3 DEF StillHealthy
<1>5. ForcedFirst \subseteq Edges /\ Forced \subseteq Edges
  BY <1>3 DEF ForcedFirst, Forced
<1>6. Candidates \subseteq Edges
  BY <1>3 DEF Candidates
<1>7. Unused \subseteq Edges /\ CycleBeforePick \subseteq Edges
  BY <1>2, <1>6 DEF Unused, CycleBeforePick
<1>8. CurrentEdge \subseteq Edges
  BY <1>2 DEF CurrentEdge, JudgedLastLive
<1>. QED
  BY <1>3, <1>4, <1>5, <1>7, <1>8

(* The canary a zone gets is an address of the canary file, or none.       *)
LEMMA CanaryOfAZone ==
  ASSUME TypeOK, run \in RunTypes, NEW z \in Zones
  PROVE  UsableCanary(z) \in Canaries \cup {None}
BY DEF UsableCanary, RunTypes

(* A zone file names live edges and a canary.                              *)
LEMMA HostListsAreHosts ==
  ASSUME TypeOK, run \in RunTypes, NEW z \in Zones, NEW hosts \in HostLists(z)
  PROVE  hosts \subseteq Edges \cup Canaries
<1>1. live \subseteq Edges
  BY DEF TypeOK
<1>. QED
  BY <1>1, CanaryOfAZone DEF HostLists

-----------------------------------------------------------------------------
(* The memory of a run, and the run itself, once it is over.               *)
LEMMA ExitTypes ==
  ASSUME Exit
  PROVE  /\ pc' = "idle" /\ run' = None
         /\ live' \in SUBSET Edges /\ changed' \in BOOLEAN /\ anyChanges' \in BOOLEAN
         /\ tier' \in 1 .. FailRank /\ cycle' \in SUBSET Edges
         /\ canaries' \in [Zones -> Canaries \cup {None}]
         /\ resolved' \in SUBSET (Edges \cup Canaries) /\ todo' \in SUBSET Zones
<1>1. changed' \in BOOLEAN /\ anyChanges' \in BOOLEAN
  BY DEF Exit
<1>2. canaries' \in [Zones -> Canaries \cup {None}]
  BY DEF Exit
<1>3. tier' \in 1 .. FailRank
  BY DEF Exit, FailRank
<1>. QED
  BY <1>1, <1>2, <1>3 DEF Exit

(* A file that is not written, or only some of them.                       *)
LEMMA StateTypes ==
  ASSUME TypeOK
  PROVE  \A done \in SUBSET Edges :
            [e \in Edges |-> IF e \in done THEN StatesSet[e] ELSE edgeState[e]]
               \in [Edges -> {"in", "out"}]
<1>1. edgeState \in [Edges -> {"in", "out"}]
  BY DEF TypeOK
<1>2. \A e \in Edges : StatesSet[e] \in {"in", "out"}
  BY <1>1 DEF StatesSet
<1>3. \A e \in Edges : edgeState[e] \in {"in", "out"}
  BY <1>1
<1>. TAKE done \in SUBSET Edges
<1>4. \A e \in Edges : (IF e \in done THEN StatesSet[e] ELSE edgeState[e]) \in {"in", "out"}
  BY <1>2, <1>3
<1>. QED
  BY <1>4

LEMMA TypeInit == Init => TypeOK
<1>. SUFFICES ASSUME Init PROVE TypeOK
  OBVIOUS
<1>1. /\ zoneMtimes \in [Zones -> Mtimes \cup {None}]
      /\ activeCanaries \in [Zones -> Canaries \cup {None}]
      /\ canaries \in [Zones -> Canaries \cup {None}]
  BY DEF Init
<1>2. zoneFile \in [Zones -> SUBSET (Edges \cup Canaries)]
  BY DEF Init
<1>3. edgeState \in [Edges -> {"in", "out"}]
  BY DEF Init
<1>4. tier \in 1 .. FailRank
  BY DEF Init, FailRank
<1>5. changed \in BOOLEAN /\ anyChanges \in BOOLEAN
  BY DEF Init
<1>. QED
  BY <1>1, <1>2, <1>3, <1>4, <1>5 DEF Init, TypeOK

LEMMA TypeBegin == TypeOK /\ Begin => TypeOK'
BY RunsAreTyped DEF TypeOK, Begin, stateFile, outputs, RunTypes, Ages, FailRank

(* The steps that choose the live edges.                                   *)
LEMMA TypeSelection ==
  ASSUME TypeOK,
         \/ KeepHealthyList \/ StartFilling \/ FillTier \/ ReAddLastLive
         \/ ServeForced \/ Rotate \/ KeepCurrent \/ ServeLastResort
  PROVE  TypeOK'
<1>1. pc # "idle" /\ run \in RunTypes
  BY DEF TypeOK, KeepHealthyList, StartFilling, FillTier, ReAddLastLive,
         ServeForced, Rotate, KeepCurrent, ServeLastResort
<1>2. KeepStillHealthy => live' \subseteq Edges
  BY <1>1, SelectionsAreEdges DEF KeepStillHealthy
<1>3. CASE KeepHealthyList
  BY <1>1, <1>2, <1>3 DEF KeepHealthyList, TypeOK, stateFile, outputs
<1>4. CASE StartFilling
  BY <1>1, <1>2, <1>4 DEF StartFilling, TypeOK, stateFile, outputs, FailRank
<1>5. CASE FillTier
  <2>1. live' \subseteq Edges
    BY <1>1, <1>5, SelectionsAreEdges DEF FillTier, Fastest, TierLeft, TypeOK
  <2>2. tier' \in 1 .. FailRank
    BY <1>5 DEF FillTier, TypeOK, FailRank
  <2>. QED
    BY <1>1, <1>5, <2>1, <2>2 DEF FillTier, TypeOK, stateFile, outputs
<1>6. CASE ReAddLastLive
  BY <1>1, <1>6 DEF ReAddLastLive, LastLiveReadded, TypeOK, stateFile, outputs
<1>7. ASSUME NEW chosen \in SUBSET Edges, NEW startOfCycle \in SUBSET Edges,
             Serve(chosen, startOfCycle)
      PROVE  TypeOK'
  BY <1>1, <1>7 DEF Serve, TypeOK, stateFile, outputs
<1>8. CASE ServeForced
  BY <1>1, <1>7, <1>8, SelectionsAreEdges DEF ServeForced, LeastOf, TypeOK
<1>9. CASE Rotate
  BY <1>1, <1>7, <1>9, SelectionsAreEdges DEF Rotate, TypeOK
<1>10. CASE KeepCurrent
  BY <1>1, <1>7, <1>10, SelectionsAreEdges DEF KeepCurrent, TypeOK
<1>11. CASE ServeLastResort
  BY <1>1, <1>7, <1>11 DEF ServeLastResort, LeastOf, TypeOK
<1>. QED
  BY <1>3, <1>4, <1>5, <1>6, <1>8, <1>9, <1>10, <1>11

(* The steps that publish them.                                            *)
LEMMA TypePublication ==
  ASSUME TypeOK,
         \/ \E z \in Zones : SkipZone(z) \/ WriteZone(z)
         \/ SetEdgeStates \/ WriteLiveList \/ SaveState \/ EndDryRun \/ Tick
  PROVE  TypeOK'
<1>1. CASE \E z \in Zones : SkipZone(z) \/ WriteZone(z)
  <2>1. PICK z \in Zones : SkipZone(z) \/ WriteZone(z)
    BY <1>1
  <2>2. Visit(z) /\ run \in RunTypes
    BY <2>1 DEF SkipZone, WriteZone, Visit, TypeOK
  <2>3. canaries' \in [Zones -> Canaries \cup {None}]
    BY <2>2, CanaryOfAZone DEF Visit, TypeOK
  <2>4. CASE SkipZone(z)
    BY <2>2, <2>3, <2>4 DEF SkipZone, Visit, TypeOK, selection, stateFile
  <2>5. CASE WriteZone(z)
    <3>1. /\ resolved' \in SUBSET (Edges \cup Canaries)
          /\ zoneFile' \in [Zones -> SUBSET (Edges \cup Canaries)]
      BY <2>2, <2>5, HostListsAreHosts DEF WriteZone, TypeOK
    <3>. QED
      BY <2>2, <2>3, <2>5, <3>1 DEF WriteZone, Visit, TypeOK, selection, stateFile
  <2>. QED
    BY <2>1, <2>4, <2>5
<1>2. CASE SetEdgeStates
  <2>1. edgeState' \in [Edges -> {"in", "out"}]
    BY <1>2 DEF SetEdgeStates, StatesSet, TypeOK
  <2>. QED
    BY <1>2, <2>1 DEF SetEdgeStates, TypeOK, selection, stateFile
<1>3. CASE WriteLiveList
  BY <1>3 DEF WriteLiveList, TypeOK, selection, stateFile
<1>4. CASE SaveState
  <2>1. run \in RunTypes /\ 0 \in Ages
    BY <1>4, IntervalCoversGrace DEF SaveState, TypeOK, Ages
  <2>2. Exit
    BY <1>4 DEF SaveState
  <2>3. run.template \in [Zones -> Mtimes \cup {None}]
    BY <2>1 DEF RunTypes
  <2>. QED
    BY <1>4, <2>1, <2>2, <2>3, ExitTypes DEF SaveState, TypeOK, outputs
<1>5. CASE EndDryRun
  <2>1. Exit
    BY <1>5 DEF EndDryRun
  <2>. QED
    BY <1>5, <2>1, ExitTypes DEF EndDryRun, TypeOK, outputs, stateFile
<1>6. CASE Tick
  <2>1. age' \in Ages
    BY <1>6, IntervalCoversGrace DEF Tick, TypeOK, Ages
  <2>. QED
    BY <1>6, <2>1 DEF Tick, TypeOK, outputs, memory, selection
<1>. QED
  BY <1>1, <1>2, <1>3, <1>4, <1>5, <1>6

(* The deaths of a run.                                                    *)
LEMMA TypeCrash == ASSUME TypeOK, Crash PROVE TypeOK'
<1>1. Exit
  BY DEF Crash, CrashBetweenSteps, CrashWritingZone, CrashSettingStates,
         CrashWritingLiveList, CrashSaving
<1>2. CASE CrashBetweenSteps
  BY <1>1, <1>2, ExitTypes DEF CrashBetweenSteps, TypeOK, stateFile, outputs
<1>3. CASE \E z \in Zones : CrashWritingZone(z)
  BY <1>1, <1>3, ExitTypes DEF CrashWritingZone, TypeOK, stateFile
<1>4. CASE \E done \in SUBSET Edges : CrashSettingStates(done)
  <2>1. edgeState' \in [Edges -> {"in", "out"}]
    BY <1>4, StateTypes DEF CrashSettingStates
  <2>. QED
    BY <1>1, <1>4, <2>1, ExitTypes DEF CrashSettingStates, TypeOK, stateFile
<1>5. CASE CrashWritingLiveList
  BY <1>1, <1>5, ExitTypes DEF CrashWritingLiveList, TypeOK, stateFile
<1>6. CASE CrashSaving
  BY <1>1, <1>6, ExitTypes DEF CrashSaving, TypeOK, outputs
<1>. QED
  BY <1>2, <1>3, <1>4, <1>5, <1>6 DEF Crash

LEMMA TypeStep == TypeOK /\ [NextWithCrash]_vars => TypeOK'
<1>. SUFFICES ASSUME TypeOK, [NextWithCrash]_vars PROVE TypeOK'
  OBVIOUS
<1>1. CASE RunStep \/ Tick
  BY <1>1, TypeBegin, TypeSelection, TypePublication DEF RunStep
<1>2. CASE Crash
  BY <1>2, TypeCrash
<1>3. CASE UNCHANGED vars
  BY <1>3 DEF vars, stateFile, outputs, memory, selection, TypeOK
<1>. QED
  BY <1>1, <1>2, <1>3 DEF NextWithCrash, Next

(* Every file and every variable of a run keeps its type, and no run's     *)
(* inputs outlive it, whatever kills a run.                                *)
THEOREM TypeCorrect == SpecWithCrash => []TypeOK
BY TypeInit, TypeStep, PTL DEF SpecWithCrash

-----------------------------------------------------------------------------
(* Numbers have a least element: "the first by name", "the best tier".     *)
LEMMA LeastExists ==
  ASSUME NEW S \in SUBSET Nat, S # {}
  PROVE  \E m \in S : \A n \in S : m <= n
<1>. DEFINE R == OpToRel(<, Nat)
<1>1. \E m \in S : \A n \in S : ~(<<n, m>> \in R)
  <2>. HIDE DEF R
  <2>1. IsWellFoundedOn(R, Nat)
    BY NatLessThanWellFounded, Zenon DEF R
  <2>. QED
    BY <2>1, WFMin
<1>2. \A m, n \in Nat : ~(<<n, m>> \in R) => m <= n
  BY DEF OpToRel
<1>. QED
  BY <1>1, <1>2

LEMMA LeastOfChooses ==
  ASSUME NEW S \in SUBSET Edges, S # {}
  PROVE  LeastOf(S) # {}
BY LeastExists, NamesAreOrdered DEF LeastOf

(* Sets of edges are finite.                                               *)
LEMMA EdgeSets ==
  ASSUME NEW S \in SUBSET Edges
  PROVE  IsFiniteSet(S) /\ Cardinality(S) \in Nat /\ (S # {} <=> Cardinality(S) # 0)
BY NamesAreOrdered, FS_Subset, FS_CardinalityType, FS_EmptySet

-----------------------------------------------------------------------------
(* A run that has chosen its edges has not given up all of them.  While    *)
(* they are chosen it is not so: only the last resort ensures it.          *)
LiveSurvives == Selected /\ lastLive # {} => live # {}

LEMMA KeptWhenHealthy ==
  ASSUME TypeOK, TypeOK', KeepHealthyList
  PROVE  live' # {}
<1>1. run \in RunTypes /\ run.required \in Nat \ {0} /\ Required = run.required
  BY DEF KeepHealthyList, TypeOK, RunTypes, Required
<1>2. ForcedFirst \subseteq Edges /\ StillHealthy \subseteq Edges
  BY <1>1, SelectionsAreEdges
<1>3. PICK kept \in SUBSET (StillHealthy \ ForcedFirst) :
         /\ Cardinality(kept) = Lesser(Cardinality(StillHealthy \ ForcedFirst),
                                       Room(Cardinality(ForcedFirst)))
         /\ live' = ForcedFirst \cup kept
  BY DEF KeepHealthyList, KeepStillHealthy
<1>4. CASE ForcedFirst # {}
  BY <1>3, <1>4
<1>5. CASE ForcedFirst = {}
  <2>1. StillHealthy \ ForcedFirst = StillHealthy /\ Cardinality(ForcedFirst) = 0
    BY <1>5, FS_EmptySet
  <2>2. Cardinality(StillHealthy) = run.required
    BY DEF KeepHealthyList
  <2>3. Cardinality(kept) # 0
    BY <1>1, <1>3, <2>1, <2>2 DEF Lesser, Room
  <2>4. kept # {}
    BY <2>3, FS_EmptySet
  <2>. QED
    BY <1>3, <2>4
<1>. QED
  BY <1>4, <1>5

LEMMA LiveSurvivesStep ==
  ASSUME TypeOK, TypeOK', LiveSurvives, [NextWithCrash]_vars
  PROVE  LiveSurvives'
<1>1. CASE UNCHANGED <<pc, live, lastLive>>
  BY <1>1 DEF LiveSurvives, Selected
<1>2. CASE Begin
  BY <1>2 DEF Begin, LiveSurvives, Selected
<1>3. CASE KeepHealthyList
  BY <1>3, KeptWhenHealthy DEF LiveSurvives
<1>4. CASE StartFilling
  BY <1>4 DEF StartFilling, LiveSurvives, Selected
<1>5. CASE FillTier
  <2>1. pc' # "fill" => Cardinality(live') = run.required
    BY <1>5 DEF FillTier
  <2>2. run.required # 0
    BY <1>5 DEF FillTier, TypeOK, RunTypes
  <2>3. pc' # "fill" => live' # {}
    BY <2>1, <2>2, FS_EmptySet
  <2>. QED
    BY <2>3 DEF LiveSurvives, Selected
<1>6. CASE ReAddLastLive
  BY <1>6 DEF ReAddLastLive, LastLiveReadded, LiveSurvives, stateFile
<1>7. CASE ServeForced
  <2>1. Forced \subseteq Edges
    BY <1>7, SelectionsAreEdges DEF ServeForced, TypeOK
  <2>. QED
    BY <1>7, <2>1, LeastOfChooses DEF ServeForced, Serve, LiveSurvives
<1>8. CASE Rotate
  BY <1>8 DEF Rotate, Serve, LiveSurvives
<1>9. CASE KeepCurrent
  BY <1>9 DEF KeepCurrent, CurrentPassing, Serve, LiveSurvives
<1>10. CASE ServeLastResort
  BY <1>10, LeastOfChooses DEF ServeLastResort, Serve, LiveSurvives, stateFile, TypeOK
<1>11. CASE \E z \in Zones : SkipZone(z) \/ WriteZone(z)
  BY <1>1, <1>11 DEF SkipZone, WriteZone, Visit, selection, stateFile
<1>12. CASE SetEdgeStates \/ WriteLiveList
  BY <1>12 DEF SetEdgeStates, WriteLiveList, selection, stateFile, LiveSurvives, Selected
<1>13. CASE SaveState \/ EndDryRun \/ Crash
  BY <1>13 DEF SaveState, EndDryRun, Crash, CrashBetweenSteps, CrashWritingZone,
     CrashSettingStates, CrashWritingLiveList, CrashSaving, Exit, LiveSurvives, Selected
<1>14. CASE Tick \/ UNCHANGED vars
  BY <1>1, <1>14 DEF Tick, vars, memory, selection, stateFile
<1>. QED
  BY <1>2, <1>3, <1>4, <1>5, <1>6, <1>7, <1>8, <1>9, <1>10, <1>11, <1>12, <1>13, <1>14
     DEF NextWithCrash, Next, RunStep

(* Only a save changes the recorded live list, to what the run chose.      *)
LEMMA LiveListSaved ==
  ASSUME [NextWithCrash]_vars
  PROVE  UNCHANGED lastLive \/ (pc = "save" /\ lastLive' = live)
BY DEF NextWithCrash, Next, RunStep, Begin, KeepHealthyList, StartFilling, FillTier,
   ReAddLastLive, ServeForced, Rotate, KeepCurrent, ServeLastResort, Serve, SkipZone,
   WriteZone, Visit, SetEdgeStates, WriteLiveList, SaveState, EndDryRun, Tick, Crash,
   CrashBetweenSteps, CrashWritingZone, CrashSettingStates, CrashWritingLiveList,
   CrashSaving, vars, stateFile

(* A dnet that has live edges keeps some: no run, whatever its tests,      *)
(* modes, forced edges and required number, and wherever runs are killed,  *)
(* saves an empty live list over another (LiveNeverEmptied).               *)
THEOREM LiveListNeverEmptied == SpecWithCrash => LiveNeverEmptied
<1>1. Init => LiveSurvives
  BY DEF Init, LiveSurvives
<1>2. LiveSurvives /\ [NextWithCrash]_vars => [lastLive # {} => lastLive' # {}]_vars
  BY LiveListSaved DEF LiveSurvives, Selected
<1>. QED
  BY <1>1, <1>2, TypeInit, TypeStep, LiveSurvivesStep, PTL
     DEF SpecWithCrash, LiveNeverEmptied

-----------------------------------------------------------------------------
(* An edge that joined the live list before the last resort, in the tier   *)
(* loop, is as passing as one that is chosen in the end.                   *)
JoinedPassing(joined) ==
  \A e \in joined : /\ e \in run.listed
                    /\ \/ run.mode[e] = "blindforce"
                       \/ run.mode[e] # "unavailable" /\ run.health[e] # "fail"
NewcomersPass ==
  Selected \/ pc = "fill" => JoinedPassing(live \ lastLive)

LEMMA PassingIsNotFail ==
  ASSUME run \in RunTypes, NEW e \in Edges, Passing(e)
  PROVE  JoinedPassing({e})
<1>1. e \in Judged /\ Rank(run.health[e]) < FailRank
  BY DEF Passing, RankOf, FailRank
<1>2. run.health[e] # "fail"
  BY <1>1 DEF Rank, FailRank
<1>. QED
  BY <1>1, <1>2 DEF Judged, JoinedPassing

LEMMA ForcedJoin ==
  ASSUME TypeOK, run \in RunTypes
  PROVE  JoinedPassing(Forced)
<1>1. Blindforced \subseteq Edges /\ ForcedPassing \subseteq Edges
  BY SelectionsAreEdges
<1>2. JoinedPassing(Blindforced)
  BY DEF Blindforced, JoinedPassing
<1>3. JoinedPassing(ForcedPassing)
  BY <1>1, PassingIsNotFail DEF ForcedPassing, JoinedPassing
<1>. QED
  BY <1>2, <1>3 DEF Forced, JoinedPassing

LEMMA NewcomersPassStep ==
  ASSUME TypeOK, TypeOK', NewcomersPass, [NextWithCrash]_vars
  PROVE  NewcomersPass'
<1>1. CASE UNCHANGED <<pc, run, live, lastLive>>
  BY <1>1 DEF NewcomersPass, JoinedPassing, Selected
<1>2. CASE Begin
  BY <1>2 DEF Begin, NewcomersPass, Selected
<1>3. CASE KeepHealthyList \/ StartFilling
  <2>1. run \in RunTypes /\ UNCHANGED <<run, lastLive>> /\ KeepStillHealthy
    BY <1>3 DEF KeepHealthyList, StartFilling, TypeOK, stateFile
  <2>2. live' \subseteq Forced \cup lastLive
    BY <2>1 DEF KeepStillHealthy, ForcedFirst, Forced, StillHealthy
  <2>. QED
    BY <2>1, <2>2, ForcedJoin DEF NewcomersPass, JoinedPassing
<1>4. CASE FillTier
  <2>1. run \in RunTypes /\ UNCHANGED <<run, lastLive>>
    BY <1>4 DEF FillTier, TypeOK, stateFile
  <2>2. JoinedPassing(live \ lastLive)
    BY <1>4 DEF FillTier, NewcomersPass
  <2>3. TierLeft(tier) \subseteq Edges /\ \A e \in TierLeft(tier) : Passing(e)
    BY <1>4, <2>1, SelectionsAreEdges DEF FillTier, TierLeft, Passing
  <2>4. JoinedPassing(TierLeft(tier))
    BY <2>1, <2>3, PassingIsNotFail DEF JoinedPassing
  <2>5. live' \subseteq live \cup TierLeft(tier)
    BY <1>4 DEF FillTier, Fastest
  <2>. QED
    BY <2>1, <2>2, <2>4, <2>5 DEF NewcomersPass, JoinedPassing
<1>5. CASE ReAddLastLive
  BY <1>5 DEF ReAddLastLive, LastLiveReadded, stateFile, NewcomersPass, JoinedPassing
<1>6. ASSUME NEW chosen, NEW startOfCycle, Serve(chosen, startOfCycle),
             JoinedPassing(chosen \ lastLive)
      PROVE  NewcomersPass'
  BY <1>6 DEF Serve, stateFile, NewcomersPass, JoinedPassing
<1>7. CASE ServeForced
  <2>1. JoinedPassing(LeastOf(Forced))
    BY <1>7, ForcedJoin DEF ServeForced, TypeOK, LeastOf, JoinedPassing
  <2>. QED
    BY <1>6, <1>7, <2>1 DEF ServeForced, JoinedPassing
<1>8. CASE Rotate
  <2>1. run \in RunTypes
    BY <1>8 DEF Rotate, TypeOK
  <2>2. \A e \in Unused : e \in Edges /\ Passing(e)
    BY <2>1, SelectionsAreEdges DEF Unused, Candidates
  <2>. QED
    BY <1>6, <1>8, <2>1, <2>2, PassingIsNotFail DEF Rotate, JoinedPassing
<1>9. CASE KeepCurrent
  BY <1>6, <1>9 DEF KeepCurrent, CurrentEdge, JudgedLastLive, JoinedPassing
<1>10. CASE ServeLastResort
  BY <1>6, <1>10 DEF ServeLastResort, LeastOf, JoinedPassing
<1>11. CASE \E z \in Zones : SkipZone(z) \/ WriteZone(z)
  BY <1>1, <1>11 DEF SkipZone, WriteZone, Visit, selection, stateFile
<1>12. CASE SetEdgeStates \/ WriteLiveList
  BY <1>12 DEF SetEdgeStates, WriteLiveList, selection, stateFile, NewcomersPass,
     JoinedPassing, Selected
<1>13. CASE SaveState \/ EndDryRun \/ Crash
  BY <1>13 DEF SaveState, EndDryRun, Crash, CrashBetweenSteps, CrashWritingZone,
     CrashSettingStates, CrashWritingLiveList, CrashSaving, Exit, NewcomersPass, Selected
<1>14. CASE Tick \/ UNCHANGED vars
  BY <1>1, <1>14 DEF Tick, vars, memory, selection, stateFile
<1>. QED
  BY <1>2, <1>3, <1>4, <1>5, <1>7, <1>8, <1>9, <1>10, <1>11, <1>12, <1>13, <1>14
     DEF NextWithCrash, Next, RunStep

(* No edge enters service without a passing test of this very run, or on   *)
(* an operator's blindforce: neither selection, nor its last resort, lets  *)
(* an edge in that fails, is unavailable or has left the edge list         *)
(* (NewLiveIsPassing).                                                     *)
THEOREM NewLiveEdgesPass == SpecWithCrash => []NewLiveIsPassing
<1>1. Init => NewcomersPass
  BY DEF Init, NewcomersPass, Selected
<1>2. NewcomersPass => NewLiveIsPassing
  BY DEF NewcomersPass, NewLiveIsPassing, JoinedPassing
<1>. QED
  BY <1>1, <1>2, TypeInit, TypeStep, NewcomersPassStep, PTL DEF SpecWithCrash

-----------------------------------------------------------------------------
(* The canary in a zone's file is the one on record: in the memory of a    *)
(* run that writes, in the state file otherwise.                           *)
Recorded(z) == IF pc = "idle" \/ run.dry THEN activeCanaries[z] ELSE canaries[z]
CanaryIn(hosts, canary) ==
  hosts \cap Canaries = IF canary = None THEN {} ELSE {canary}
CanariesOnRecord == \A z \in Zones : CanaryIn(zoneFile[z], Recorded(z))

(* What generate_zone writes holds the zone's canary, whichever edge made  *)
(* room for it and whichever names of edges failed to resolve.             *)
LEMMA WrittenCanary ==
  ASSUME TypeOK, run \in RunTypes, NEW z \in Zones,
         NEW hosts \in HostLists(z), NEW dropped \in SUBSET Unresolvable
  PROVE  CanaryIn(hosts \ dropped, UsableCanary(z))
<1>1. live \cap Canaries = {} /\ dropped \cap Canaries = {}
  BY CanariesAreAddresses, ChoicesAreTyped DEF TypeOK
<1>2. CASE UsableCanary(z) = None
  BY <1>1, <1>2 DEF HostLists, CanaryIn
<1>3. CASE UsableCanary(z) # None
  <2>1. UsableCanary(z) \in Canaries
    BY <1>3, CanaryOfAZone
  <2>2. PICK removed \in live : hosts = (live \ {removed}) \cup {UsableCanary(z)}
    BY <1>3 DEF HostLists
  <2>. QED
    BY <1>1, <1>3, <2>1, <2>2 DEF CanaryIn
<1>. QED
  BY <1>2, <1>3

LEMMA VisitKeepsRecord ==
  ASSUME TypeOK, CanariesOnRecord, NEW z \in Zones, SkipZone(z) \/ WriteZone(z)
  PROVE  CanariesOnRecord'
<1>1. Visit(z) /\ run \in RunTypes /\ UNCHANGED <<pc, run, activeCanaries>>
  BY DEF SkipZone, WriteZone, Visit, TypeOK, selection, stateFile
<1>2. pc # "idle" /\ canaries' = [canaries EXCEPT ![z] = UsableCanary(z)]
  BY <1>1 DEF Visit
<1>3. /\ canaries'[z] = UsableCanary(z)
      /\ \A y \in Zones \ {z} : canaries'[y] = canaries[y]
  BY <1>2 DEF TypeOK
<1>4. CASE run.dry
  <2>1. zoneFile' = zoneFile
    BY <1>4 DEF SkipZone, WriteZone
  <2>. QED
    BY <1>1, <1>4, <2>1 DEF CanariesOnRecord, Recorded
<1>5. CASE ~run.dry
  <2>1. CASE SkipZone(z)
    <3>1. UsableCanary(z) = canaries[z] /\ zoneFile' = zoneFile
      BY <2>1 DEF SkipZone, UpToDate, CanaryChanged
    <3>2. \A y \in Zones : canaries'[y] = canaries[y]
      BY <1>3, <3>1
    <3>. QED
      BY <1>1, <1>2, <1>5, <3>1, <3>2 DEF CanariesOnRecord, Recorded
  <2>2. CASE WriteZone(z)
    <3>1. PICK hosts \in HostLists(z), dropped \in SUBSET Unresolvable :
            zoneFile' = [zoneFile EXCEPT ![z] = hosts \ dropped]
      BY <1>5, <2>2 DEF WriteZone
    <3>2. /\ zoneFile'[z] = hosts \ dropped
          /\ \A y \in Zones \ {z} : zoneFile'[y] = zoneFile[y]
      BY <3>1 DEF TypeOK
    <3>3. CanaryIn(zoneFile'[z], canaries'[z])
      BY <1>1, <1>3, <3>2, WrittenCanary
    <3>. QED
      BY <1>1, <1>2, <1>3, <1>5, <3>2, <3>3 DEF CanariesOnRecord, Recorded, CanaryIn
  <2>. QED
    BY <2>1, <2>2
<1>. QED
  BY <1>4, <1>5

LEMMA CanariesOnRecordStep ==
  ASSUME TypeOK, CanariesOnRecord, [Next]_vars
  PROVE  CanariesOnRecord'
<1>1. CASE UNCHANGED <<pc, run, zoneFile, activeCanaries, canaries>>
  BY <1>1 DEF CanariesOnRecord, Recorded, CanaryIn
<1>2. CASE Begin
  BY <1>2 DEF Begin, stateFile, outputs, CanariesOnRecord, Recorded, CanaryIn
<1>3. CASE \/ KeepHealthyList \/ StartFilling \/ FillTier \/ ReAddLastLive
           \/ ServeForced \/ Rotate \/ KeepCurrent \/ ServeLastResort
  <2>1. pc # "idle" /\ pc' # "idle" /\ UNCHANGED <<run, zoneFile, activeCanaries, canaries>>
    BY <1>3 DEF KeepHealthyList, StartFilling, FillTier, ReAddLastLive, ServeForced,
       Rotate, KeepCurrent, ServeLastResort, Serve, stateFile, outputs
  <2>. QED
    BY <2>1 DEF CanariesOnRecord, Recorded, CanaryIn
<1>4. CASE \E z \in Zones : SkipZone(z) \/ WriteZone(z)
  BY <1>4, VisitKeepsRecord
<1>5. CASE SetEdgeStates \/ WriteLiveList
  <2>1. pc # "idle" /\ pc' # "idle" /\ UNCHANGED <<run, zoneFile, activeCanaries, canaries>>
    BY <1>5 DEF SetEdgeStates, WriteLiveList, selection, stateFile
  <2>. QED
    BY <2>1 DEF CanariesOnRecord, Recorded, CanaryIn
<1>6. CASE SaveState
  BY <1>6 DEF SaveState, Exit, outputs, CanariesOnRecord, Recorded, CanaryIn
<1>7. CASE EndDryRun
  BY <1>7 DEF EndDryRun, Exit, outputs, stateFile, CanariesOnRecord, Recorded, CanaryIn
<1>8. CASE Tick \/ UNCHANGED vars
  BY <1>1, <1>8 DEF Tick, vars, memory, selection, stateFile, outputs
<1>. QED
  BY <1>2, <1>3, <1>4, <1>5, <1>6, <1>7, <1>8 DEF Next, RunStep

(* Between runs the canary on record for a zone is the canary in its file, *)
(* whatever canary files, failing canaries, dry runs, incomplete runs and  *)
(* resolver failures the runs met (CanaryRecordTrue).                      *)
THEOREM CanaryRecordsTrue == Spec => []CanaryRecordTrue
<1>1. Init => CanariesOnRecord
  BY DEF Init, CanariesOnRecord, Recorded, CanaryIn
<1>2. CanariesOnRecord => CanaryRecordTrue
  BY DEF CanariesOnRecord, Recorded, CanaryIn, CanaryRecordTrue
<1>3. TypeOK /\ [Next]_vars => TypeOK'
  BY TypeStep DEF NextWithCrash
<1>. QED
  BY <1>1, <1>2, <1>3, TypeInit, CanariesOnRecordStep, PTL DEF Spec

-----------------------------------------------------------------------------
(* The quality of what a run chooses: the best edges serve, and healthy    *)
(* ones stay.                                                              *)

(* The steps that make the choice; no other step changes it.               *)
HealthBased == KeepHealthyList \/ StartFilling \/ FillTier \/ ReAddLastLive
TimeBased == ServeForced \/ Rotate \/ KeepCurrent \/ ServeLastResort

LEMMA ChoiceStays ==
  ASSUME [NextWithCrash]_vars, ~HealthBased, ~TimeBased, Selected' \/ pc' = "fill"
  PROVE  /\ UNCHANGED <<run, live, changed, tier, lastLive>>
         /\ (pc = "fill" <=> pc' = "fill") /\ (Selected <=> Selected')
<1>1. ~Begin /\ ~SaveState /\ ~EndDryRun /\ ~Crash
  BY DEF Begin, SaveState, EndDryRun, Crash, CrashBetweenSteps, CrashWritingZone,
     CrashSettingStates, CrashWritingLiveList, CrashSaving, Exit, Selected
<1>2. CASE (\E z \in Zones : SkipZone(z) \/ WriteZone(z)) \/ SetEdgeStates \/ WriteLiveList
  BY <1>2 DEF SkipZone, WriteZone, Visit, SetEdgeStates, WriteLiveList, selection, stateFile,
     Selected
<1>3. CASE Tick \/ UNCHANGED vars
  BY <1>3 DEF Tick, vars, memory, selection, stateFile, Selected
<1>. QED
  BY <1>1, <1>2, <1>3 DEF NextWithCrash, Next, RunStep, HealthBased, TimeBased

(* What a run knows of the edges stays as it is while it goes on.          *)
LEMMA KnowledgeStays ==
  ASSUME UNCHANGED <<run, lastLive>>
  PROVE  /\ Judged' = Judged /\ StillHealthy' = StillHealthy
         /\ Blindforced' = Blindforced /\ ForcedPassing' = ForcedPassing
         /\ Forced' = Forced /\ Required' = Required
         /\ \A e : RankOf(e)' = RankOf(e) /\ Passing(e)' = Passing(e)
<1>1. Judged' = Judged /\ Blindforced' = Blindforced /\ Required' = Required
  BY DEF Judged, Blindforced, Required
<1>2. \A e : RankOf(e)' = RankOf(e)
  BY <1>1 DEF RankOf
<1>3. \A e : Passing(e)' = Passing(e)
  BY <1>2 DEF Passing
<1>4. ForcedPassing' = ForcedPassing /\ StillHealthy' = StillHealthy
  BY <1>1, <1>3 DEF ForcedPassing, StillHealthy
<1>. QED
  BY <1>1, <1>2, <1>3, <1>4 DEF Forced

LEMMA RanksAreNumbers == \A e : RankOf(e) \in 1 .. FailRank
<1>1. \A h : Rank(h) \in 1 .. FailRank
  BY DEF Rank, FailRank
<1>. QED
  BY <1>1 DEF RankOf, FailRank

(* Only a health-based run whose list is not complete and healthy comes to *)
(* fill the tiers.                                                         *)
FillsForAReason ==
  pc = "fill" => ~run.timed /\ Cardinality(StillHealthy) # run.required

LEMMA FillsForAReasonStep ==
  ASSUME TypeOK, FillsForAReason, [NextWithCrash]_vars
  PROVE  FillsForAReason'
<1>. SUFFICES ASSUME pc' = "fill"
              PROVE  ~run'.timed /\ Cardinality(StillHealthy') # run'.required
  BY DEF FillsForAReason
<1>1. CASE StartFilling
  <2>1. UNCHANGED <<run, lastLive>>
    BY <1>1 DEF StartFilling, stateFile
  <2>. QED
    BY <1>1, <2>1, KnowledgeStays DEF StartFilling
<1>2. CASE FillTier
  <2>1. UNCHANGED <<run, lastLive>> /\ pc = "fill"
    BY <1>2 DEF FillTier, stateFile
  <2>. QED
    BY <2>1, KnowledgeStays DEF FillsForAReason
<1>3. CASE KeepHealthyList \/ ReAddLastLive \/ TimeBased
  BY <1>3 DEF KeepHealthyList, ReAddLastLive, TimeBased, ServeForced, Rotate, KeepCurrent,
     ServeLastResort, Serve
<1>4. CASE ~TimeBased /\ ~HealthBased
  <2>1. UNCHANGED <<run, lastLive>> /\ pc = "fill"
    BY <1>4, ChoiceStays
  <2>. QED
    BY <2>1, KnowledgeStays DEF FillsForAReason
<1>. QED
  BY <1>1, <1>2, <1>3, <1>4 DEF HealthBased

-----------------------------------------------------------------------------
(* Timed selection. *)

(* Of some edges, the best tier's; of the last live edges, the current one. *)
LEMMA BestTierExists ==
  ASSUME NEW S \in SUBSET Edges, S # {}
  PROVE  \E e \in S : \A f \in S : RankOf(e) <= RankOf(f)
<1>. DEFINE ranks == {RankOf(e) : e \in S}
<1>1. ranks \in SUBSET Nat /\ ranks # {}
  BY RanksAreNumbers
<1>2. PICK r \in ranks : \A q \in ranks : r <= q
  BY <1>1, LeastExists
<1>. QED
  BY <1>2

LEMMA CurrentEdgeExists ==
  ASSUME TypeOK, run \in RunTypes, JudgedLastLive # {}
  PROVE  CurrentEdge # {}
<1>1. JudgedLastLive \in SUBSET Edges
  BY SelectionsAreEdges DEF JudgedLastLive
<1>2. PICK e \in JudgedLastLive : \A f \in JudgedLastLive : RankOf(e) <= RankOf(f)
  BY <1>1, BestTierExists
<1>. DEFINE best == {f \in JudgedLastLive : RankOf(f) = RankOf(e)}
<1>3. best \in SUBSET Nat /\ best # {}
  BY <1>1, NamesAreOrdered
<1>4. PICK g \in best : \A f \in best : g <= f
  BY <1>3, LeastExists
<1>5. \A f \in JudgedLastLive : RankOf(g) < RankOf(f) \/ (RankOf(g) = RankOf(f) /\ g <= f)
  <2>1. SUFFICES ASSUME NEW f \in JudgedLastLive
                 PROVE  RankOf(g) < RankOf(f) \/ (RankOf(g) = RankOf(f) /\ g <= f)
    OBVIOUS
  <2>2. RankOf(g) = RankOf(e) /\ RankOf(e) <= RankOf(f)
    BY <1>2
  <2>3. CASE RankOf(f) = RankOf(e)
    BY <1>4, <2>2, <2>3
  <2>4. CASE RankOf(f) # RankOf(e)
    BY <2>2, <2>4, RanksAreNumbers DEF FailRank
  <2>. QED
    BY <2>3, <2>4
<1>. QED
  BY <1>5 DEF CurrentEdge

LEMMA CurrentEdgeIsOne ==
  ASSUME TypeOK, run \in RunTypes, NEW e \in CurrentEdge
  PROVE  CurrentEdge = {e}
<1>1. SUFFICES ASSUME NEW f \in CurrentEdge PROVE f = e
  OBVIOUS
<1>2. e \in Nat /\ f \in Nat
  BY SelectionsAreEdges, NamesAreOrdered
<1>3. /\ RankOf(e) < RankOf(f) \/ (RankOf(e) = RankOf(f) /\ e <= f)
      /\ RankOf(f) < RankOf(e) \/ (RankOf(f) = RankOf(e) /\ f <= e)
  BY DEF CurrentEdge
<1>. QED
  BY <1>2, <1>3, RanksAreNumbers DEF FailRank

(* Without a candidate no edge that was not live passes.                   *)
LEMMA NoCandidate ==
  ASSUME TypeOK, run \in RunTypes, Candidates = {}, NEW f \in Judged \ lastLive
  PROVE  ~Passing(f)
<1>1. SUFFICES ASSUME Passing(f) PROVE FALSE
  OBVIOUS
<1>2. Judged \ lastLive \in SUBSET Edges
  BY SelectionsAreEdges
<1>3. PICK e \in Judged \ lastLive : \A g \in Judged \ lastLive : RankOf(e) <= RankOf(g)
  BY <1>2, BestTierExists
<1>4. Passing(e)
  BY <1>1, <1>3, RanksAreNumbers DEF Passing, FailRank
<1>. QED
  BY <1>3, <1>4 DEF Candidates

LEMMA TimedStep ==
  ASSUME TypeOK, FillsForAReason, TimedServesBestTier, [NextWithCrash]_vars
  PROVE  TimedServesBestTier'
<1>. DEFINE Best(chosen) == \E e \in Judged : /\ chosen = {e} /\ Passing(e)
                                              /\ \A f \in Judged \ lastLive :
                                                   RankOf(e) <= RankOf(f)
<1>1. ASSUME TimeBased, Forced = {}, NEW g \in Judged, Passing(g)
      PROVE  Best(live')
  <2>1. run \in RunTypes
    BY <1>1 DEF TimeBased, ServeForced, Rotate, KeepCurrent, ServeLastResort, TypeOK
  <2>2. CASE Rotate
    <3>1. PICK e \in Unused : live' = {e}
      BY <2>2 DEF Rotate, Serve
    <3>2. e \in Candidates
      BY DEF Unused
    <3>. QED
      BY <3>1, <3>2 DEF Candidates
  <2>3. CASE KeepCurrent
    <3>1. live' = CurrentEdge /\ ~Move /\ CurrentPassing
      BY <2>3 DEF KeepCurrent, Serve
    <3>2. PICK e \in CurrentEdge : Passing(e)
      BY <3>1 DEF CurrentPassing
    <3>3. e \in Judged /\ CurrentEdge = {e}
      BY <2>1, <3>2, CurrentEdgeIsOne DEF CurrentEdge, JudgedLastLive
    <3>4. ASSUME NEW f \in Judged \ lastLive PROVE RankOf(e) <= RankOf(f)
      <4>1. CASE Candidates = {}
        <5>1. ~Passing(f)
          BY <2>1, <4>1, NoCandidate
        <5>. QED
          BY <3>2, <5>1, RanksAreNumbers DEF Passing, FailRank
      <4>2. CASE Candidates # {}
        <5>1. PICK c \in Candidates : TRUE
          BY <4>2
        <5>2. ~(RankOf(c) < RankOf(e))
          BY <3>1, <3>3, <4>2, <5>1 DEF Move, BetterTier
        <5>3. RankOf(c) <= RankOf(f)
          BY <3>4 DEF Candidates
        <5>. QED
          BY <5>2, <5>3, RanksAreNumbers DEF FailRank
      <4>. QED
        BY <4>1, <4>2
    <3>. QED
      BY <3>1, <3>2, <3>3, <3>4
  <2>4. CASE ServeLastResort
    <3>1. ~CurrentPassing /\ Candidates = {}
      BY <2>4 DEF ServeLastResort, Move
    <3>2. g \in JudgedLastLive
      BY <1>1, <2>1, <3>1, NoCandidate DEF JudgedLastLive
    <3>3. PICK e \in CurrentEdge : TRUE
      BY <2>1, <3>2, CurrentEdgeExists
    <3>4. RankOf(e) <= RankOf(g)
      BY <3>2, <3>3, RanksAreNumbers DEF CurrentEdge, FailRank
    <3>5. Passing(e)
      BY <1>1, <3>4, RanksAreNumbers DEF Passing, FailRank
    <3>. QED
      BY <3>1, <3>3, <3>5 DEF CurrentPassing
  <2>. QED
    BY <1>1, <2>2, <2>3, <2>4 DEF TimeBased, ServeForced
<1>2. SUFFICES ASSUME Selected', run'.timed, Forced' = {}, NEW g \in Judged', Passing(g)'
               PROVE  \E e \in Judged' : /\ live' = {e} /\ Passing(e)'
                                         /\ \A f \in Judged' \ lastLive' :
                                              RankOf(e)' <= RankOf(f)'
  BY DEF TimedServesBestTier
<1>3. CASE TimeBased
  <2>1. UNCHANGED <<run, lastLive>>
    BY <1>3 DEF TimeBased, ServeForced, Rotate, KeepCurrent, ServeLastResort, Serve, stateFile
  <2>2. Best(live')
    BY <1>1, <1>2, <1>3, <2>1, KnowledgeStays
  <2>. QED
    BY <2>1, <2>2, KnowledgeStays
<1>4. CASE HealthBased
  <2>1. run' = run /\ ~run.timed
    BY <1>4 DEF HealthBased, KeepHealthyList, StartFilling, FillTier, ReAddLastLive,
       FillsForAReason
  <2>. QED
    BY <1>2, <2>1
<1>5. CASE ~TimeBased /\ ~HealthBased
  <2>1. UNCHANGED <<run, live, lastLive>> /\ Selected
    BY <1>2, <1>5, ChoiceStays
  <2>2. Best(live)
    BY <1>2, <2>1, KnowledgeStays DEF TimedServesBestTier
  <2>. QED
    BY <2>1, <2>2, KnowledgeStays
<1>. QED
  BY <1>3, <1>4, <1>5

(* Timed rotation serves one passing edge whenever any edge passes, of a   *)
(* tier no newcomer could better, by failover, upgrade or the timer        *)
(* (TimedServesBestTier), for every pool and wherever runs are killed.     *)
THEOREM TimedServesTheBest == SpecWithCrash => []TimedServesBestTier
<1>1. Init => TimedServesBestTier
  BY DEF Init, TimedServesBestTier, Selected
<1>2. Init => FillsForAReason
  BY DEF Init, FillsForAReason
<1>. QED
  BY <1>1, <1>2, TypeInit, TypeStep, FillsForAReasonStep, TimedStep, PTL DEF SpecWithCrash

-----------------------------------------------------------------------------
(* Health-based selection. *)

(* What is kept of the still healthy edges beside the forced ones: all of  *)
(* them, or enough to fill the list.                                       *)
LEMMA KeptIsAllOrEnough ==
  ASSUME TypeOK, TypeOK', run \in RunTypes, ~run.timed, KeepStillHealthy
  PROVE  /\ live' \subseteq ForcedFirst \cup StillHealthy /\ ForcedFirst \subseteq live'
         /\ StillHealthy \subseteq live' \/ Cardinality(live') >= run.required
<1>1. run.required \in Nat /\ Required = run.required
  BY DEF RunTypes, Required
<1>2. ForcedFirst \in SUBSET Edges /\ StillHealthy \in SUBSET Edges
  BY SelectionsAreEdges
<1>. DEFINE others == StillHealthy \ ForcedFirst
<1>3. PICK kept \in SUBSET others :
         /\ Cardinality(kept) = Lesser(Cardinality(others), Room(Cardinality(ForcedFirst)))
         /\ live' = ForcedFirst \cup kept
  BY DEF KeepStillHealthy
<1>4. others \in SUBSET Edges /\ kept \in SUBSET Edges /\ kept \cap ForcedFirst = {}
  BY <1>2
<1>. HIDE DEF others
<1>5. /\ IsFiniteSet(others) /\ Cardinality(others) \in Nat
      /\ IsFiniteSet(kept) /\ Cardinality(kept) \in Nat
      /\ IsFiniteSet(ForcedFirst) /\ Cardinality(ForcedFirst) \in Nat
  BY <1>2, <1>4, EdgeSets
<1>6. CASE Cardinality(kept) = Cardinality(others)
  <2>1. kept = others
    BY <1>5, <1>6, FS_Subset
  <2>. QED
    BY <1>3, <2>1 DEF others
<1>7. CASE Cardinality(kept) # Cardinality(others)
  <2>1. Cardinality(kept) = Room(Cardinality(ForcedFirst))
    BY <1>3, <1>7 DEF Lesser
  <2>2. Cardinality(ForcedFirst \cup kept)
          = Cardinality(ForcedFirst) + Cardinality(kept) - Cardinality(ForcedFirst \cap kept)
    BY <1>5, FS_Union
  <2>3. Cardinality(ForcedFirst \cap kept) = 0
    BY <1>4, FS_EmptySet
  <2>4. Cardinality(live') = Cardinality(ForcedFirst) + Cardinality(kept)
    BY <1>3, <1>5, <2>2, <2>3
  <2>5. Cardinality(live') >= run.required
    BY <1>1, <1>5, <2>1, <2>4 DEF Room
  <2>. QED
    BY <1>3, <2>5 DEF others
<1>. QED
  BY <1>6, <1>7

(* From the first forced edge on, a healthy edge is missing only from a    *)
(* list that is full.                                                      *)
HealthyOnesIn ==
  (Selected \/ pc = "fill") /\ ~run.timed /\ ~(StillHealthy \subseteq live) =>
     Cardinality(live) >= run.required

LEMMA HealthyOnesInStep ==
  ASSUME TypeOK, TypeOK', HealthyOnesIn, [NextWithCrash]_vars
  PROVE  HealthyOnesIn'
<1>. SUFFICES ASSUME Selected' \/ pc' = "fill", ~run'.timed, ~(StillHealthy' \subseteq live')
              PROVE  Cardinality(live') >= run'.required
  BY DEF HealthyOnesIn
<1>1. CASE KeepHealthyList \/ StartFilling
  <2>1. UNCHANGED <<run, lastLive>> /\ KeepStillHealthy /\ run \in RunTypes
    BY <1>1 DEF KeepHealthyList, StartFilling, TypeOK, stateFile
  <2>. QED
    BY <2>1, KnowledgeStays, KeptIsAllOrEnough
<1>2. CASE FillTier \/ ReAddLastLive
  <2>1. UNCHANGED <<run, lastLive>> /\ live \subseteq live' /\ pc = "fill" /\ run \in RunTypes
    BY <1>2 DEF FillTier, ReAddLastLive, LastLiveReadded, TypeOK, stateFile
  <2>2. ~(StillHealthy \subseteq live)
    BY <2>1, KnowledgeStays
  <2>3. Cardinality(live) >= run.required
    BY <2>1, <2>2 DEF HealthyOnesIn
  <2>4. live \in SUBSET Edges /\ live' \in SUBSET Edges
    BY DEF TypeOK
  <2>5. IsFiniteSet(live') /\ Cardinality(live') \in Nat /\ Cardinality(live) \in Nat
    BY <2>4, EdgeSets
  <2>6. Cardinality(live) <= Cardinality(live')
    BY <2>1, <2>5, FS_Subset
  <2>7. run.required \in Nat
    BY <2>1 DEF RunTypes
  <2>. QED
    BY <2>1, <2>3, <2>5, <2>6, <2>7
<1>3. CASE TimeBased
  <2>1. run'.timed
    BY <1>3 DEF TimeBased, ServeForced, Rotate, KeepCurrent, ServeLastResort, Serve
  <2>. QED
    BY <2>1
<1>4. CASE ~TimeBased /\ ~HealthBased
  <2>1. UNCHANGED <<run, live, lastLive>> /\ (Selected \/ pc = "fill")
    BY <1>4, ChoiceStays
  <2>. QED
    BY <2>1, KnowledgeStays DEF HealthyOnesIn
<1>. QED
  BY <1>1, <1>2, <1>3, <1>4 DEF HealthBased

(* An edge under goodenough that serves goes on serving unless a full list *)
(* takes its place (HealthyEdgesKept).                                     *)
THEOREM HealthyEdgesStay == SpecWithCrash => []HealthyEdgesKept
<1>1. Init => HealthyOnesIn
  BY DEF Init, HealthyOnesIn, Selected
<1>2. HealthyOnesIn => HealthyEdgesKept
  BY DEF HealthyOnesIn, HealthyEdgesKept
<1>. QED
  BY <1>1, <1>2, TypeInit, TypeStep, HealthyOnesInStep, PTL DEF SpecWithCrash

(* With no forced edge from outside, all of a complete healthy list is kept. *)
LEMMA CompleteListIsKept ==
  ASSUME TypeOK, run \in RunTypes, ~run.timed, KeepStillHealthy,
         Cardinality(StillHealthy) = run.required,
         Blindforced \cup ForcedPassing \subseteq StillHealthy
  PROVE  live' = StillHealthy
<1>1. ForcedFirst = Blindforced /\ ForcedFirst \subseteq StillHealthy
  BY DEF ForcedFirst
<1>2. ForcedFirst \in SUBSET Edges /\ StillHealthy \in SUBSET Edges
  BY SelectionsAreEdges
<1>. DEFINE others == StillHealthy \ ForcedFirst
<1>3. PICK kept \in SUBSET others :
         /\ Cardinality(kept) = Lesser(Cardinality(others), Room(Cardinality(ForcedFirst)))
         /\ live' = ForcedFirst \cup kept
  BY DEF KeepStillHealthy
<1>4. /\ IsFiniteSet(StillHealthy) /\ Cardinality(StillHealthy) \in Nat
      /\ IsFiniteSet(ForcedFirst) /\ Cardinality(ForcedFirst) \in Nat
  BY <1>2, EdgeSets
<1>5. IsFiniteSet(others) /\ Cardinality(others) \in Nat
  BY <1>2, EdgeSets
<1>6. Cardinality(others) = Cardinality(StillHealthy) - Cardinality(ForcedFirst)
  <2>1. StillHealthy \cap ForcedFirst = ForcedFirst
    BY <1>1
  <2>. QED
    BY <1>4, <2>1, FS_Difference
<1>. HIDE DEF others
<1>7. Room(Cardinality(ForcedFirst)) = Cardinality(others)
  BY <1>4, <1>5, <1>6 DEF Room, Required
<1>8. Cardinality(kept) = Cardinality(others)
  BY <1>3, <1>7 DEF Lesser
<1>9. kept = others
  BY <1>5, <1>8, FS_Subset
<1>. QED
  BY <1>1, <1>3, <1>9 DEF others

LEMMA StableStep ==
  ASSUME TypeOK, FillsForAReason, StableWhenHealthy, [NextWithCrash]_vars
  PROVE  StableWhenHealthy'
<1>. SUFFICES ASSUME Selected', ~run'.timed, lastLive' = StillHealthy',
                     Cardinality(lastLive') = run'.required,
                     Blindforced' \cup ForcedPassing' \subseteq lastLive'
              PROVE  live' = lastLive' /\ ~changed'
  BY DEF StableWhenHealthy
<1>1. CASE KeepHealthyList
  <2>1. UNCHANGED <<run, lastLive>> /\ KeepStillHealthy /\ run \in RunTypes
    BY <1>1 DEF KeepHealthyList, TypeOK, stateFile
  <2>2. live' = StillHealthy
    BY <2>1, KnowledgeStays, CompleteListIsKept
  <2>3. ForcedPassing \ StillHealthy = {} /\ Blindforced \ lastLive = {}
    BY <2>1, KnowledgeStays
  <2>. QED
    BY <1>1, <2>1, <2>2, <2>3, KnowledgeStays DEF KeepHealthyList
<1>2. CASE FillTier \/ ReAddLastLive
  <2>1. UNCHANGED <<run, lastLive>> /\ pc = "fill"
    BY <1>2 DEF FillTier, ReAddLastLive, stateFile
  <2>. QED
    BY <2>1, KnowledgeStays DEF FillsForAReason
<1>3. CASE StartFilling
  BY <1>3 DEF StartFilling, Selected
<1>4. CASE TimeBased
  <2>1. run'.timed
    BY <1>4 DEF TimeBased, ServeForced, Rotate, KeepCurrent, ServeLastResort, Serve
  <2>. QED
    BY <2>1
<1>5. CASE ~TimeBased /\ ~HealthBased
  <2>1. UNCHANGED <<run, live, lastLive, changed>> /\ Selected
    BY <1>5, ChoiceStays
  <2>. QED
    BY <2>1, KnowledgeStays DEF StableWhenHealthy
<1>. QED
  BY <1>1, <1>2, <1>3, <1>4, <1>5 DEF HealthBased

(* A complete list of healthy edges is left alone, and reported so         *)
(* (StableWhenHealthy), for every number of edges and every forced mode    *)
(* among them.                                                             *)
THEOREM HealthyListsAreStable == SpecWithCrash => []StableWhenHealthy
<1>1. Init => StableWhenHealthy
  BY DEF Init, StableWhenHealthy, Selected
<1>2. Init => FillsForAReason
  BY DEF Init, FillsForAReason
<1>. QED
  BY <1>1, <1>2, TypeInit, TypeStep, FillsForAReasonStep, StableStep, PTL DEF SpecWithCrash

-----------------------------------------------------------------------------
(* The tiers are filled in order: what has joined is of the tiers done,    *)
(* and nothing of these is left out.                                       *)
KeptOrForced == StillHealthy \cup Blindforced \cup ForcedPassing
TiersInOrder ==
  pc = "fill" => /\ \A e \in live \ KeptOrForced : RankOf(e) < tier
                 /\ \A f \in Judged \ live : tier <= RankOf(f)

(* The loop goes on only if it has taken all of a tier.                    *)
LEMMA TierIsExhausted ==
  ASSUME TypeOK, TypeOK', run \in RunTypes,
         NEW picked \in Fastest(TierLeft(tier), run.required - Cardinality(live)),
         live' = live \cup picked, Cardinality(live') # run.required
  PROVE  picked = TierLeft(tier)
<1>. DEFINE wanted == run.required - Cardinality(live)
<1>1. run.required \in Nat
  BY DEF RunTypes
<1>2. picked \in SUBSET TierLeft(tier) /\ live \in SUBSET Edges
      /\ TierLeft(tier) \in SUBSET Edges /\ live \cap picked = {}
  BY SelectionsAreEdges DEF TypeOK, TierLeft, Fastest
<1>3. /\ IsFiniteSet(live) /\ Cardinality(live) \in Nat
      /\ IsFiniteSet(TierLeft(tier)) /\ Cardinality(TierLeft(tier)) \in Nat
  BY <1>2, EdgeSets
<1>4. picked \in SUBSET Edges
  BY <1>2
<1>5. IsFiniteSet(picked) /\ Cardinality(picked) \in Nat
  BY <1>4, EdgeSets
<1>6. Cardinality(picked) = IF wanted < 0 THEN Cardinality(TierLeft(tier))
                            ELSE Lesser(Cardinality(TierLeft(tier)), wanted)
  BY DEF Fastest
<1>7. Cardinality(live') = Cardinality(live) + Cardinality(picked)
  <2>1. Cardinality(live \cap picked) = 0
    BY <1>2, FS_EmptySet
  <2>2. Cardinality(live \cup picked)
          = Cardinality(live) + Cardinality(picked) - Cardinality(live \cap picked)
    BY <1>3, <1>5, FS_Union
  <2>. QED
    BY <1>3, <1>5, <2>1, <2>2
<1>8. Cardinality(picked) = Cardinality(TierLeft(tier))
  BY <1>1, <1>3, <1>5, <1>6, <1>7 DEF Lesser
<1>. QED
  BY <1>2, <1>3, <1>8, FS_Subset

LEMMA TiersInOrderStep ==
  ASSUME TypeOK, TypeOK', FillsForAReason, TiersInOrder, [NextWithCrash]_vars
  PROVE  TiersInOrder'
<1>. SUFFICES ASSUME pc' = "fill"
              PROVE  /\ \A e \in live' \ KeptOrForced' : RankOf(e)' < tier'
                     /\ \A f \in Judged' \ live' : tier' <= RankOf(f)'
  BY DEF TiersInOrder
<1>1. CASE StartFilling
  <2>1. /\ UNCHANGED <<run, lastLive>> /\ KeepStillHealthy /\ run \in RunTypes
        /\ ~run.timed /\ tier' = 1
    BY <1>1 DEF StartFilling, TypeOK, stateFile
  <2>2. live' \subseteq KeptOrForced
    BY <2>1, KeptIsAllOrEnough DEF ForcedFirst, KeptOrForced
  <2>3. KeptOrForced' = KeptOrForced /\ \A e : RankOf(e)' = RankOf(e)
    BY <2>1, KnowledgeStays DEF KeptOrForced
  <2>. QED
    BY <2>1, <2>2, <2>3, RanksAreNumbers DEF FailRank
<1>2. CASE FillTier
  <2>1. /\ UNCHANGED <<run, lastLive>> /\ run \in RunTypes /\ tier' = tier + 1 /\ pc = "fill"
        /\ tier \in 1 .. FailRank
    BY <1>2 DEF FillTier, TypeOK, stateFile
  <2>2. PICK picked \in Fastest(TierLeft(tier), run.required - Cardinality(live)) :
          live' = live \cup picked /\ Cardinality(live') # run.required
    BY <1>2 DEF FillTier
  <2>3. picked = TierLeft(tier)
    BY <2>1, <2>2, TierIsExhausted
  <2>4. KeptOrForced' = KeptOrForced /\ Judged' = Judged /\ \A e : RankOf(e)' = RankOf(e)
    BY <2>1, KnowledgeStays DEF KeptOrForced
  <2>5. ASSUME NEW e \in live' \ KeptOrForced PROVE RankOf(e) < tier + 1
    <3>1. CASE e \in live
      BY <2>1, <2>5, <3>1, RanksAreNumbers DEF TiersInOrder, FailRank
    <3>2. CASE e \in picked
      BY <2>1, <2>3, <3>2 DEF TierLeft, FailRank
    <3>. QED
      BY <2>2, <2>5, <3>1, <3>2
  <2>6. ASSUME NEW f \in Judged \ live' PROVE tier + 1 <= RankOf(f)
    <3>1. f \in Judged \ live /\ f \notin TierLeft(tier)
      BY <2>2, <2>3, <2>6
    <3>2. tier <= RankOf(f) /\ RankOf(f) # tier
      BY <2>1, <3>1 DEF TiersInOrder, TierLeft
    <3>. QED
      BY <2>1, <3>2, RanksAreNumbers DEF FailRank
  <2>. QED
    BY <2>1, <2>4, <2>5, <2>6
<1>3. CASE KeepHealthyList \/ ReAddLastLive \/ TimeBased
  BY <1>3 DEF KeepHealthyList, ReAddLastLive, TimeBased, ServeForced, Rotate, KeepCurrent,
     ServeLastResort, Serve
<1>4. CASE ~TimeBased /\ ~HealthBased
  <2>1. UNCHANGED <<run, live, lastLive, tier>> /\ pc = "fill"
    BY <1>4, ChoiceStays
  <2>2. KeptOrForced' = KeptOrForced /\ Judged' = Judged /\ \A e : RankOf(e)' = RankOf(e)
    BY <2>1, KnowledgeStays DEF KeptOrForced
  <2>. QED
    BY <2>1, <2>2 DEF TiersInOrder
<1>. QED
  BY <1>1, <1>2, <1>3, <1>4 DEF HealthBased

LEMMA BestStep ==
  ASSUME TypeOK, TypeOK', TiersInOrder, BestEdgesChosen, [NextWithCrash]_vars
  PROVE  BestEdgesChosen'
<1>. SUFFICES ASSUME Selected', ~run'.timed, Established', changed',
                     NEW e \in live' \ KeptOrForced', NEW f \in Judged' \ live'
              PROVE  \/ RankOf(e)' < RankOf(f)'
                     \/ RankOf(e)' = RankOf(f)' /\ run'.average[e] <= run'.average[f]
  BY DEF BestEdgesChosen, KeptOrForced
<1>1. CASE KeepHealthyList
  <2>1. /\ UNCHANGED <<run, lastLive>> /\ KeepStillHealthy /\ run \in RunTypes
        /\ ~run.timed
    BY <1>1 DEF KeepHealthyList, TypeOK, stateFile
  <2>2. live' \subseteq KeptOrForced
    BY <2>1, KeptIsAllOrEnough DEF ForcedFirst, KeptOrForced
  <2>. QED
    BY <2>1, <2>2, KnowledgeStays DEF KeptOrForced
<1>2. CASE FillTier
  <2>1. /\ UNCHANGED <<run, lastLive>> /\ pc = "fill" /\ tier \in 1 .. FailRank
    BY <1>2 DEF FillTier, TypeOK, stateFile
  <2>2. PICK picked \in Fastest(TierLeft(tier), run.required - Cardinality(live)) :
          live' = live \cup picked
    BY <1>2 DEF FillTier
  <2>3. KeptOrForced' = KeptOrForced /\ Judged' = Judged /\ \A g : RankOf(g)' = RankOf(g)
    BY <2>1, KnowledgeStays DEF KeptOrForced
  <2>4. tier <= RankOf(f)
    BY <2>1, <2>2, <2>3 DEF TiersInOrder
  <2>5. CASE e \in live
    <3>1. RankOf(e) < tier
      BY <2>1, <2>3, <2>5 DEF TiersInOrder
    <3>. QED
      BY <2>1, <2>3, <2>4, <3>1, RanksAreNumbers DEF FailRank
  <2>6. CASE e \in picked
    <3>1. RankOf(e) = tier
      BY <2>6 DEF Fastest, TierLeft
    <3>2. CASE RankOf(f) = tier
      <4>1. f \in TierLeft(tier) \ picked
        BY <2>2, <2>3, <3>2 DEF TierLeft
      <4>2. run.average[e] <= run.average[f]
        BY <2>6, <4>1 DEF Fastest
      <4>. QED
        BY <2>1, <2>3, <3>1, <3>2, <4>2
    <3>3. CASE RankOf(f) # tier
      BY <2>1, <2>3, <2>4, <3>1, <3>3, RanksAreNumbers DEF FailRank
    <3>. QED
      BY <3>2, <3>3
  <2>. QED
    BY <2>2, <2>5, <2>6
<1>3. CASE StartFilling \/ ReAddLastLive
  BY <1>3 DEF StartFilling, ReAddLastLive, Selected
<1>4. CASE TimeBased
  <2>1. run'.timed
    BY <1>4 DEF TimeBased, ServeForced, Rotate, KeepCurrent, ServeLastResort, Serve
  <2>. QED
    BY <2>1
<1>5. CASE ~TimeBased /\ ~HealthBased
  <2>1. UNCHANGED <<run, live, lastLive, changed>> /\ Selected
    BY <1>5, ChoiceStays
  <2>2. /\ KeptOrForced' = KeptOrForced /\ Judged' = Judged /\ Established' = Established
        /\ \A g : RankOf(g)' = RankOf(g)
    BY <2>1, KnowledgeStays DEF KeptOrForced, Established
  <2>. QED
    BY <2>1, <2>2 DEF BestEdgesChosen, KeptOrForced
<1>. QED
  BY <1>1, <1>2, <1>3, <1>4, <1>5 DEF HealthBased

(* No judged edge is left out for one of a worse tier, or for a slower one *)
(* of its own, that is neither forced nor kept (BestEdgesChosen), for      *)
(* every pool, required number and overfull list of forced edges.          *)
THEOREM BestEdgesServe == SpecWithCrash => []BestEdgesChosen
<1>1. Init => BestEdgesChosen
  BY DEF Init, BestEdgesChosen, Selected
<1>2. Init => FillsForAReason /\ TiersInOrder
  BY DEF Init, FillsForAReason, TiersInOrder
<1>. QED
  BY <1>1, <1>2, TypeInit, TypeStep, FillsForAReasonStep, TiersInOrderStep, BestStep, PTL
     DEF SpecWithCrash
=============================================================================
