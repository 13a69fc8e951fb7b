-------------------------- MODULE PublicationProofs --------------------------
(***************************************************************************)
(* What the zone files and the edgestores hold once a run has published,   *)
(* and that EdgeManage implements DnetPromise, for every pool of edges,    *)
(* every set of zones and every choice of inputs.                          *)
(***************************************************************************)
EXTENDS EdgeManageProofs

Templated == {z \in Zones : run.template[z] # None}

(* The course of a run: it still has all templated zones to visit when it  *)
(* comes to publish, and none when it goes on with a full list.            *)
Course ==
  /\ pc # "idle" => run \in Runs /\ todo \subseteq Templated
  /\ pc \in {"select", "fill"} => todo = Templated
  /\ (pc \in {"livelist", "save"} /\ Established) => todo = {}

LEMMA ChoosingKeeps ==
  ASSUME HealthBased \/ TimeBased
  PROVE  /\ pc \in {"select", "fill"} /\ pc' \in {"fill", "publish"}
         /\ UNCHANGED <<run, stateFile, outputs, anyChanges, canaries, todo>>
BY DEF HealthBased, TimeBased, KeepHealthyList, StartFilling, FillTier, ReAddLastLive,
   ServeForced, Rotate, KeepCurrent, ServeLastResort, Serve

LEMMA VisitKeeps ==
  ASSUME NEW z, SkipZone(z) \/ WriteZone(z)
  PROVE  /\ pc = "publish" /\ pc' = "publish" /\ z \in todo /\ todo' = todo \ {z}
         /\ canaries' = [canaries EXCEPT ![z] = UsableCanary(z)]
         /\ Established /\ Established'
         /\ UNCHANGED <<run, live, changed, lastLive, zoneMtimes, activeCanaries, edgeState>>
<1>1. Visit(z)
  BY DEF SkipZone, WriteZone
<1>2. UNCHANGED <<run, live>> /\ Established
  BY <1>1 DEF Visit, selection
<1>3. Established'
  BY <1>2 DEF Established, Required
<1>. QED
  BY <1>1, <1>2, <1>3 DEF Visit, selection, stateFile

LEMMA CourseStep ==
  ASSUME Course, [NextWithCrash]_vars
  PROVE  Course'
<1>1. CASE Begin
  <2>1. pc' = "select" /\ run' \in Runs /\ todo' = Templated'
    BY <1>1 DEF Begin, Templated
  <2>. QED
    BY <2>1 DEF Course
<1>2. CASE HealthBased \/ TimeBased
  <2>1. Templated' = Templated
    BY <1>2, ChoosingKeeps DEF Templated
  <2>. QED
    BY <1>2, <2>1, ChoosingKeeps DEF Course
<1>3. CASE \E z \in Zones : SkipZone(z) \/ WriteZone(z)
  <2>1. PICK z \in Zones : SkipZone(z) \/ WriteZone(z)
    BY <1>3
  <2>2. pc = "publish" /\ pc' = "publish" /\ run' = run /\ todo' \subseteq todo
    BY <2>1, VisitKeeps
  <2>3. Templated' = Templated
    BY <2>2 DEF Templated
  <2>. QED
    BY <2>2, <2>3 DEF Course
<1>4. CASE SetEdgeStates
  <2>1. /\ pc = "publish" /\ pc' = "livelist" /\ UNCHANGED <<run, live, todo>>
        /\ (Established => todo = {})
    BY <1>4 DEF SetEdgeStates, selection
  <2>2. Templated' = Templated /\ Established' = Established
    BY <2>1 DEF Templated, Established, Required
  <2>. QED
    BY <2>1, <2>2 DEF Course
<1>5. CASE WriteLiveList
  <2>1. pc = "livelist" /\ pc' = "save" /\ UNCHANGED <<run, live, todo>>
    BY <1>5 DEF WriteLiveList, selection
  <2>2. Templated' = Templated /\ Established' = Established
    BY <2>1 DEF Templated, Established, Required
  <2>. QED
    BY <2>1, <2>2 DEF Course
<1>6. CASE SaveState \/ EndDryRun \/ Crash
  <2>1. pc' = "idle"
    BY <1>6 DEF SaveState, EndDryRun, Crash, CrashBetweenSteps, CrashWritingZone,
       CrashSettingStates, CrashWritingLiveList, CrashSaving, Exit
  <2>. QED
    BY <2>1 DEF Course
<1>7. CASE Tick \/ UNCHANGED vars
  <2>1. UNCHANGED <<pc, run, live, todo>>
    BY <1>7 DEF Tick, vars, memory, selection
  <2>2. Templated' = Templated /\ Established' = Established
    BY <2>1 DEF Templated, Established, Required
  <2>. QED
    BY <2>1, <2>2 DEF Course
<1>. QED
  BY <1>1, <1>2, <1>3, <1>4, <1>5, <1>6, <1>7
     DEF NextWithCrash, Next, RunStep, HealthBased, TimeBased

LEMMA CourseInit == Init => Course
BY DEF Init, Course

LEMMA NoKill == ASSUME [Next]_vars PROVE [NextWithCrash]_vars
BY DEF NextWithCrash

-----------------------------------------------------------------------------
(* Full zones.  A canary takes the place of one edge, so that a host list  *)
(* is as long as the live list.                                            *)
LEMMA HostListsAreFull ==
  ASSUME TypeOK, run \in RunTypes, NEW z \in Zones, NEW hosts \in HostLists(z)
  PROVE  Cardinality(hosts) = Cardinality(live)
<1>1. live \subseteq Edges /\ IsFiniteSet(live)
  BY NamesAreOrdered, FS_Subset DEF TypeOK
<1>2. CASE UsableCanary(z) = None
  BY <1>2 DEF HostLists
<1>3. CASE UsableCanary(z) # None
  <2>1. PICK removed \in live : hosts = (live \ {removed}) \cup {UsableCanary(z)}
    BY <1>3 DEF HostLists
  <2>2. UsableCanary(z) \notin live
    BY <1>1, <1>3, CanaryOfAZone, CanariesAreAddresses
  <2>. DEFINE rest == live \ {removed}
  <2>3. IsFiniteSet(rest) /\ Cardinality(rest) = Cardinality(live) - 1
    BY <1>1, FS_RemoveElement
  <2>4. Cardinality(rest \cup {UsableCanary(z)}) = Cardinality(rest) + 1
    BY <2>2, <2>3, FS_AddElement
  <2>5. Cardinality(live) \in Nat
    BY <1>1, FS_CardinalityType
  <2>. QED
    BY <2>1, <2>3, <2>4, <2>5
<1>. QED
  BY <1>2, <1>3

LEMMA WrittenIsFull ==
  ASSUME Unresolvable = {}, TypeOK, NEW z \in Zones, WriteZone(z),
         NEW y \in Zones, zoneFile'[y] # zoneFile[y]
  PROVE  pc' # "idle" /\ Cardinality(zoneFile'[y]) = Required
<1>1. PICK hosts \in HostLists(z) :
        zoneFile' = IF run.dry THEN zoneFile ELSE [zoneFile EXCEPT ![z] = hosts]
  BY DEF WriteZone
<1>2. zoneFile'[y] = hosts
  BY <1>1 DEF TypeOK
<1>3. pc = "publish" /\ pc' = "publish" /\ Established
  BY VisitKeeps
<1>4. run \in RunTypes
  BY <1>3 DEF TypeOK
<1>. QED
  BY <1>2, <1>3, <1>4, HostListsAreFull DEF Established

(* While every name resolves, a run writes into a zone as many hosts as it *)
(* requires, never fewer: no list is published before it is full, a canary *)
(* replaces an edge, and a kill at any point leaves the old list or, in    *)
(* the middle of a write, none (ZonesAreFull).                             *)
THEOREM ZonesStayFull ==
  ASSUME Unresolvable = {}
  PROVE  SpecWithCrash => ZonesAreFull
<1>1. ASSUME TypeOK, [NextWithCrash]_vars
      PROVE  [\A z \in Zones : zoneFile'[z] # zoneFile[z] =>
                 IF pc' = "idle" THEN zoneFile'[z] = {}
                                 ELSE Cardinality(zoneFile'[z]) = Required]_vars
  <2>. SUFFICES ASSUME NEW y \in Zones, zoneFile'[y] # zoneFile[y]
                PROVE  IF pc' = "idle" THEN zoneFile'[y] = {}
                                       ELSE Cardinality(zoneFile'[y]) = Required
    OBVIOUS
  <2>1. CASE \E z \in Zones : WriteZone(z)
    BY <1>1, <2>1, WrittenIsFull
  <2>2. CASE \E z \in Zones : CrashWritingZone(z)
    BY <1>1, <2>2 DEF CrashWritingZone, Exit, TypeOK
  <2>3. CASE HealthBased \/ TimeBased
    BY <2>3, ChoosingKeeps DEF outputs
  <2>4. CASE \E z \in Zones : SkipZone(z)
    BY <2>4 DEF SkipZone
  <2>5. CASE Begin \/ SetEdgeStates \/ WriteLiveList \/ SaveState \/ EndDryRun \/ Tick
    BY <2>5 DEF Begin, SetEdgeStates, WriteLiveList, SaveState, EndDryRun, Tick, outputs
  <2>6. CASE \/ CrashBetweenSteps \/ \E done \in SUBSET Edges : CrashSettingStates(done)
             \/ CrashWritingLiveList \/ CrashSaving \/ UNCHANGED vars
    BY <2>6 DEF CrashBetweenSteps, CrashSettingStates, CrashWritingLiveList,
       CrashSaving, vars, outputs
  <2>. QED
    BY <1>1, <2>1, <2>2, <2>3, <2>4, <2>5, <2>6
       DEF NextWithCrash, Next, RunStep, HealthBased, TimeBased, Crash
<1>. QED
  BY <1>1, TypeInit, TypeStep, PTL DEF SpecWithCrash, ZonesAreFull

-----------------------------------------------------------------------------
(* The edgestores follow the live list: the new one once a run that is not *)
(* dry has marked the edges, the recorded one until then.                  *)
Marked == pc \in {"livelist", "save"} /\ ~run.dry
InService == IF Marked THEN live ELSE lastLive
StatesFollow == \A e \in Edges : edgeState[e] = "in" <=> e \in InService

LEMMA StatesFollowStep ==
  ASSUME EdgeLists = {Edges}, Course, StatesFollow, [Next]_vars
  PROVE  StatesFollow'
<1>1. CASE UNCHANGED edgeState /\ InService' = InService
  BY <1>1 DEF StatesFollow
<1>2. CASE Begin \/ EndDryRun
  <2>1. ~Marked /\ ~Marked' /\ UNCHANGED <<lastLive, edgeState>>
    BY <1>2 DEF Begin, EndDryRun, Exit, Marked, stateFile, outputs
  <2>. QED
    BY <1>1, <2>1 DEF InService
<1>3. CASE HealthBased \/ TimeBased
  <2>1. ~Marked /\ ~Marked' /\ UNCHANGED <<lastLive, edgeState>>
    BY <1>3, ChoosingKeeps DEF Marked, stateFile, outputs
  <2>. QED
    BY <1>1, <2>1 DEF InService
<1>4. CASE \E z \in Zones : SkipZone(z) \/ WriteZone(z)
  <2>1. ~Marked /\ ~Marked' /\ UNCHANGED <<lastLive, edgeState>>
    BY <1>4, VisitKeeps DEF Marked
  <2>. QED
    BY <1>1, <2>1 DEF InService
<1>5. CASE SetEdgeStates
  <2>1. pc = "publish" /\ pc' = "livelist" /\ UNCHANGED <<run, live, lastLive>>
    BY <1>5 DEF SetEdgeStates, selection, stateFile
  <2>2. run.listed = Edges
    BY <2>1 DEF Course, Runs
  <2>3. CASE run.dry
    <3>1. edgeState' = [e \in Edges |-> edgeState[e]]
      BY <1>5, <2>3 DEF SetEdgeStates, StatesSet
    <3>2. InService' = InService
      BY <2>1, <2>3 DEF InService, Marked
    <3>. QED
      BY <3>1, <3>2 DEF StatesFollow
  <2>4. CASE ~run.dry
    <3>1. edgeState' = [e \in Edges |-> IF e \in live THEN "in" ELSE "out"]
      BY <1>5, <2>2, <2>4 DEF SetEdgeStates, StatesSet
    <3>2. InService' = live
      BY <2>1, <2>4 DEF InService, Marked
    <3>. QED
      BY <3>1, <3>2 DEF StatesFollow
  <2>. QED
    BY <2>3, <2>4
<1>6. CASE WriteLiveList
  <2>1. UNCHANGED <<run, live, lastLive, edgeState>> /\ Marked' = Marked
    BY <1>6 DEF WriteLiveList, Marked, selection, stateFile
  <2>. QED
    BY <1>1, <2>1 DEF InService
<1>7. CASE SaveState
  <2>1. Marked /\ ~Marked' /\ lastLive' = live /\ edgeState' = edgeState
    BY <1>7 DEF SaveState, Exit, Marked, outputs
  <2>. QED
    BY <1>1, <2>1 DEF InService
<1>8. CASE Tick \/ UNCHANGED vars
  BY <1>1, <1>8 DEF Tick, vars, memory, selection, stateFile, outputs, InService, Marked
<1>. QED
  BY <1>2, <1>3, <1>4, <1>5, <1>6, <1>7, <1>8
     DEF Next, RunStep, HealthBased, TimeBased

(* While the edge list stays the same, the edgestores say "in" of the      *)
(* recorded live edges and of no others between runs, after dry runs and   *)
(* runs without a full list too (EdgeStatesMatchLiveList).                 *)
THEOREM EdgeStatesFollow ==
  ASSUME EdgeLists = {Edges}
  PROVE  Spec => []EdgeStatesMatchLiveList
<1>1. Init => StatesFollow
  BY DEF Init, StatesFollow, InService, Marked
<1>2. StatesFollow => EdgeStatesMatchLiveList
  BY DEF StatesFollow, EdgeStatesMatchLiveList, InService, Marked
<1>3. Course /\ [Next]_vars => Course'
  BY NoKill, CourseStep
<1>. QED
  BY <1>1, <1>2, <1>3, CourseInit, StatesFollowStep, PTL DEF Spec

-----------------------------------------------------------------------------
(* A zone serves the list a run has chosen, with the canary it is given.   *)
ServesChosen(z) ==
  IF canaries[z] = None THEN Names(z, live)
  ELSE \E removed \in live : Names(z, (live \ {removed}) \cup {canaries[z]})

LEMMA WrittenServes ==
  ASSUME TypeOK, NEW z \in Zones, WriteZone(z), ~run.dry
  PROVE  ServesChosen(z)'
<1>1. PICK hosts \in HostLists(z) :
        \E dropped \in SUBSET ((hosts \cap Unresolvable) \ resolved) :
           zoneFile' = [zoneFile EXCEPT ![z] = hosts \ dropped]
  BY DEF WriteZone
<1>2. PICK dropped \in SUBSET (hosts \cap Unresolvable) :
        zoneFile' = [zoneFile EXCEPT ![z] = hosts \ dropped]
  BY <1>1
<1>3. zoneFile'[z] = hosts \ dropped
  BY <1>2 DEF TypeOK
<1>4. canaries'[z] = UsableCanary(z) /\ live' = live
  BY VisitKeeps DEF TypeOK
<1>5. zoneFile'[z] \subseteq hosts /\ hosts \ zoneFile'[z] \subseteq Unresolvable
  BY <1>2, <1>3
<1>6. CASE UsableCanary(z) = None
  BY <1>4, <1>5, <1>6 DEF HostLists, ServesChosen, Names
<1>7. CASE UsableCanary(z) # None
  <2>1. PICK removed \in live : hosts = (live \ {removed}) \cup {UsableCanary(z)}
    BY <1>7 DEF HostLists
  <2>. QED
    BY <1>4, <1>5, <1>7, <2>1 DEF ServesChosen, Names
<1>. QED
  BY <1>6, <1>7

(* A visit to a zone disturbs no other zone.                               *)
LEMMA OthersServe ==
  ASSUME TypeOK, NEW z \in Zones, SkipZone(z) \/ WriteZone(z), NEW y \in Zones \ {z}
  PROVE  /\ ServesChosen(y)' <=> ServesChosen(y)
         /\ ServesLiveList(y)' <=> ServesLiveList(y)
         /\ canaries'[y] = canaries[y] /\ (y \in todo' <=> y \in todo)
<1>1. canaries'[y] = canaries[y] /\ (y \in todo' <=> y \in todo)
  BY VisitKeeps DEF TypeOK
<1>2. zoneFile'[y] = zoneFile[y]
  <2>1. CASE SkipZone(z)
    BY <2>1 DEF SkipZone
  <2>2. CASE WriteZone(z)
    BY <2>2 DEF WriteZone, TypeOK
  <2>. QED
    BY <2>1, <2>2
<1>3. UNCHANGED <<live, lastLive, activeCanaries>>
  BY VisitKeeps
<1>5. ServesChosen(y)' <=> ServesChosen(y)
  BY <1>1, <1>2, <1>3 DEF ServesChosen, Names
<1>6. ServesLiveList(y)' <=> ServesLiveList(y)
  BY <1>2, <1>3 DEF ServesLiveList, Names
<1>. QED
  BY <1>1, <1>5, <1>6

-----------------------------------------------------------------------------
(* A run that may skip no zone: every zone it has visited serves the list  *)
(* it has chosen, whatever stood there before.                             *)
SkipsNothing == run.force \/ (run.timed /\ changed)
VisitedAreRewritten ==
  (Selected /\ Established /\ ~run.dry /\ SkipsNothing) =>
     \A z \in Templated \ todo : ServesChosen(z)

(* The end of a run, and its beginning.                                    *)
LEMMA Unselected ==
  ASSUME Begin \/ SaveState \/ EndDryRun \/ Crash
  PROVE  ~Selected'
BY DEF Begin, SaveState, EndDryRun, Crash, CrashBetweenSteps, CrashWritingZone,
   CrashSettingStates, CrashWritingLiveList, CrashSaving, Exit, Selected

(* The steps that come after the choice and visit no zone.                 *)
LEMMA MarkingKeeps ==
  ASSUME SetEdgeStates \/ WriteLiveList \/ Tick \/ UNCHANGED vars
  PROVE  /\ UNCHANGED <<run, live, changed, canaries, todo, zoneFile>>
         /\ UNCHANGED <<lastLive, zoneMtimes, activeCanaries>>
         /\ (Selected <=> Selected') /\ Established' = Established
         /\ Templated' = Templated
         /\ \A z \in Zones : ServesChosen(z)' <=> ServesChosen(z)
<1>1. /\ UNCHANGED <<run, live, changed, canaries, todo, zoneFile>>
      /\ UNCHANGED <<lastLive, zoneMtimes, activeCanaries>>
      /\ (Selected <=> Selected')
  BY DEF SetEdgeStates, WriteLiveList, Tick, vars, memory, selection, stateFile, outputs, Selected
<1>2. Established' = Established /\ Templated' = Templated
  BY <1>1 DEF Established, Required, Templated
<1>3. \A z \in Zones : ServesChosen(z)' <=> ServesChosen(z)
  BY <1>1 DEF ServesChosen, Names
<1>. QED
  BY <1>1, <1>2, <1>3

LEMMA VisitedAreRewrittenStep ==
  ASSUME TypeOK, Course, VisitedAreRewritten, [NextWithCrash]_vars
  PROVE  VisitedAreRewritten'
<1>1. CASE Begin \/ SaveState \/ EndDryRun \/ Crash
  BY <1>1, Unselected DEF VisitedAreRewritten
<1>2. CASE HealthBased \/ TimeBased
  <2>1. Templated' = Templated /\ todo = Templated /\ todo' = todo
    BY <1>2, ChoosingKeeps DEF Templated, Course
  <2>. QED
    BY <2>1 DEF VisitedAreRewritten
<1>3. CASE \E z \in Zones : SkipZone(z) \/ WriteZone(z)
  <2>1. PICK z \in Zones : SkipZone(z) \/ WriteZone(z)
    BY <1>3
  <2>2. /\ Selected /\ Selected' /\ Established /\ z \in todo /\ todo' = todo \ {z}
        /\ UNCHANGED <<run, live, changed>>
    BY <2>1, VisitKeeps DEF Selected
  <2>3. Templated' = Templated /\ Templated \subseteq Zones
    BY <2>2 DEF Templated
  <2>4. SUFFICES ASSUME ~run.dry, SkipsNothing, NEW y \in Templated, y \notin todo'
                 PROVE  ServesChosen(y)'
    BY <2>2, <2>3 DEF VisitedAreRewritten, SkipsNothing
  <2>5. WriteZone(z)
    BY <2>1, <2>4 DEF SkipZone, UpToDate, SkipsNothing
  <2>6. CASE y = z
    BY <2>4, <2>5, <2>6, WrittenServes
  <2>7. CASE y # z
    <3>1. y \in Zones \ {z} /\ y \notin todo
      BY <2>2, <2>3, <2>4, <2>7
    <3>2. ServesChosen(y)
      BY <2>2, <2>4, <3>1 DEF VisitedAreRewritten
    <3>. QED
      BY <2>1, <3>1, <3>2, OthersServe
  <2>. QED
    BY <2>6, <2>7
<1>4. CASE SetEdgeStates \/ WriteLiveList \/ Tick \/ UNCHANGED vars
  <2>1. SkipsNothing' <=> SkipsNothing
    BY <1>4, MarkingKeeps DEF SkipsNothing
  <2>. QED
    BY <1>4, <2>1, MarkingKeeps DEF VisitedAreRewritten, Templated
<1>. QED
  BY <1>1, <1>2, <1>3, <1>4
     DEF NextWithCrash, Next, RunStep, HealthBased, TimeBased

(* What a run has published is what the state file will record.            *)
LEMMA SavedIsServed ==
  ASSUME SaveState, NEW z \in Zones, ServesChosen(z)
  PROVE  ServesLiveList(z)'
<1>1. lastLive' = live /\ activeCanaries' = canaries /\ zoneFile' = zoneFile
  BY DEF SaveState, outputs
<1>. QED
  BY <1>1 DEF ServesChosen, ServesLiveList, Names

(* A completed --force-update, and a completed timed change, leaves every  *)
(* zone that has a template with the new live list and the recorded canary *)
(* whatever runs killed before have left (UpdatesRepair).                  *)
THEOREM UpdatesDoRepair == SpecWithCrash => UpdatesRepair
<1>1. Init => VisitedAreRewritten
  BY DEF Init, VisitedAreRewritten, Selected
<1>2. ASSUME Course, VisitedAreRewritten, [NextWithCrash]_vars
      PROVE  [(SaveState /\ Established /\ (run.force \/ (run.timed /\ changed)))
              => \A z \in Zones : run.template[z] # None => ServesLiveList(z)']_vars
  <2>1. SUFFICES ASSUME SaveState, Established, SkipsNothing,
                        NEW z \in Zones, run.template[z] # None
                 PROVE  ServesLiveList(z)'
    BY DEF SkipsNothing
  <2>2. Selected /\ ~run.dry /\ todo = {} /\ z \in Templated
    BY <1>2, <2>1 DEF SaveState, Course, Selected, Templated
  <2>3. ServesChosen(z)
    BY <1>2, <2>1, <2>2 DEF VisitedAreRewritten
  <2>. QED
    BY <2>1, <2>3, SavedIsServed
<1>. QED
  BY <1>1, <1>2, TypeInit, TypeStep, CourseInit, CourseStep, VisitedAreRewrittenStep, PTL
     DEF SpecWithCrash, UpdatesRepair

-----------------------------------------------------------------------------
(* A timed run chooses one edge, or none while nothing passes and nothing  *)
(* was live, and notices any change.                                       *)
AtMostOne(S) == S = {} \/ \E e \in Edges : S = {e}

LEMMA LeastIsOne ==
  ASSUME NEW S \in SUBSET Edges
  PROVE  AtMostOne(LeastOf(S))
<1>1. CASE S = {}
  BY <1>1 DEF LeastOf, AtMostOne
<1>2. CASE S # {}
  <2>1. PICK e \in LeastOf(S) : TRUE
    BY <1>2, LeastOfChooses
  <2>2. \A f \in LeastOf(S) : f <= e /\ e <= f /\ e \in Nat /\ f \in Nat
    BY NamesAreOrdered DEF LeastOf
  <2>3. \A f \in LeastOf(S) : f = e
    BY <2>2
  <2>4. LeastOf(S) = {e} /\ e \in Edges
    BY <2>1, <2>3 DEF LeastOf
  <2>. QED
    BY <2>4 DEF AtMostOne
<1>. QED
  BY <1>1, <1>2

LEMMA TimedChoosesOne ==
  ASSUME TypeOK, TimeBased
  PROVE  AtMostOne(live') /\ (changed' <=> live' # lastLive') /\ run' = run
<1>1. /\ run \in RunTypes /\ run' = run /\ lastLive' = lastLive
      /\ changed' = (live' # lastLive)
  BY DEF TimeBased, ServeForced, Rotate, KeepCurrent, ServeLastResort, Serve, TypeOK, stateFile
<1>2. CASE ServeForced
  <2>1. live' = LeastOf(Forced) /\ Forced \in SUBSET Edges
    BY <1>1, <1>2, SelectionsAreEdges DEF ServeForced, Serve
  <2>. QED
    BY <1>1, <2>1, LeastIsOne
<1>3. CASE Rotate
  <2>1. \E e \in Unused : live' = {e}
    BY <1>3 DEF Rotate, Serve
  <2>2. Unused \subseteq Edges
    BY <1>1, SelectionsAreEdges
  <2>3. AtMostOne(live')
    BY <2>1, <2>2 DEF AtMostOne
  <2>. QED
    BY <1>1, <2>3
<1>4. CASE KeepCurrent
  <2>1. live' = CurrentEdge /\ CurrentEdge \subseteq Edges
    BY <1>1, <1>4, SelectionsAreEdges DEF KeepCurrent, Serve
  <2>2. AtMostOne(live')
    BY <1>1, <2>1, CurrentEdgeIsOne DEF AtMostOne
  <2>. QED
    BY <1>1, <2>2
<1>5. CASE ServeLastResort
  <2>1. live' = LeastOf(lastLive) /\ lastLive \in SUBSET Edges
    BY <1>5 DEF ServeLastResort, Serve, TypeOK
  <2>. QED
    BY <1>1, <2>1, LeastIsOne
<1>. QED
  BY <1>1, <1>2, <1>3, <1>4, <1>5 DEF TimeBased

-----------------------------------------------------------------------------
(* A steady demand: health-based runs ask for one constant number of edges *)
(* and no more than so many are forced in, no fewer fit to serve.  Of a    *)
(* dnet that is always rotated by time nothing is asked.                   *)
ForcedIn(list, mode) == {e \in list : mode[e] \in {"force", "blindforce"}}
Usable(list, mode, health) ==
  {e \in list : mode[e] = "blindforce" \/ (mode[e] # "unavailable" /\ health[e] # "fail")}
SteadyDemand ==
  FALSE \in Timed =>
    \E n \in Nat :
      /\ EdgeCounts = {n}
      /\ \A list \in EdgeLists, mode \in EdgeModes, health \in TestHealths :
           /\ Cardinality(ForcedIn(list, mode)) <= n
           /\ n <= Cardinality(Usable(list, mode, health))

(* Under it a run ends with the number of edges it is asked for, or with   *)
(* none, and knows when they are not those of the last run: no recorded    *)
(* list is longer than the next one, and no tier loop runs out of edges.   *)
ListsFit == FALSE \in Timed => \A n \in EdgeCounts : Cardinality(lastLive) <= n
FillsUp ==
  pc = "fill" => /\ changed /\ Blindforced \subseteq live
                 /\ Cardinality(live) <= run.required
                 /\ tier > 1 => Cardinality(live) < run.required
ChangesShow ==
  Selected => (live # {} => Established) /\ (~changed => live = lastLive)

LEMMA SteadyRun ==
  ASSUME SteadyDemand, TypeOK, pc # "idle", run \in Runs, ~run.timed
  PROVE  /\ run \in RunTypes /\ run.required \in Nat /\ EdgeCounts = {run.required}
         /\ FALSE \in Timed /\ Required = run.required
         /\ Cardinality(ForcedFirst) <= run.required
         /\ run.required <= Cardinality(Fit)
<1>1. /\ run.timed \in Timed /\ run.required \in EdgeCounts /\ run.listed \in EdgeLists
      /\ run.mode \in EdgeModes /\ run.health \in TestHealths /\ run \in RunTypes
  BY RunsAreTyped DEF Runs
<1>2. FALSE \in Timed /\ run.required \in Nat
  BY <1>1 DEF RunTypes
<1>. DEFINE forced == ForcedIn(run.listed, run.mode)
<1>3. PICK n \in Nat : /\ EdgeCounts = {n} /\ Cardinality(forced) <= n
                       /\ n <= Cardinality(Usable(run.listed, run.mode, run.health))
  BY <1>1, <1>2 DEF SteadyDemand
<1>4. n = run.required
  BY <1>1, <1>3
<1>5. Fit = Usable(run.listed, run.mode, run.health)
  BY DEF Fit, Usable
<1>6. ForcedFirst \subseteq forced /\ forced \in SUBSET Edges /\ ForcedFirst \in SUBSET Edges
  BY <1>1 DEF ForcedFirst, Blindforced, ForcedPassing, RunTypes, ForcedIn
<1>7. /\ Cardinality(ForcedFirst) <= Cardinality(forced)
      /\ Cardinality(ForcedFirst) \in Nat /\ Cardinality(forced) \in Nat
  BY <1>6, EdgeSets, FS_Subset
<1>8. Required = run.required
  BY DEF Required
<1>. HIDE DEF forced
<1>9. Cardinality(ForcedFirst) <= run.required
  BY <1>3, <1>4, <1>7
<1>. QED
  BY <1>1, <1>2, <1>3, <1>4, <1>5, <1>8, <1>9

(* The edges kept fit in, and a complete healthy list leaves a full one.   *)
LEMMA KeptFit ==
  ASSUME TypeOK, run \in RunTypes, ~run.timed, KeepStillHealthy,
         Cardinality(ForcedFirst) <= run.required
  PROVE  /\ Cardinality(live') \in Nat /\ Cardinality(live') <= run.required
         /\ Cardinality(StillHealthy) = run.required => Cardinality(live') = run.required
<1>1. run.required \in Nat /\ Required = run.required
  BY DEF RunTypes, Required
<1>. DEFINE others == StillHealthy \ ForcedFirst
            forced == Cardinality(ForcedFirst)
<1>2. PICK kept \in SUBSET others :
         /\ Cardinality(kept) = Lesser(Cardinality(others), Room(forced))
         /\ live' = ForcedFirst \cup kept
  BY DEF KeepStillHealthy
<1>3. /\ ForcedFirst \in SUBSET Edges /\ StillHealthy \in SUBSET Edges
      /\ others \in SUBSET Edges /\ kept \in SUBSET Edges /\ kept \cap ForcedFirst = {}
  BY SelectionsAreEdges
<1>4. /\ IsFiniteSet(ForcedFirst) /\ forced \in Nat
      /\ IsFiniteSet(StillHealthy) /\ Cardinality(StillHealthy) \in Nat
      /\ Cardinality(others) \in Nat /\ IsFiniteSet(kept) /\ Cardinality(kept) \in Nat
  BY <1>3, EdgeSets
<1>5. Cardinality(live') = forced + Cardinality(kept)
  <2>1. Cardinality(ForcedFirst \cap kept) = 0
    BY <1>3, FS_EmptySet
  <2>2. Cardinality(ForcedFirst \cup kept)
          = forced + Cardinality(kept) - Cardinality(ForcedFirst \cap kept)
    BY <1>4, FS_Union
  <2>. QED
    BY <1>2, <1>4, <2>1, <2>2
<1>6. Cardinality(others) = Cardinality(StillHealthy) - Cardinality(StillHealthy \cap ForcedFirst)
  BY <1>4, FS_Difference
<1>7. /\ Cardinality(StillHealthy \cap ForcedFirst) \in Nat
      /\ Cardinality(StillHealthy \cap ForcedFirst) <= forced
  <2>1. StillHealthy \cap ForcedFirst \in SUBSET Edges
    BY <1>3
  <2>. QED
    BY <1>4, <2>1, EdgeSets, FS_Subset
<1>. HIDE DEF others, forced
<1>8. Room(forced) = run.required - forced
  BY <1>1, <1>4 DEF Room, forced
<1>. QED
  BY <1>1, <1>2, <1>4, <1>5, <1>6, <1>7, <1>8 DEF Lesser, forced

LEMMA TierFits ==
  ASSUME TypeOK, run \in RunTypes, Cardinality(live) <= run.required, FillTier
  PROVE  Cardinality(live') \in Nat /\ Cardinality(live') <= run.required
<1>1. PICK picked \in Fastest(TierLeft(tier), run.required - Cardinality(live)) :
        live' = live \cup picked
  BY DEF FillTier
<1>2. /\ picked \in SUBSET Edges /\ live \in SUBSET Edges /\ live \cap picked = {}
      /\ TierLeft(tier) \in SUBSET Edges
  BY SelectionsAreEdges DEF TypeOK, TierLeft, Fastest
<1>3. /\ IsFiniteSet(live) /\ Cardinality(live) \in Nat /\ run.required \in Nat
      /\ IsFiniteSet(picked) /\ Cardinality(picked) \in Nat
      /\ Cardinality(TierLeft(tier)) \in Nat
  BY <1>2, EdgeSets DEF RunTypes
<1>4. Cardinality(picked) <= run.required - Cardinality(live)
  BY <1>3 DEF Fastest, Lesser
<1>5. Cardinality(live \cup picked) = Cardinality(live) + Cardinality(picked)
  <2>1. Cardinality(live \cap picked) = 0
    BY <1>2, FS_EmptySet
  <2>2. Cardinality(live \cup picked)
          = Cardinality(live) + Cardinality(picked) - Cardinality(live \cap picked)
    BY <1>3, FS_Union
  <2>. QED
    BY <1>3, <2>1, <2>2
<1>. QED
  BY <1>1, <1>3, <1>4, <1>5

(* Every fit edge is live before the last resort would be needed.          *)
LEMMA NoLastResort ==
  ASSUME SteadyDemand, TypeOK, Course, FillsForAReason, TiersInOrder, FillsUp
  PROVE  ~ReAddLastLive
<1>. SUFFICES ASSUME ReAddLastLive PROVE FALSE
  OBVIOUS
<1>1. pc = "fill" /\ tier = FailRank /\ run \in Runs /\ ~run.timed
  BY DEF ReAddLastLive, Course, FillsForAReason
<1>2. run.required \in Nat /\ run \in RunTypes /\ run.required <= Cardinality(Fit)
  BY <1>1, SteadyRun
<1>3. Blindforced \subseteq live /\ Cardinality(live) < run.required
  BY <1>1 DEF FillsUp, FailRank
<1>4. ASSUME NEW e \in Fit, e \notin live PROVE FALSE
  <2>1. e \in Judged /\ run.health[e] # "fail"
    BY <1>1, <1>3, <1>4 DEF Fit, Blindforced, Judged
  <2>2. RankOf(e) < FailRank
    <3>1. run.health[e] \in PassingHealths
      BY <1>2, <2>1 DEF RunTypes, Judged, Healths
    <3>. QED
      BY <2>1, <3>1 DEF RankOf, Rank, FailRank, PassingHealths
  <2>. QED
    BY <1>1, <1>4, <2>1, <2>2, RanksAreNumbers DEF TiersInOrder, FailRank
<1>5. Fit \subseteq live /\ live \in SUBSET Edges
  BY <1>4 DEF TypeOK
<1>6. Fit \in SUBSET Edges
  BY <1>5
<1>7. Cardinality(Fit) <= Cardinality(live) /\ Cardinality(Fit) \in Nat /\ Cardinality(live) \in Nat
  BY <1>5, <1>6, EdgeSets, FS_Subset
<1>. QED
  BY <1>2, <1>3, <1>7

LEMMA FillsUpStep ==
  ASSUME SteadyDemand, TypeOK, Course, FillsForAReason, FillsUp, [NextWithCrash]_vars
  PROVE  FillsUp'
<1>. SUFFICES ASSUME pc' = "fill"
              PROVE  /\ changed' /\ Blindforced' \subseteq live'
                     /\ Cardinality(live') <= run'.required
                     /\ tier' > 1 => Cardinality(live') < run'.required
  BY DEF FillsUp
<1>1. CASE StartFilling
  <2>1. /\ UNCHANGED <<run, lastLive>> /\ KeepStillHealthy /\ run \in Runs /\ ~run.timed
        /\ changed' /\ tier' = 1 /\ pc # "idle"
    BY <1>1 DEF StartFilling, Course, stateFile
  <2>2. Cardinality(live') <= run.required
    BY <2>1, SteadyRun, KeptFit
  <2>3. Blindforced \subseteq live'
    BY <2>1 DEF KeepStillHealthy, ForcedFirst
  <2>. QED
    BY <2>1, <2>2, <2>3, KnowledgeStays
<1>2. CASE FillTier
  <2>1. /\ UNCHANGED <<run, lastLive, changed>> /\ live \subseteq live' /\ pc = "fill"
        /\ run \in RunTypes /\ Cardinality(live') # run.required
    BY <1>2 DEF FillTier, TypeOK, stateFile
  <2>2. changed /\ Blindforced \subseteq live /\ Cardinality(live) <= run.required
    BY <2>1 DEF FillsUp
  <2>3. Cardinality(live') \in Nat /\ Cardinality(live') <= run.required
    BY <1>2, <2>1, <2>2, TierFits
  <2>. QED
    BY <2>1, <2>2, <2>3, KnowledgeStays DEF RunTypes
<1>3. CASE KeepHealthyList \/ ReAddLastLive \/ TimeBased
  BY <1>3 DEF KeepHealthyList, ReAddLastLive, TimeBased, ServeForced, Rotate, KeepCurrent,
     ServeLastResort, Serve
<1>4. CASE ~TimeBased /\ ~HealthBased
  <2>1. UNCHANGED <<run, live, changed, tier, lastLive>> /\ pc = "fill"
    BY <1>4, ChoiceStays
  <2>. QED
    BY <2>1, KnowledgeStays DEF FillsUp
<1>. QED
  BY <1>1, <1>2, <1>3, <1>4 DEF HealthBased

(* A list that is kept unreported is the recorded one.                     *)
LEMMA KeptIsRecorded ==
  ASSUME SteadyDemand, TypeOK, Course, ListsFit, KeepHealthyList
  PROVE  /\ Cardinality(live') = run.required /\ UNCHANGED <<run, lastLive>>
         /\ ~run.timed /\ (~changed' => live' = lastLive)
<1>1. /\ UNCHANGED <<run, lastLive>> /\ KeepStillHealthy /\ run \in Runs /\ ~run.timed
      /\ pc # "idle" /\ Cardinality(StillHealthy) = run.required
      /\ ~changed' => ForcedPassing \subseteq StillHealthy /\ Blindforced \subseteq lastLive
  BY DEF KeepHealthyList, Course, stateFile
<1>2. /\ run \in RunTypes /\ run.required \in Nat /\ EdgeCounts = {run.required}
      /\ FALSE \in Timed /\ Cardinality(ForcedFirst) <= run.required
  BY <1>1, SteadyRun
<1>3. Cardinality(live') = run.required
  BY <1>1, <1>2, KeptFit
<1>4. StillHealthy = lastLive
  <2>1. StillHealthy \subseteq lastLive /\ lastLive \in SUBSET Edges
    BY DEF StillHealthy, TypeOK
  <2>2. Cardinality(lastLive) <= run.required
    BY <1>2 DEF ListsFit
  <2>3. IsFiniteSet(lastLive) /\ Cardinality(lastLive) \in Nat
    BY <2>1, EdgeSets
  <2>4. Cardinality(StillHealthy) <= Cardinality(lastLive)
    BY <2>1, <2>3, FS_Subset
  <2>. QED
    BY <1>1, <1>2, <2>1, <2>2, <2>3, <2>4, FS_Subset
<1>5. ASSUME ~changed' PROVE live' = lastLive
  <2>1. Blindforced \cup ForcedPassing \subseteq StillHealthy
    BY <1>1, <1>4, <1>5
  <2>. QED
    BY <1>1, <1>2, <1>4, <2>1, CompleteListIsKept
<1>. QED
  BY <1>1, <1>3, <1>5

LEMMA ChangesShowStep ==
  ASSUME SteadyDemand, TypeOK, Course, FillsForAReason, TiersInOrder, ListsFit, FillsUp,
         ChangesShow, [NextWithCrash]_vars
  PROVE  ChangesShow'
<1>. SUFFICES ASSUME Selected'
              PROVE  (live' # {} => Established') /\ (~changed' => live' = lastLive')
  BY DEF ChangesShow
<1>1. CASE KeepHealthyList
  BY <1>1, KeptIsRecorded DEF Established, Required
<1>2. CASE FillTier
  <2>1. /\ UNCHANGED <<run, changed>> /\ pc = "fill"
        /\ Cardinality(live') = run.required
    BY <1>2 DEF FillTier, Selected
  <2>2. changed /\ ~run.timed
    BY <2>1 DEF FillsUp, FillsForAReason
  <2>. QED
    BY <2>1, <2>2 DEF Established, Required
<1>3. CASE TimeBased
  <2>1. /\ AtMostOne(live') /\ (changed' <=> live' # lastLive') /\ run' = run
        /\ run.timed
    BY <1>3, TimedChoosesOne DEF TimeBased, ServeForced, Rotate, KeepCurrent, ServeLastResort
  <2>2. \A e \in Edges : Cardinality({e}) = 1
    BY FS_Singleton
  <2>. QED
    BY <2>1, <2>2 DEF Established, Required, AtMostOne
<1>4. CASE StartFilling \/ ReAddLastLive
  BY <1>4, NoLastResort DEF StartFilling, Selected
<1>5. CASE ~TimeBased /\ ~HealthBased
  <2>1. UNCHANGED <<run, live, changed, lastLive>> /\ Selected
    BY <1>5, ChoiceStays
  <2>. QED
    BY <2>1 DEF ChangesShow, Established, Required
<1>. QED
  BY <1>1, <1>2, <1>3, <1>4, <1>5 DEF HealthBased

LEMMA ListsFitStep ==
  ASSUME SteadyDemand, TypeOK, Course, ListsFit, ChangesShow, [NextWithCrash]_vars
  PROVE  ListsFit'
<1>. SUFFICES ASSUME FALSE \in Timed, NEW n \in EdgeCounts
              PROVE  Cardinality(lastLive') <= n
  BY DEF ListsFit
<1>1. CASE lastLive' = lastLive
  BY <1>1 DEF ListsFit
<1>2. CASE pc = "save" /\ lastLive' = live
  <2>1. run \in Runs /\ (live # {} => Established)
    BY <1>2 DEF Course, ChangesShow, Selected
  <2>2. n \in Nat \ {0} /\ EdgeCounts = {n}
    BY ChoicesAreTyped DEF SteadyDemand
  <2>3. Required <= n
    BY <2>1, <2>2 DEF Required, Runs
  <2>. QED
    BY <1>2, <2>1, <2>2, <2>3, FS_EmptySet DEF Established
<1>. QED
  BY <1>1, <1>2, LiveListSaved

(* All of it is inductive together.                                        *)
Steady == /\ TypeOK /\ Course /\ FillsForAReason /\ TiersInOrder
          /\ ListsFit /\ FillsUp /\ ChangesShow

LEMMA SteadyInit == Init => Steady
<1>1. ASSUME Init PROVE ListsFit
  <2>1. Cardinality(lastLive) = 0
    BY <1>1, FS_EmptySet DEF Init
  <2>. QED
    BY <2>1, ChoicesAreTyped DEF ListsFit
<1>. QED
  BY <1>1, TypeInit, CourseInit
     DEF Init, Steady, FillsForAReason, TiersInOrder, FillsUp, ChangesShow, Selected

LEMMA SteadyStep ==
  ASSUME SteadyDemand, Steady, [NextWithCrash]_vars
  PROVE  Steady'
<1>1. TypeOK'
  BY TypeStep DEF Steady
<1>. QED
  BY <1>1, CourseStep, FillsForAReasonStep, TiersInOrderStep, ListsFitStep, FillsUpStep,
     ChangesShowStep DEF Steady

-----------------------------------------------------------------------------
(* What the zones serve, run by run: a zone that a run has not rewritten   *)
(* serves the recorded list, one it has visited the list it has chosen.    *)
Untouched(z) == pc = "idle" \/ run.dry \/ z \in todo
OldOnesServe ==
  lastLive # {} =>
    \A z \in Zones : Untouched(z) /\ zoneMtimes[z] # None => ServesLiveList(z)
VisitedServe ==
  (Selected /\ ~run.dry /\ Established) => \A z \in Templated \ todo : ServesChosen(z)
CanariesLoaded ==
  pc # "idle" => \A z \in todo : canaries[z] = activeCanaries[z]
ZonesInStep == OldOnesServe /\ VisitedServe /\ CanariesLoaded

(* A zone skipped already serves what the run has chosen.                  *)
LEMMA SkippedServes ==
  ASSUME TypeOK, ChangesShow, OldOnesServe, CanariesLoaded, Course,
         NEW z \in Zones, SkipZone(z)
  PROVE  ServesChosen(z)'
<1>1. /\ pc = "publish" /\ z \in todo /\ Established
      /\ canaries' = [canaries EXCEPT ![z] = UsableCanary(z)]
      /\ UNCHANGED <<live, zoneFile>>
  BY VisitKeeps DEF SkipZone
<1>2. ~changed /\ UsableCanary(z) = canaries[z] /\ zoneMtimes[z] = run.template[z]
  BY DEF SkipZone, UpToDate, CanaryChanged
<1>3. live = lastLive
  BY <1>1, <1>2 DEF ChangesShow, Selected
<1>4. run \in Runs
  BY <1>1 DEF Course
<1>5. zoneMtimes[z] # None
  BY <1>1, <1>2 DEF Course, Templated
<1>6. live # {}
  <2>1. run.required \in Nat \ {0}
    BY <1>4, RunsAreTyped DEF RunTypes
  <2>. QED
    BY <1>1, <2>1, FS_EmptySet DEF Established, Required
<1>7. ServesLiveList(z)
  BY <1>1, <1>3, <1>5, <1>6 DEF OldOnesServe, Untouched
<1>8. canaries'[z] = canaries[z] /\ canaries[z] = activeCanaries[z]
  BY <1>1, <1>2 DEF CanariesLoaded, TypeOK
<1>. QED
  BY <1>1, <1>3, <1>7, <1>8 DEF ServesLiveList, ServesChosen, Names

LEMMA VisitStaysInStep ==
  ASSUME TypeOK, Course, ChangesShow, ZonesInStep,
         NEW z \in Zones, SkipZone(z) \/ WriteZone(z)
  PROVE  ZonesInStep'
<1>. USE DEF ZonesInStep
<1>1. /\ pc = "publish" /\ pc' = "publish" /\ z \in todo /\ todo' = todo \ {z}
      /\ Established /\ Established'
      /\ UNCHANGED <<run, live, changed, lastLive, zoneMtimes, activeCanaries>>
  BY VisitKeeps
<1>2. CanariesLoaded'
  <2>1. \A y \in todo' : y \in Zones \ {z}
    BY <1>1 DEF TypeOK
  <2>. QED
    BY <1>1, <2>1, OthersServe DEF CanariesLoaded
<1>3. OldOnesServe'
  <2>1. SUFFICES ASSUME lastLive # {}, NEW y \in Zones, run.dry \/ y \in todo',
                        zoneMtimes[y] # None
                 PROVE  ServesLiveList(y)'
    BY <1>1 DEF OldOnesServe, Untouched
  <2>2. ServesLiveList(y)
    BY <1>1, <2>1 DEF OldOnesServe, Untouched
  <2>3. CASE y # z
    BY <2>2, <2>3, OthersServe
  <2>4. CASE y = z
    <3>1. run.dry
      BY <1>1, <2>1, <2>4
    <3>2. zoneFile' = zoneFile
      BY <3>1 DEF SkipZone, WriteZone
    <3>. QED
      BY <1>1, <2>2, <3>2 DEF ServesLiveList, Names
  <2>. QED
    BY <2>3, <2>4
<1>4. VisitedServe'
  <2>1. Templated' = Templated /\ Templated \subseteq Zones
    BY <1>1 DEF Templated
  <2>2. SUFFICES ASSUME ~run.dry, NEW y \in Templated, y \notin todo'
                 PROVE  ServesChosen(y)'
    BY <1>1, <2>1 DEF VisitedServe
  <2>3. CASE y = z
    BY <2>2, <2>3, WrittenServes, SkippedServes
  <2>4. CASE y # z
    <3>1. y \in Zones \ {z} /\ y \notin todo
      BY <1>1, <2>1, <2>2, <2>4
    <3>2. ServesChosen(y)
      BY <1>1, <2>2, <3>1 DEF VisitedServe, Selected
    <3>. QED
      BY <3>1, <3>2, OthersServe
  <2>. QED
    BY <2>3, <2>4
<1>. QED
  BY <1>2, <1>3, <1>4

LEMMA SavingStaysInStep ==
  ASSUME TypeOK, Course, ChangesShow, ZonesInStep, SaveState
  PROVE  ZonesInStep'
<1>1. /\ pc = "save" /\ ~run.dry /\ pc' = "idle"
      /\ lastLive' = live /\ zoneMtimes' = run.template
  BY DEF SaveState, Exit
<1>2. OldOnesServe'
  <2>1. SUFFICES ASSUME live # {}, NEW z \in Zones, run.template[z] # None
                 PROVE  ServesLiveList(z)'
    BY <1>1 DEF OldOnesServe
  <2>4. Established
    BY <1>1, <2>1 DEF ChangesShow, Selected
  <2>5. todo = {} /\ z \in Templated
    BY <1>1, <2>1, <2>4 DEF Course, Templated
  <2>6. ServesChosen(z)
    BY <1>1, <2>4, <2>5 DEF ZonesInStep, VisitedServe, Selected
  <2>. QED
    BY <2>6, SavedIsServed
<1>. QED
  BY <1>1, <1>2 DEF ZonesInStep, VisitedServe, CanariesLoaded, Selected

LEMMA ZonesInStepStep ==
  ASSUME TypeOK, Course, ChangesShow, ZonesInStep, [Next]_vars
  PROVE  ZonesInStep'
<1>1. ASSUME UNCHANGED <<lastLive, zoneMtimes, activeCanaries, zoneFile>>
      PROVE  \A z \in Zones : ServesLiveList(z)' <=> ServesLiveList(z)
  BY <1>1 DEF ServesLiveList, Names
<1>2. CASE Begin
  <2>1. /\ pc = "idle" /\ pc' = "select" /\ canaries' = activeCanaries
        /\ UNCHANGED <<lastLive, zoneMtimes, activeCanaries, zoneFile>>
    BY <1>2 DEF Begin, stateFile, outputs
  <2>. QED
    BY <1>1, <2>1 DEF ZonesInStep, OldOnesServe, Untouched, VisitedServe, CanariesLoaded, Selected
<1>3. CASE HealthBased \/ TimeBased
  <2>1. /\ pc # "idle" /\ pc' # "idle" /\ todo = Templated
        /\ UNCHANGED <<run, todo, canaries>>
        /\ UNCHANGED <<lastLive, zoneMtimes, activeCanaries, zoneFile>>
    BY <1>3, ChoosingKeeps DEF stateFile, outputs, Course
  <2>2. OldOnesServe'
    BY <1>1, <2>1 DEF ZonesInStep, OldOnesServe, Untouched
  <2>3. VisitedServe'
    BY <2>1 DEF VisitedServe, Templated
  <2>4. CanariesLoaded'
    BY <2>1 DEF ZonesInStep, CanariesLoaded
  <2>. QED
    BY <2>2, <2>3, <2>4 DEF ZonesInStep
<1>4. CASE \E z \in Zones : SkipZone(z) \/ WriteZone(z)
  BY <1>4, VisitStaysInStep
<1>5. CASE SaveState
  BY <1>5, SavingStaysInStep
<1>6. CASE EndDryRun
  <2>1. /\ pc' = "idle" /\ run.dry
        /\ UNCHANGED <<lastLive, zoneMtimes, activeCanaries, zoneFile>>
    BY <1>6 DEF EndDryRun, Exit, stateFile, outputs
  <2>. QED
    BY <1>1, <2>1 DEF ZonesInStep, OldOnesServe, Untouched, VisitedServe, CanariesLoaded, Selected
<1>7. CASE SetEdgeStates \/ WriteLiveList \/ Tick \/ UNCHANGED vars
  <2>1. pc = "idle" <=> pc' = "idle"
    BY <1>7 DEF SetEdgeStates, WriteLiveList, Tick, vars, memory
  <2>2. OldOnesServe'
    BY <1>1, <1>7, <2>1, MarkingKeeps DEF ZonesInStep, OldOnesServe, Untouched
  <2>3. VisitedServe'
    BY <1>7, MarkingKeeps DEF ZonesInStep, VisitedServe, Templated
  <2>4. CanariesLoaded'
    BY <1>7, <2>1, MarkingKeeps DEF ZonesInStep, CanariesLoaded
  <2>. QED
    BY <2>2, <2>3, <2>4 DEF ZonesInStep
<1>. QED
  BY <1>2, <1>3, <1>4, <1>5, <1>6, <1>7 DEF Next, RunStep, HealthBased, TimeBased

(* While the demand is steady, always for a dnet rotated by time, the      *)
(* zones serve the recorded live list and canary between runs, whichever   *)
(* zones runs skipped and whichever names did not resolve                  *)
(* (ZonesServeLiveList).                                                   *)
THEOREM SteadyZonesServe ==
  ASSUME SteadyDemand
  PROVE  Spec => []ZonesServeLiveList
<1>1. Init => ZonesInStep
  BY DEF Init, Selected, ZonesInStep, OldOnesServe, VisitedServe, CanariesLoaded
<1>2. Steady /\ [Next]_vars => Steady'
  BY NoKill, SteadyStep
<1>3. Steady /\ ZonesInStep /\ [Next]_vars => ZonesInStep'
  BY ZonesInStepStep DEF Steady
<1>4. ZonesInStep => ZonesServeLiveList
  BY DEF ZonesInStep, OldOnesServe, Untouched, ZonesServeLiveList
<1>. QED
  BY <1>1, <1>2, <1>3, <1>4, SteadyInit, PTL DEF Spec

(* And every run that has established its edges has the zones it finds a   *)
(* template for serve them, as README.md has it (EstablishedIsServed):     *)
(* what stale_zones refutes is due to edge counts that fall, lists too     *)
(* long with forced edges, and too few edges that pass.                    *)
THEOREM SteadyEdgesAreServed ==
  ASSUME SteadyDemand
  PROVE  Spec => EstablishedIsServed
<1>1. Init => ZonesInStep
  BY DEF Init, Selected, ZonesInStep, OldOnesServe, VisitedServe, CanariesLoaded
<1>2. Steady /\ [Next]_vars => Steady'
  BY NoKill, SteadyStep
<1>3. Steady /\ ZonesInStep /\ [Next]_vars => ZonesInStep'
  BY ZonesInStepStep DEF Steady
<1>4. ASSUME Steady, ZonesInStep
      PROVE  [(SaveState /\ Established) =>
                \A z \in Zones : run.template[z] # None => ServesLiveList(z)']_vars
  <2>1. SUFFICES ASSUME SaveState, Established, NEW z \in Zones, run.template[z] # None
                 PROVE  ServesLiveList(z)'
    OBVIOUS
  <2>2. Selected /\ ~run.dry /\ todo = {} /\ z \in Templated
    BY <1>4, <2>1 DEF SaveState, Steady, Course, Selected, Templated
  <2>3. ServesChosen(z)
    BY <1>4, <2>1, <2>2 DEF ZonesInStep, VisitedServe
  <2>. QED
    BY <2>1, <2>3, SavedIsServed
<1>. QED
  BY <1>1, <1>2, <1>3, <1>4, SteadyInit, PTL DEF Spec, EstablishedIsServed

-----------------------------------------------------------------------------
(* The flat live list holds the chosen list once it is written, and the    *)
(* recorded one until then.                                                *)
ListFollows == liveList = IF pc = "save" THEN live ELSE lastLive

LEMMA ListFollowsStep ==
  ASSUME DryRuns = {FALSE}, Course, ChangesShow, ListFollows, [Next]_vars
  PROVE  ListFollows'
<1>1. CASE WriteLiveList
  <2>1. /\ pc = "livelist" /\ pc' = "save" /\ UNCHANGED <<live, lastLive>>
        /\ liveList' = IF AnythingChanged THEN live ELSE liveList
    BY <1>1 DEF WriteLiveList, selection, stateFile
  <2>2. ~AnythingChanged => live = lastLive
    BY <2>1 DEF AnythingChanged, ChangesShow, Selected
  <2>. QED
    BY <2>1, <2>2 DEF ListFollows
<1>2. CASE SaveState
  BY <1>2 DEF SaveState, Exit, outputs, ListFollows
<1>3. CASE EndDryRun
  <2>1. run \in Runs /\ run.dry
    BY <1>3 DEF EndDryRun, Course
  <2>. QED
    BY <2>1 DEF Runs
<1>4. CASE UNCHANGED <<liveList, lastLive>> /\ pc # "save" /\ pc' # "save"
  BY <1>4 DEF ListFollows
<1>5. CASE Begin \/ SetEdgeStates
  BY <1>4, <1>5 DEF Begin, SetEdgeStates, stateFile, outputs
<1>6. CASE HealthBased \/ TimeBased
  BY <1>4, <1>6, ChoosingKeeps DEF stateFile, outputs
<1>7. CASE \E z \in Zones : SkipZone(z) \/ WriteZone(z)
  BY <1>4, <1>7 DEF SkipZone, WriteZone, Visit, stateFile
<1>8. CASE Tick \/ UNCHANGED vars
  BY <1>8 DEF Tick, vars, memory, selection, stateFile, outputs, ListFollows
<1>. QED
  BY <1>1, <1>2, <1>3, <1>5, <1>6, <1>7, <1>8 DEF Next, RunStep, HealthBased, TimeBased

(* The flat live list that other tools read is the recorded live list      *)
(* between runs while the demand is steady, when no dry run writes it      *)
(* (LiveListCurrent).                                                      *)
THEOREM SteadyListIsCurrent ==
  ASSUME SteadyDemand, DryRuns = {FALSE}
  PROVE  Spec => []LiveListCurrent
<1>1. Init => ListFollows
  BY DEF Init, ListFollows
<1>2. Steady /\ [Next]_vars => Steady'
  BY NoKill, SteadyStep
<1>3. Steady /\ ListFollows /\ [Next]_vars => ListFollows'
  BY ListFollowsStep DEF Steady
<1>4. ListFollows => LiveListCurrent
  BY DEF ListFollows, LiveListCurrent
<1>. QED
  BY <1>1, <1>2, <1>3, <1>4, SteadyInit, PTL DEF Spec

-----------------------------------------------------------------------------
(* EdgeManage implements DnetPromise, with runs killed at any point.       *)

(* The invariant the steps need: what a run chooses is fit to serve, and   *)
(* is not nothing where something served.                                  *)
Inv == TypeOK /\ LiveSurvives /\ NewcomersPass

LEMMA InvInit == Init => Inv
BY TypeInit DEF Init, Inv, LiveSurvives, NewcomersPass, Selected

LEMMA InvStep == Inv /\ [NextWithCrash]_vars => Inv'
BY TypeStep, LiveSurvivesStep, NewcomersPassStep DEF Inv

(* What the abstract dnet sees of a run, while the run goes on.            *)
LEMMA KnownForTheRun ==
  ASSUME pc # "idle", pc' # "idle", run' = run
  PROVE  Fit' = Fit /\ FullLists' = FullLists /\ StandIns' = StandIns
<1>1. Fit' = Fit
  BY DEF Fit
<1>2. FullLists' = FullLists
  BY DEF FullLists, Required
<1>3. \A z \in Zones : UsableCanary(z)' = UsableCanary(z)
  BY DEF UsableCanary
<1>4. StandIns' = StandIns
  BY <1>3 DEF StandIns
<1>. QED
  BY <1>1, <1>2, <1>4

KnownTyped ==
  /\ Fit \in SUBSET Edges /\ FullLists \in SUBSET SUBSET Edges
  /\ StandIns \in [Zones -> Canaries \cup {None}]

LEMMA KnownIsTyped == TypeOK => KnownTyped
<1>. SUFFICES ASSUME TypeOK PROVE KnownTyped
  OBVIOUS
<1>. USE DEF KnownTyped
<1>1. CASE pc = "idle"
  BY <1>1 DEF Fit, FullLists, StandIns
<1>2. CASE pc # "idle"
  <2>1. run \in RunTypes
    BY <1>2 DEF TypeOK
  <2>2. Fit \in SUBSET Edges
    BY <1>2, <2>1 DEF Fit, RunTypes
  <2>3. \A z \in Zones : UsableCanary(z) \in Canaries \cup {None}
    BY <2>1, CanaryOfAZone
  <2>. QED
    BY <1>2, <2>2, <2>3 DEF FullLists, StandIns
<1>. QED
  BY <1>1, <1>2

(* Before the choice: learning, and working on a list that may yet change. *)
LEMMA LearningIsJudge ==
  ASSUME TypeOK', ~Selected, ~Selected', UNCHANGED <<lastLive, zoneFile>>
  PROVE  Promise!Judge
<1>1. Settled = None /\ Settled' = None
  BY DEF Settled
<1>2. KnownTyped'
  BY KnownIsTyped, PTL
<1>. QED
  BY <1>1, <1>2 DEF KnownTyped, Promise!Judge

(* The step that ends a selection, whichever it is.                        *)
LEMMA SelectingIsChoose ==
  ASSUME TypeOK, Inv', ~Selected, Selected', UNCHANGED <<run, lastLive, zoneFile>>,
         pc # "idle"
  PROVE  Promise!Choose
<1>1. pc' # "idle"
  BY DEF Selected
<1>2. Settled = None /\ Settled' = live'
  BY DEF Settled
<1>3. live' \subseteq lastLive \cup Fit
  <2>1. JoinedPassing(live \ lastLive)'
    BY DEF Inv, NewcomersPass
  <2>. QED
    BY <2>1 DEF JoinedPassing, Fit
<1>4. lastLive # {} => live' # {}
  BY DEF Inv, LiveSurvives
<1>5. Fit' = Fit /\ FullLists' = FullLists /\ StandIns' = StandIns
  BY <1>1, KnownForTheRun
<1>. QED
  BY <1>2, <1>3, <1>4, <1>5 DEF Promise!Choose

(* What does not touch the choice, the zones or the record.                *)
LEMMA RestIsStutter ==
  ASSUME UNCHANGED <<pc, run, live, lastLive, zoneFile>>
         \/ (Selected /\ Selected' /\ UNCHANGED <<run, live, lastLive, zoneFile>>)
  PROVE  UNCHANGED Promise!promised
<1>1. Settled' = Settled
  BY DEF Settled, Selected
<1>2. CASE pc = "idle"
  <2>1. pc' = "idle"
    BY <1>2 DEF Selected
  <2>2. Fit' = Fit /\ FullLists' = FullLists /\ StandIns' = StandIns
    BY <1>2, <2>1 DEF Fit, FullLists, StandIns
  <2>. QED
    BY <1>1, <2>2 DEF Promise!promised
<1>3. CASE pc # "idle"
  <2>1. pc' # "idle" /\ run' = run
    BY <1>3 DEF Selected
  <2>. QED
    BY <1>1, <1>3, <2>1, KnownForTheRun DEF Promise!promised
<1>. QED
  BY <1>2, <1>3

(* A zone file written is one of the host lists the abstract dnet allows.  *)
LEMMA WritingIsPublish ==
  ASSUME TypeOK, NEW z \in Zones, WriteZone(z)
  PROVE  Promise!Publish(z) \/ UNCHANGED Promise!promised
<1>1. /\ pc = "publish" /\ pc' = pc /\ Established
      /\ UNCHANGED <<run, live, lastLive>>
  BY DEF WriteZone, Visit, selection, stateFile
<1>2. CASE run.dry
  <2>1. zoneFile' = zoneFile
    BY <1>2 DEF WriteZone
  <2>. QED
    BY <1>1, <2>1, RestIsStutter
<1>3. CASE ~run.dry
  <2>1. PICK hosts \in HostLists(z) :
           \E dropped \in SUBSET (hosts \cap Unresolvable) :
              zoneFile' = [zoneFile EXCEPT ![z] = hosts \ dropped]
    BY <1>3 DEF WriteZone
  <2>2. Settled = live /\ Settled' = live /\ live \in SUBSET Edges
    BY <1>1 DEF Settled, Selected, TypeOK
  <2>3. Settled # None /\ Settled \in FullLists
    BY <1>1, <2>2, NoneIsNoList DEF Established, FullLists
  <2>4. StandIns[z] = UsableCanary(z)
    BY <1>1 DEF StandIns
  <2>5. hosts \in Promise!HostLists(z)
    BY <2>2, <2>4 DEF HostLists, Promise!HostLists
  <2>6. Fit' = Fit /\ FullLists' = FullLists /\ StandIns' = StandIns
    BY <1>1, KnownForTheRun
  <2>. QED
    BY <1>1, <2>1, <2>2, <2>3, <2>5, <2>6 DEF Promise!Publish
<1>. QED
  BY <1>2, <1>3

(* The end of a run, whatever it is.                                       *)
LEMMA ExitIsOver ==
  ASSUME Exit
  PROVE  Promise!Over
BY DEF Exit, Promise!Over, Fit, FullLists, StandIns, Settled, Selected

LEMMA SelectedIsChosen ==
  ASSUME TypeOK, Selected
  PROVE  Settled = live /\ Settled # None
BY NoneIsNoList DEF Settled, TypeOK

LEMMA SavingIsCommit == ASSUME TypeOK, SaveState PROVE Promise!Commit
<1>1. Selected /\ Exit /\ lastLive' = live /\ zoneFile' = zoneFile
  BY DEF SaveState, Selected, outputs
<1>. QED
  BY <1>1, SelectedIsChosen, ExitIsOver DEF Promise!Commit

LEMMA DyingIsAbandon ==
  ASSUME TypeOK, TypeOK', EndDryRun \/ Crash
  PROVE  Promise!Abandon \/ Promise!Judge
<1>1. Exit /\ lastLive' = lastLive
  BY DEF EndDryRun, Crash, CrashBetweenSteps, CrashWritingZone, CrashSettingStates,
     CrashWritingLiveList, CrashSaving, stateFile
<1>2. Promise!Over
  BY <1>1, ExitIsOver
<1>3. CASE \E z \in Zones : CrashWritingZone(z)
  <2>1. PICK z \in Zones : CrashWritingZone(z)
    BY <1>3
  <2>2. Selected /\ Established /\ zoneFile' = [zoneFile EXCEPT ![z] = {}]
    BY <2>1 DEF CrashWritingZone, Selected
  <2>3. Settled \in FullLists
    BY <2>1, <2>2, SelectedIsChosen DEF CrashWritingZone, Established, FullLists, TypeOK
  <2>. QED
    BY <1>1, <1>2, <2>2, <2>3, SelectedIsChosen DEF Promise!Abandon
<1>4. CASE ~\E z \in Zones : CrashWritingZone(z)
  <2>1. zoneFile' = zoneFile
    BY <1>4 DEF EndDryRun, Crash, CrashBetweenSteps, CrashSettingStates,
       CrashWritingLiveList, CrashSaving, outputs
  <2>2. CASE Selected
    BY <1>1, <1>2, <2>1, <2>2, SelectedIsChosen DEF Promise!Abandon
  <2>3. CASE ~Selected
    <3>1. ~Selected'
      BY <1>1 DEF Exit, Selected
    <3>. QED
      BY <1>1, <2>1, <2>3, <3>1, LearningIsJudge
  <2>. QED
    BY <2>2, <2>3
<1>. QED
  BY <1>3, <1>4

LEMMA PromiseInit == Init => Promise!Init
BY DEF Init, Promise!Init, Fit, FullLists, StandIns, Settled, Selected

LEMMA PromiseStep ==
  ASSUME Inv, Inv', [NextWithCrash]_vars
  PROVE  [Promise!Next]_Promise!promised
<1>. USE DEF Inv
<1>1. CASE Begin
  <2>1. ~Selected /\ ~Selected' /\ UNCHANGED <<lastLive, zoneFile>>
    BY <1>1 DEF Begin, Selected, stateFile, outputs
  <2>. QED
    BY <2>1, LearningIsJudge DEF Promise!Next
<1>2. CASE KeepHealthyList \/ StartFilling \/ FillTier \/ ReAddLastLive
           \/ ServeForced \/ Rotate \/ KeepCurrent \/ ServeLastResort
  <2>1. /\ pc \in {"select", "fill"} /\ pc' \in {"fill", "publish"}
        /\ UNCHANGED <<run, lastLive, zoneFile>>
    BY <1>2 DEF KeepHealthyList, StartFilling, FillTier, ReAddLastLive, ServeForced, Rotate,
       KeepCurrent, ServeLastResort, Serve, stateFile, outputs
  <2>2. CASE pc' = "fill"
    BY <2>1, <2>2, LearningIsJudge DEF Selected, Promise!Next
  <2>3. CASE pc' = "publish"
    BY <2>1, <2>3, SelectingIsChoose DEF Selected, Promise!Next
  <2>. QED
    BY <2>1, <2>2, <2>3
<1>3. CASE \E z \in Zones : SkipZone(z)
  <2>1. UNCHANGED <<pc, run, live, lastLive, zoneFile>>
    BY <1>3 DEF SkipZone, Visit, selection, stateFile
  <2>. QED
    BY <2>1, RestIsStutter
<1>4. CASE \E z \in Zones : WriteZone(z)
  BY <1>4, WritingIsPublish DEF Promise!Next
<1>5. CASE SetEdgeStates \/ WriteLiveList
  <2>1. Selected /\ Selected' /\ UNCHANGED <<run, live, lastLive, zoneFile>>
    BY <1>5 DEF SetEdgeStates, WriteLiveList, Selected, selection, stateFile
  <2>. QED
    BY <2>1, RestIsStutter
<1>6. CASE SaveState
  BY <1>6, SavingIsCommit DEF Promise!Next
<1>7. CASE EndDryRun \/ Crash
  BY <1>7, DyingIsAbandon DEF Promise!Next
<1>8. CASE Tick \/ UNCHANGED vars
  <2>1. UNCHANGED <<pc, run, live, lastLive, zoneFile>>
    BY <1>8 DEF Tick, vars, memory, selection, stateFile, outputs
  <2>. QED
    BY <2>1, RestIsStutter
<1>. QED
  BY <1>1, <1>2, <1>3, <1>4, <1>5, <1>6, <1>7, <1>8 DEF NextWithCrash, Next, RunStep

(* Whatever runs are told, measure and suffer, a dnet changes only as the  *)
(* abstract one may: both selections, the skipping of zones, dry runs and  *)
(* kills are steps of it or none (KeepsPromise).                           *)
THEOREM PromiseKept == SpecWithCrash => KeepsPromise
BY InvInit, InvStep, PromiseInit, PromiseStep, PTL
   DEF SpecWithCrash, KeepsPromise, Promise!Spec
=============================================================================
