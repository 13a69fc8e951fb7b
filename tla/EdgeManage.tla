----------------------------- MODULE EdgeManage -----------------------------
(***************************************************************************)
(* The runs of edge_manage on one dnet: load the state file, judge the     *)
(* edges, choose the live ones, write the zone files, mark the edges in or *)
(* out, write the live list, save the state file.  Runs exclude each other *)
(* (the lock is the subject of RunLock); what a run measures and is told   *)
(* is chosen at its Begin from the sets the constants give.                *)
(*                                                                         *)
(* A definition whose comment starts with "Mutant" is no part of the       *)
(* specification: it is the definition that follows it, as a plausible     *)
(* slip would have it, and shows that a property notices the slip.         *)
(***************************************************************************)
EXTENDS EdgeHealth, FiniteSets

CONSTANTS
  Edges,        \* host names of the edges; numbers, for their sorting order
  Zones,        \* the zones of the dnet
  Canaries,     \* IP addresses canary files give
  None,         \* no canary, no template, no rotation yet, no run
  Mtimes,       \* modification times of a zone template
  Interval,     \* time_rotation_interval, in ticks
  Grace,        \* TIME_ROTATION_GRACE, in ticks
  Timed,        \* is the dnet in dnet_rotation_minutes?  a set of answers
  EdgeCounts,   \* edge_count or dnet_edge_count of a run
  DryRuns,      \* may a run be a --dry-run?  a set of answers
  ForceUpdates, \* may a run be a --force-update?  a set of answers
  EdgeLists,    \* contents of the dnet's edge list
  EdgeModes,    \* functions from Edges to Modes
  TestHealths,  \* functions from Edges to Healths: what a run's tests give
  Averages,     \* functions from Edges to Nat: the average fetch times
  CanaryMaps,   \* functions from Zones to canaries: the canary file
  CanaryTests,  \* functions from Canaries to Healths or "missing"
  Templates,    \* functions from Zones to Mtimes, None where no template is
  Unresolvable  \* edges whose name may fail to resolve

ASSUME NamesAreOrdered == Edges \subseteq Nat /\ IsFiniteSet(Edges)
ASSUME CanariesAreAddresses == Canaries \cap Edges = {}
ASSUME NoneIsNoValue == None \notin Canaries \cup Mtimes \cup Nat
ASSUME NoneIsNoList == \A list \in SUBSET Edges : list # None
ASSUME IntervalCoversGrace ==
  Interval \in Nat /\ Grace \in Nat /\ Grace <= Interval
ASSUME ChoicesAreTyped ==
  /\ Timed \subseteq BOOLEAN
  /\ EdgeCounts \subseteq Nat \ {0}
  /\ DryRuns \subseteq BOOLEAN
  /\ ForceUpdates \subseteq BOOLEAN
  /\ EdgeLists \subseteq SUBSET Edges
  /\ EdgeModes \subseteq [Edges -> Modes]
  /\ TestHealths \subseteq [Edges -> Healths]
  /\ Averages \subseteq [Edges -> Nat]
  /\ CanaryMaps \subseteq [Zones -> Canaries \cup {None}]
  /\ CanaryTests \subseteq [Canaries -> Healths \cup {"missing"}]
  /\ Templates \subseteq [Zones -> Mtimes \cup {None}]
  /\ Unresolvable \subseteq Edges

VARIABLES
  \* The state file (StateFile).
  lastLive, rotationCycle, zoneMtimes, activeCanaries,
  age,           \* ticks since the last entry of rotation_list, or None
  stateReadable, \* FALSE once a crash has left it truncated
  \* The other files.
  zoneFile,      \* the hosts whose addresses a zone file holds
  liveList,      \* the flat live list
  edgeState,     \* "in" or "out", in each edge's edgestore
  \* The memory of a run.
  pc, run,
  live,          \* edgelist_obj: every edge added to it is live
  changed,       \* edgelist_changed
  anyChanges,    \* any_changes
  tier,          \* index into PASSING_HEALTHS of the next tier to fill from
  cycle,         \* state_obj.rotation_cycle
  canaries,      \* state_obj.active_canaries
  resolved,      \* resolved_ips
  todo           \* zones the run has still to visit

stateFile == <<lastLive, rotationCycle, zoneMtimes, activeCanaries, age, stateReadable>>
outputs == <<zoneFile, liveList, edgeState>>
selection == <<run, live, changed, tier, cycle>>
memory == <<pc, selection, anyChanges, canaries, resolved, todo>>
vars == <<stateFile, outputs, memory>>

Runs ==
  [timed : Timed, required : EdgeCounts, dry : DryRuns, force : ForceUpdates,
   listed : EdgeLists, mode : EdgeModes, health : TestHealths, average : Averages,
   canary : CanaryMaps, canaryHealth : CanaryTests, template : Templates]

Ages == 0 .. Interval

-----------------------------------------------------------------------------
(* What a run knows: decision.current_judgement and the functions of it.   *)

(* Mutant: unavailable edges are judged like the others. *)
AllListed == run.listed
Judged == {e \in run.listed : run.mode[e] # "unavailable"}
RankOf(e) == IF e \in Judged THEN Rank(run.health[e]) ELSE FailRank
Passing(e) == RankOf(e) < FailRank
Required == IF run.timed THEN 1 ELSE run.required
(* Mutant: a list that is too short is published like a full one. *)
EstablishedAnyway == live # {}
Established == Cardinality(live) = Required
LeastOf(S) == {e \in S : \A f \in S : e <= f}

(* Modes that put an edge into service before any other is considered.     *)
Blindforced == {e \in run.listed : run.mode[e] = "blindforce"}
ForcedPassing == {e \in run.listed : run.mode[e] = "force" /\ Passing(e)}

(* Health-based selection: edges of the last run still under goodenough.   *)
StillHealthy == {e \in lastLive \cap Judged : run.health[e] = "pass_threshold"}

Lesser(m, n) == IF m < n THEN m ELSE n
(* Mutant: off by one. *)
RoomForOneLess(taken) == IF taken < Required THEN Required - taken - 1 ELSE 0
(* How many edges "if len(edgelist) < required" still lets in.             *)
Room(taken) == IF taken < Required THEN Required - taken ELSE 0

(* Mutant: sorted the wrong way round. *)
SlowestFirst(S, wanted) ==
  {T \in SUBSET S :
     /\ Cardinality(T) = IF wanted < 0 THEN Cardinality(S)
                                       ELSE Lesser(Cardinality(S), wanted)
     /\ \A e \in T, f \in S \ T : run.average[e] >= run.average[f]}
(* The subsets of S that get_fastest_edges_by_state may return.  A         *)
(* negative desired count is never reached, so it takes all of S.          *)
Fastest(S, wanted) ==
  {T \in SUBSET S :
     /\ Cardinality(T) = IF wanted < 0 THEN Cardinality(S)
                                       ELSE Lesser(Cardinality(S), wanted)
     /\ \A e \in T, f \in S \ T : run.average[e] <= run.average[f]}

(* Timed selection. *)
Forced == Blindforced \cup ForcedPassing
JudgedLastLive == lastLive \cap Judged
CurrentEdge == {e \in JudgedLastLive :
                  \A f \in JudgedLastLive :
                     RankOf(e) < RankOf(f) \/ (RankOf(e) = RankOf(f) /\ e <= f)}
CurrentPassing == \E e \in CurrentEdge : Passing(e)
Due == age # None => age >= Interval - Grace

(* Mutant: every passing edge is a candidate, whatever its tier. *)
AnyPassing == {e \in Judged \ lastLive : Passing(e)}
(* best_rotation_candidates: the best tier of the edges not live last time. *)
Candidates == {e \in Judged \ lastLive :
                 Passing(e) /\ \A f \in Judged \ lastLive : RankOf(e) <= RankOf(f)}
BetterTier == \E e \in Candidates : \A c \in CurrentEdge : RankOf(e) < RankOf(c)
Move == Candidates # {} /\ (Due \/ ~CurrentPassing \/ BetterTier)

(* Mutant: a used-up cycle is not started again. *)
CycleNeverRestarted == rotationCycle
(* A used-up cycle starts again from the live edge. *)
CycleBeforePick == IF Candidates \subseteq rotationCycle THEN lastLive ELSE rotationCycle
Unused == IF Candidates \subseteq rotationCycle THEN Candidates
                                                ELSE Candidates \ rotationCycle

(* Zone files: the canary a zone gets, and when its file is left alone.    *)
UsableCanary(z) ==
  IF run.canary[z] # None /\ run.canaryHealth[run.canary[z]] \in CanaryHealths
  THEN run.canary[z] ELSE None
(* Mutant: a canary that is withdrawn or replaced goes unnoticed. *)
CanaryAppeared(z) == UsableCanary(z) # None /\ canaries[z] = None
CanaryChanged(z) == UsableCanary(z) # canaries[z]
(* Mutants: the live list, or --force-update, is left out of the skip rule. *)
UpToDateDespiteChange(z) ==
  ~run.force /\ ~CanaryChanged(z) /\ zoneMtimes[z] = run.template[z]
UpToDateDespiteForce(z) ==
  ~changed /\ ~CanaryChanged(z) /\ zoneMtimes[z] = run.template[z]
UpToDate(z) ==
  /\ ~run.force /\ ~changed /\ ~CanaryChanged(z)
  /\ zoneMtimes[z] = run.template[z]

(* Mutant: the canary comes on top of the live edges. *)
CanaryAdded(z) ==
  {IF UsableCanary(z) = None THEN live ELSE live \cup {UsableCanary(z)}}
(* The host lists generate_zone may resolve: a canary takes the place of a *)
(* random live edge.                                                       *)
HostLists(z) ==
  IF UsableCanary(z) = None THEN {live}
  ELSE {(live \ {removed}) \cup {UsableCanary(z)} : removed \in live}

-----------------------------------------------------------------------------
Init ==
  /\ lastLive = {} /\ rotationCycle = {}
  /\ zoneMtimes = [z \in Zones |-> None]
  /\ activeCanaries = [z \in Zones |-> None]
  /\ age = None /\ stateReadable = TRUE
  /\ zoneFile = [z \in Zones |-> {}]
  /\ liveList = {}
  /\ edgeState = [e \in Edges |-> "out"]
  /\ pc = "idle" /\ run = None
  /\ live = {} /\ changed = FALSE /\ anyChanges = FALSE /\ tier = 1
  /\ cycle = {} /\ canaries = [z \in Zones |-> None]
  /\ resolved = {} /\ todo = {}

(* Mutant: a run's inputs outlive it. *)
ExitKeepingRun ==
  /\ pc' = "idle" /\ run' = run
  /\ live' = {} /\ changed' = FALSE /\ anyChanges' = FALSE /\ tier' = 1
  /\ cycle' = {} /\ canaries' = [z \in Zones |-> None]
  /\ resolved' = {} /\ todo' = {}
(* The process ends; nothing of its memory survives.                       *)
Exit ==
  /\ pc' = "idle" /\ run' = None
  /\ live' = {} /\ changed' = FALSE /\ anyChanges' = FALSE /\ tier' = 1
  /\ cycle' = {} /\ canaries' = [z \in Zones |-> None]
  /\ resolved' = {} /\ todo' = {}

(* A run starts: the state file is loaded, the edges are tested and judged. *)
Begin ==
  /\ pc = "idle" /\ stateReadable
  /\ run' \in Runs
  /\ pc' = "select"
  /\ cycle' = rotationCycle
  /\ canaries' = activeCanaries
  /\ todo' = {z \in Zones : run'.template[z] # None}
  /\ UNCHANGED <<stateFile, outputs, live, changed, anyChanges, tier, resolved>>

-----------------------------------------------------------------------------
(* Health-based selection (make_edges_live).                               *)

ForcedFirst == Blindforced \cup (ForcedPassing \ StillHealthy)
(* Mutant: the loop over the still healthy edges is missing. *)
KeepForcedOnly == live' = ForcedFirst
KeepStillHealthy ==
  \E kept \in SUBSET (StillHealthy \ ForcedFirst) :
     /\ Cardinality(kept) = Lesser(Cardinality(StillHealthy \ ForcedFirst),
                                  Room(Cardinality(ForcedFirst)))
     /\ live' = ForcedFirst \cup kept

(* The old list is complete and healthy: only forced edges change it.      *)
KeepHealthyList ==
  /\ pc = "select" /\ ~run.timed
  /\ Cardinality(StillHealthy) = run.required
  /\ KeepStillHealthy
  /\ changed' = \/ ForcedPassing \ StillHealthy # {}
                \/ Blindforced \ lastLive # {}
  /\ pc' = "publish"
  /\ UNCHANGED <<stateFile, outputs, run, anyChanges, tier, cycle, canaries, resolved, todo>>

StartFilling ==
  /\ pc = "select" /\ ~run.timed
  /\ Cardinality(StillHealthy) # run.required
  /\ KeepStillHealthy
  /\ changed' = TRUE
  /\ pc' = "fill" /\ tier' = 1
  /\ UNCHANGED <<stateFile, outputs, run, anyChanges, cycle, canaries, resolved, todo>>

(* One iteration over the tiers, best first.  Edges only ever join `live', *)
(* so what remains of a tier is what is not live yet.                      *)
TierLeft(t) == {e \in Judged \ live : RankOf(e) = t}
FillTier ==
  /\ pc = "fill" /\ tier < FailRank
  /\ \E picked \in Fastest(TierLeft(tier), run.required - Cardinality(live)) :
       /\ live' = live \cup picked
       /\ pc' = IF Cardinality(live') = run.required THEN "publish" ELSE "fill"
  /\ tier' = tier + 1
  /\ UNCHANGED <<stateFile, outputs, run, changed, anyChanges, cycle, canaries, resolved, todo>>

(* Mutant: the last resort is missing. *)
NothingReadded == live
(* No tier met the demand: the last live edges serve on, failing or not.   *)
LastLiveReadded == live \cup lastLive
ReAddLastLive ==
  /\ pc = "fill" /\ tier = FailRank
  /\ live' = LastLiveReadded
  /\ changed' = FALSE
  /\ pc' = "publish"
  /\ UNCHANGED <<stateFile, outputs, run, anyChanges, tier, cycle, canaries, resolved, todo>>

-----------------------------------------------------------------------------
(* Timed selection (select_time_rotation_edge).                            *)

Serve(chosen, startOfCycle) ==
  /\ live' = chosen
  /\ changed' = (chosen # lastLive)
  /\ cycle' = startOfCycle \cup chosen
  /\ pc' = "publish"
  /\ UNCHANGED <<stateFile, outputs, run, anyChanges, tier, canaries, resolved, todo>>

(* A forced edge suspends rotation; of several the first by name serves.   *)
ServeForced ==
  /\ pc = "select" /\ run.timed
  /\ Forced # {}
  /\ Serve(LeastOf(Forced), rotationCycle)

Rotate ==
  /\ pc = "select" /\ run.timed
  /\ Forced = {} /\ Move
  /\ \E e \in Unused : Serve({e}, CycleBeforePick)

KeepCurrent ==
  /\ pc = "select" /\ run.timed
  /\ Forced = {} /\ ~Move /\ CurrentPassing
  /\ Serve(CurrentEdge, rotationCycle)

(* Mutant: the timed last resort is missing. *)
ServeNobody ==
  /\ pc = "select" /\ run.timed
  /\ Forced = {} /\ ~Move /\ ~CurrentPassing
  /\ Serve({}, rotationCycle)

(* Nothing passes: the first of the last live edges, if there is one.      *)
ServeLastResort ==
  /\ pc = "select" /\ run.timed
  /\ Forced = {} /\ ~Move /\ ~CurrentPassing
  /\ Serve(LeastOf(lastLive), rotationCycle)

-----------------------------------------------------------------------------
(* Publishing.  The zones are visited only with a full live list, in the   *)
(* order glob finds them; a visit records the canary and writes the file   *)
(* unless it is up to date.                                                *)

Visit(z) ==
  /\ pc = "publish" /\ Established /\ z \in todo
  /\ todo' = todo \ {z}
  /\ canaries' = [canaries EXCEPT ![z] = UsableCanary(z)]
  /\ UNCHANGED <<pc, selection, stateFile, liveList, edgeState>>

SkipZone(z) ==
  /\ Visit(z)
  /\ UpToDate(z)
  /\ UNCHANGED <<zoneFile, anyChanges, resolved>>

(* A name that does not resolve, twice, is dropped from this zone; one     *)
(* that did resolve is never looked up again in this run.                  *)
WriteZone(z) ==
  /\ Visit(z)
  /\ ~UpToDate(z)
  /\ anyChanges' = TRUE
  /\ \E hosts \in HostLists(z) :
     \E dropped \in SUBSET ((hosts \cap Unresolvable) \ resolved) :
       /\ resolved' = resolved \cup (hosts \ dropped)
       /\ zoneFile' = IF run.dry THEN zoneFile
                      ELSE [zoneFile EXCEPT ![z] = hosts \ dropped]

(* Mutant: edges are marked in, and never out again. *)
OnlySetIn ==
  [e \in Edges |-> IF e \in run.listed /\ ~run.dry /\ e \in live
                   THEN "in" ELSE edgeState[e]]
(* Every listed edge's edgestore says whether it is live.                  *)
StatesSet ==
  [e \in Edges |-> IF e \in run.listed /\ ~run.dry
                   THEN IF e \in live THEN "in" ELSE "out"
                   ELSE edgeState[e]]
SetEdgeStates ==
  /\ pc = "publish" /\ (Established => todo = {})
  /\ edgeState' = StatesSet
  /\ pc' = "livelist"
  /\ UNCHANGED <<stateFile, zoneFile, liveList, selection, anyChanges, canaries, resolved, todo>>

(* Mutant: only zone files count as a change. *)
AnyZoneWritten == anyChanges
AnythingChanged == anyChanges \/ changed
(* Written after any change, in a dry run too.                             *)
WriteLiveList ==
  /\ pc = "livelist"
  /\ liveList' = IF AnythingChanged THEN live ELSE liveList
  /\ pc' = "save"
  /\ UNCHANGED <<stateFile, zoneFile, edgeState, selection, anyChanges, canaries, resolved, todo>>

SaveState ==
  /\ pc = "save" /\ ~run.dry
  /\ lastLive' = live
  /\ rotationCycle' = cycle
  /\ zoneMtimes' = run.template
  /\ activeCanaries' = canaries
  /\ age' = IF live # lastLive THEN 0 ELSE age
  /\ Exit
  /\ UNCHANGED <<outputs, stateReadable>>

EndDryRun ==
  /\ pc = "save" /\ run.dry
  /\ Exit
  /\ UNCHANGED <<stateFile, outputs>>

(* Time passes, during a run as well as between runs.                      *)
Tick ==
  /\ age # None /\ age < Interval
  /\ age' = age + 1
  /\ UNCHANGED <<lastLive, rotationCycle, zoneMtimes, activeCanaries, stateReadable,
                 outputs, memory>>

RunStep ==
  \/ Begin
  \/ KeepHealthyList \/ StartFilling \/ FillTier \/ ReAddLastLive
  \/ ServeForced \/ Rotate \/ KeepCurrent \/ ServeLastResort
  \/ \E z \in Zones : SkipZone(z) \/ WriteZone(z)
  \/ SetEdgeStates \/ WriteLiveList \/ SaveState \/ EndDryRun

Next == RunStep \/ Tick

-----------------------------------------------------------------------------
(* The process is killed, or dies of an exception, between two steps or in *)
(* the middle of a write: open(path, "w") has truncated the file and its   *)
(* content is lost; the loop over the edgestores has done some of them.    *)

CrashBetweenSteps == pc # "idle" /\ Exit /\ UNCHANGED <<stateFile, outputs>>

CrashWritingZone(z) ==
  /\ pc = "publish" /\ Established /\ z \in todo /\ ~UpToDate(z) /\ ~run.dry
  /\ zoneFile' = [zoneFile EXCEPT ![z] = {}]
  /\ Exit
  /\ UNCHANGED <<stateFile, liveList, edgeState>>

CrashSettingStates(done) ==
  /\ pc = "publish" /\ (Established => todo = {})
  /\ edgeState' = [e \in Edges |-> IF e \in done THEN StatesSet[e] ELSE edgeState[e]]
  /\ Exit
  /\ UNCHANGED <<stateFile, zoneFile, liveList>>

CrashWritingLiveList ==
  /\ pc = "livelist" /\ AnythingChanged
  /\ liveList' = {}
  /\ Exit
  /\ UNCHANGED <<stateFile, zoneFile, edgeState>>

(* Later runs die of a ValueError as they load the state file.             *)
CrashSaving ==
  /\ pc = "save" /\ ~run.dry
  /\ stateReadable' = FALSE
  /\ Exit
  /\ UNCHANGED <<lastLive, rotationCycle, zoneMtimes, activeCanaries, age, outputs>>

Crash ==
  \/ CrashBetweenSteps
  \/ \E z \in Zones : CrashWritingZone(z)
  \/ \E done \in SUBSET Edges : CrashSettingStates(done)
  \/ CrashWritingLiveList
  \/ CrashSaving

NextWithCrash == Next \/ Crash

Spec == Init /\ [][Next]_vars
SpecWithCrash == Init /\ [][NextWithCrash]_vars

(* cron starts a run again and again, no step of a run waits for anything  *)
(* but its own timeouts, and the clock advances.                           *)
RunsGoOn == WF_vars(RunStep) /\ WF_vars(Tick)

-----------------------------------------------------------------------------
(* The type of every variable: what the files and the memory of a run hold, *)
(* and that nothing of a run's memory is left once it has ended.            *)
RunTypes ==
  [timed : BOOLEAN, required : Nat \ {0}, dry : BOOLEAN, force : BOOLEAN,
   listed : SUBSET Edges, mode : [Edges -> Modes], health : [Edges -> Healths],
   average : [Edges -> Nat], canary : [Zones -> Canaries \cup {None}],
   canaryHealth : [Canaries -> Healths \cup {"missing"}],
   template : [Zones -> Mtimes \cup {None}]]

TypeOK ==
  /\ lastLive \in SUBSET Edges /\ rotationCycle \in SUBSET Edges
  /\ zoneMtimes \in [Zones -> Mtimes \cup {None}]
  /\ activeCanaries \in [Zones -> Canaries \cup {None}]
  /\ age \in Ages \cup {None} /\ stateReadable \in BOOLEAN
  /\ zoneFile \in [Zones -> SUBSET (Edges \cup Canaries)]
  /\ liveList \in SUBSET Edges
  /\ edgeState \in [Edges -> {"in", "out"}]
  /\ pc \in {"idle", "select", "fill", "publish", "livelist", "save"}
  /\ IF pc = "idle" THEN run = None ELSE run \in RunTypes
  /\ live \in SUBSET Edges /\ changed \in BOOLEAN /\ anyChanges \in BOOLEAN
  /\ tier \in 1 .. FailRank
  /\ cycle \in SUBSET Edges
  /\ canaries \in [Zones -> Canaries \cup {None}]
  /\ resolved \in SUBSET (Edges \cup Canaries)
  /\ todo \in SUBSET Zones

Selected == pc \in {"publish", "livelist", "save"}

(* An edge that was not live enters service only if its last test passed   *)
(* and it is neither unavailable nor off the edge list, or an operator     *)
(* blindforced it (the tier loop, forced edges and timed candidates; the   *)
(* last resort may bring back old edges only).                             *)
NewLiveIsPassing ==
  Selected => \A e \in live \ lastLive :
                 /\ e \in run.listed
                 /\ \/ run.mode[e] = "blindforce"
                    \/ run.mode[e] # "unavailable" /\ run.health[e] # "fail"

(* No edge that is neither forced nor kept is live while a judged edge of  *)
(* a better tier, or a faster one of its tier, is left out (the tier loop  *)
(* of make_edges_live with get_fastest_edges_by_state).                    *)
BestEdgesChosen ==
  (Selected /\ ~run.timed /\ Established /\ changed) =>
     \A e \in live \ (StillHealthy \cup Blindforced \cup ForcedPassing) :
     \A f \in Judged \ live :
        \/ RankOf(e) < RankOf(f)
        \/ RankOf(e) = RankOf(f) /\ run.average[e] <= run.average[f]

(* A complete live list whose edges are all still under goodenough is kept *)
(* and not reported as changed, unless an operator forces another edge in. *)
StableWhenHealthy ==
  (/\ Selected /\ ~run.timed
   /\ lastLive = StillHealthy /\ Cardinality(lastLive) = run.required
   /\ Blindforced \cup ForcedPassing \subseteq lastLive)
  => live = lastLive /\ ~changed

(* A still healthy edge loses its place only to a full list.               *)
HealthyEdgesKept ==
  (Selected /\ ~run.timed /\ ~(StillHealthy \subseteq live)) =>
     Cardinality(live) >= run.required

(* Once a dnet has live edges no completed run leaves it without any, not  *)
(* even when every test fails (the last resorts of both selections).       *)
LiveNeverEmptied == [][lastLive # {} => lastLive' # {}]_vars

(* Timed rotation serves one passing edge whenever one passes, and no edge *)
(* that was not live before is in a better tier (select_time_rotation_edge: *)
(* failover and tier upgrade do not wait for the timer).                   *)
TimedServesBestTier ==
  (Selected /\ run.timed /\ Forced = {} /\ \E f \in Judged : Passing(f)) =>
     \E e \in Judged :
        /\ live = {e} /\ Passing(e)
        /\ \A f \in Judged \ lastLive : RankOf(e) <= RankOf(f)

(* z's file names all of hosts, but for names that may fail to resolve.     *)
Names(z, hosts) ==
  zoneFile[z] \subseteq hosts /\ hosts \ zoneFile[z] \subseteq Unresolvable
(* It names the live list, with the recorded canary in the place of one    *)
(* live edge.                                                              *)
ServesLiveList(z) ==
  IF activeCanaries[z] = None THEN Names(z, lastLive)
  ELSE \E removed \in lastLive :
          Names(z, (lastLive \ {removed}) \cup {activeCanaries[z]})

(* Between runs the zones of a dnet serve the live list the state file     *)
(* records: which zones a run may skip depends on what earlier runs, dry,  *)
(* incomplete or without templates, wrote and recorded.                    *)
ZonesServeLiveList ==
  (pc = "idle" /\ lastLive # {}) =>
     \A z \in Zones : zoneMtimes[z] # None => ServesLiveList(z)

(* Between runs the recorded canary of a zone is the canary in its file:   *)
(* a canary that fails or leaves the canary file is taken out of the zone. *)
CanaryRecordTrue ==
  pc = "idle" =>
     \A z \in Zones :
        zoneFile[z] \cap Canaries =
           IF activeCanaries[z] = None THEN {} ELSE {activeCanaries[z]}

(* Between runs the edgestores say "in" of the live edges only.            *)
EdgeStatesMatchLiveList ==
  pc = "idle" => \A e \in Edges : (edgeState[e] = "in") <=> (e \in lastLive)

(* Between runs the flat live list is the recorded live list.              *)
LiveListCurrent == pc = "idle" => liveList = lastLive

(* No run ever puts a partial host list into a zone: what it writes holds  *)
(* as many hosts as this very run requires, canary included, and a kill    *)
(* leaves the zone as it was or, in the middle of the write, empty.        *)
ZonesAreFull ==
  [][\A z \in Zones : zoneFile'[z] # zoneFile[z] =>
        IF pc' = "idle" THEN zoneFile'[z] = {}
                        ELSE Cardinality(zoneFile'[z]) = Required]_vars

(* Whatever killed runs have left behind, a completed --force-update, and  *)
(* a completed timed change, leaves every zone with the new live list.     *)
UpdatesRepair ==
  [][(SaveState /\ Established /\ (run.force \/ (run.timed /\ changed)))
     => \A z \in Zones : run.template[z] # None => ServesLiveList(z)']_vars

(* In a healthy pool the random rotation leaves no edge out forever.       *)
EveryEdgeGetsATurn == \A e \in Edges : []<>(lastLive = {e})

-----------------------------------------------------------------------------
(* The abstract dnet: what a run knows, and the list it has settled on.    *)

Fit == IF pc = "idle" THEN {}
       ELSE {e \in run.listed : \/ run.mode[e] = "blindforce"
                                \/ run.mode[e] # "unavailable" /\ run.health[e] # "fail"}
FullLists == IF pc = "idle" THEN {}
             ELSE {list \in SUBSET Edges : Cardinality(list) = Required}
StandIns == [z \in Zones |-> IF pc = "idle" THEN None ELSE UsableCanary(z)]
Settled == IF Selected THEN live ELSE None

Promise == INSTANCE DnetPromise WITH
  serving <- lastLive, fit <- Fit, full <- FullLists, standIn <- StandIns,
  chosen <- Settled, dns <- zoneFile

(* The selections and the publication, step by step, implement the dnet    *)
(* that chooses at once (make_edges_live as a whole): no zone ever names   *)
(* an edge that is neither serving nor fit, no list is published before    *)
(* the choice is final, and what is recorded is what was chosen.           *)
KeepsPromise == Promise!Spec

-----------------------------------------------------------------------------
(* What documents say and the code does not keep.                          *)

(* README: a live list that is still healthy is kept in the DNS.  A run    *)
(* that established its edges leaves the zones serving them.               *)
EstablishedIsServed ==
  [][(SaveState /\ Established) =>
        \A z \in Zones : run.template[z] # None => ServesLiveList(z)']_vars
=============================================================================
