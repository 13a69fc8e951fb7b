--------------------------- MODULE DnetHostProofs ---------------------------
(***************************************************************************)
(* The host of a dnet keeps what RunLock promises, and its zones what the  *)
(* state file says, for every number of processes and every set of lists.  *)
(***************************************************************************)
EXTENDS DnetHost, RunLockProofs

(* A step of the host is a step of RunLock, or none of its business.       *)
LEMMA HostStepIsLockStep == [HostNext]_hostVars => [Next]_vars
<1>. SUFFICES ASSUME [HostNext]_hostVars PROVE [Next]_vars
  OBVIOUS
<1>1. ASSUME NEW p \in Managers, RunStep(p) PROVE [Next]_vars
  BY <1>1 DEF RunStep, Read, Turned, Lock, Choose, WriteSome, WriteAll, Mark, Save, Next, ManagerStep
<1>2. ASSUME NEW p \in Procs, Kill(p) PROVE [Next]_vars
  BY <1>2 DEF Kill, Next
<1>3. CASE UNCHANGED hostVars
  BY <1>3 DEF hostVars
<1>. QED
  BY <1>1, <1>2, <1>3 DEF HostNext, Next

(* The runs that read, choose, publish and record live lists lock, load    *)
(* and dump as RunLock has it, so that what is proved of RunLock holds of  *)
(* the host (mutual exclusion, no lost mode, no lost value).               *)
THEOREM HostImplementsRunLock == HostSpec => Spec
BY HostStepIsLockStep, PTL DEF HostSpec, Spec, HostInit

(* Two runs, or a run and an edge_conf, never overlap past the lock        *)
(* (NoConcurrentExecution).                                                *)
THEOREM HostExcludes == HostSpec => []NoConcurrentExecution
BY HostImplementsRunLock, LockExcludes, PTL

-----------------------------------------------------------------------------
(* Why the zones agree with the record.  Zones serve what the run that has *)
(* written them chose, and those it has yet to write the record, unless    *)
(* the two have parted; so do zones that nobody is writing.  A run past    *)
(* the lock knows what is recorded, unless they have parted; and one that  *)
(* has reported a change does not save before it has written all zones.    *)
WritersServe ==
  \A p \in Managers :
     /\ wrote[p] # "none" => PastLock(p) /\ Begun(p)
     /\ wrote[p] = "some" /\ ~parted => served = {recorded, chosen[p]}
     /\ wrote[p] = "all" => served = {chosen[p]}
RunsKnow == ~parted => \A p \in Managers : PastLock(p) => known[p] = recorded
ZonesAgree == (~parted /\ \A p \in Managers : wrote[p] = "none") => served = {recorded}
SaversAreDone == \A p \in Managers : pc[p] = "saving" => ZonesDone(p)

HostInv ==
  /\ TypeOK /\ LockHeld
  /\ DnetTypes /\ WritersServe /\ RunsKnow /\ ZonesAgree /\ SaversAreDone

LEMMA HostInvInit == TypeOK /\ HostInit => HostInv
<1>. SUFFICES ASSUME TypeOK, HostInit PROVE HostInv
  OBVIOUS
<1>1. \A p \in Managers : pc[p] = "off" /\ wrote[p] = "none"
  BY ManagersAndConfs DEF HostInit, Init
<1>2. DnetTypes
  BY DEF HostInit, DnetTypes, Duties
<1>3. LockHeld
  BY DEF HostInit, Init, LockHeld, PastLock
<1>4. WritersServe /\ RunsKnow /\ SaversAreDone
  BY <1>1 DEF WritersServe, RunsKnow, SaversAreDone, PastLock
<1>5. ZonesAgree
  BY DEF HostInit, ZonesAgree
<1>. QED
  BY <1>2, <1>3, <1>4, <1>5 DEF HostInv

LEMMA HostTypesStep ==
  ASSUME DnetTypes, [HostNext]_hostVars
  PROVE  DnetTypes'
<1>. USE DEF DnetTypes
<1>1. ASSUME NEW p \in Managers, RunStep(p) PROVE DnetTypes'
  BY <1>1 DEF RunStep, Read, Turned, Lock, Choose, WriteSome, WriteAll, Mark, Save, Forget, dnet, vars,
         Duties
<1>2. ASSUME NEW p \in Procs, Kill(p) PROVE DnetTypes'
  BY <1>2 DEF Kill, Forget, dnet, Duties
<1>3. CASE UNCHANGED dnet
  BY <1>3 DEF dnet
<1>. QED
  BY <1>1, <1>2, <1>3 DEF HostNext, hostVars

(* Steps that leave the lists alone, and let nobody past the lock who was  *)
(* not, or to the saving.                                                  *)
LEMMA IdleStep ==
  ASSUME HostInv, UNCHANGED dnet,
         \A p \in Managers : /\ PastLock(p)' <=> PastLock(p)
                             /\ pc'[p] = "saving" => pc[p] = "saving"
  PROVE  WritersServe' /\ RunsKnow' /\ ZonesAgree' /\ SaversAreDone'
BY DEF HostInv, dnet, DnetTypes, WritersServe, RunsKnow, ZonesAgree, SaversAreDone,
   ZonesDone, Begun

LEMMA HostRunStep ==
  ASSUME HostInv, NEW p \in Managers, RunStep(p)
  PROVE  WritersServe' /\ RunsKnow' /\ ZonesAgree' /\ SaversAreDone'
<1>. USE ManagersAndConfs
<1>. USE DEF HostInv, DnetTypes, WritersServe, RunsKnow, ZonesAgree, SaversAreDone, PastLock,
             ZonesDone, Begun
<1>1. pc \in [Procs -> {"off", "loaded", "locked", "testing", "selecting", "saving",
                        "conf", "setting"}]
  BY DEF TypeOK
<1>2. \A q \in Managers : PastLock(q) => owner = q
  BY DEF LockHeld
<1>3. CASE Read(p)
  BY <1>1, <1>3 DEF Read, LoadState, Goto
<1>4. CASE Turned(p)
  BY <1>1, <1>4 DEF Turned, GiveUp, LockRefused, Goto, Forget
<1>5. CASE Lock(p)
  <2>1. \A q \in Managers : ~PastLock(q)
    BY <1>2, <1>5 DEF Lock, LockRun, TakeLock
  <2>2. \A q \in Managers : wrote[q] = "none"
    BY <2>1
  <2>3. \A q \in Managers : PastLock(q)' => q = p
    BY <1>1, <1>5, <2>1 DEF Lock, LockRun, Goto
  <2>. QED
    BY <1>1, <1>5, <2>1, <2>2, <2>3 DEF Lock, LockRun, Goto
<1>6. CASE Choose(p)
  <2>1. wrote[p] = "none"
    BY <1>6 DEF Choose
  <2>. QED
    BY <1>1, <1>6, <2>1, NoListIsNone DEF Choose, vars
<1>7. CASE WriteSome(p) \/ WriteAll(p)
  <2>1. \A q \in Managers : wrote[q] # "none" => q = p
    BY <1>2, <1>7 DEF WriteSome, WriteAll
  <2>2. PastLock(p) /\ Begun(p) /\ UNCHANGED <<pc, owner, recorded, known, chosen, duty, parted>>
    BY <1>7 DEF WriteSome, WriteAll, vars
  <2>3. CASE WriteSome(p)
    <3>1. /\ wrote' = [wrote EXCEPT ![p] = "some"] /\ served' = served \cup {chosen[p]}
          /\ \A q \in Managers : wrote[q] = "none"
      BY <2>1, <2>3 DEF WriteSome
    <3>2. ~parted => served' = {recorded, chosen[p]}
      BY <3>1
    <3>. QED
      BY <1>1, <2>1, <2>2, <3>1, <3>2
  <2>4. CASE WriteAll(p)
    <3>1. wrote' = [wrote EXCEPT ![p] = "all"] /\ served' = {chosen[p]}
      BY <2>4 DEF WriteAll
    <3>. QED
      BY <1>1, <2>1, <2>2, <3>1
  <2>. QED
    BY <1>7, <2>3, <2>4
<1>8. CASE Mark(p)
  BY <1>1, <1>8 DEF Mark, SetEdgeState, Goto, dnet
<1>9. CASE Save(p)
  <2>1. \A q \in Managers : PastLock(q) => q = p
    BY <1>1, <1>2, <1>9 DEF Save, SaveState, Goto
  <2>2. \A q \in Managers : ~PastLock(q)'
    BY <1>1, <1>9, <2>1 DEF Save, SaveState, Goto
  <2>3. \A q \in Managers : q # p => wrote[q] = "none"
    BY <2>1
  <2>4. \A q \in Managers : wrote'[q] = "none"
    BY <1>9, <2>3 DEF Save, Forget
  <2>5. pc[p] = "saving" /\ PastLock(p) /\ ZonesDone(p)
    BY <1>1, <1>9 DEF Save, SaveState, Goto
  <2>6. ~parted' => served' = {recorded'}
    <3>1. /\ recorded' = chosen[p] /\ served' = served
          /\ parted' = (wrote[p] # "all" /\ (parted \/ (duty[p] # "all" /\ Changing(p))))
      BY <1>9 DEF Save
    <3>2. CASE wrote[p] = "all"
      BY <3>1, <3>2
    <3>3. CASE wrote[p] # "all" /\ ~parted'
      <4>1. ~parted /\ chosen[p] = recorded
        BY <2>5, <3>1, <3>3 DEF Changing
      <4>2. wrote[p] \in {"none", "some"}
        BY <3>3 DEF Duties
      <4>. QED
        BY <2>3, <3>1, <4>1, <4>2
    <3>. QED
      BY <3>2, <3>3
  <2>7. \A q \in Managers : pc'[q] # "saving"
    BY <2>2
  <2>. QED
    BY <2>2, <2>4, <2>6, <2>7
<1>10. CASE (LoadStore(p) \/ AddValue(p)) /\ UNCHANGED dnet
  <2>1. \A q \in Managers : /\ PastLock(q)' <=> PastLock(q)
                            /\ pc'[q] = "saving" => pc[q] = "saving"
    BY <1>1, <1>10 DEF LoadStore, AddValue, Goto
  <2>. QED
    BY <1>10, <2>1, IdleStep
<1>. QED
  BY <1>3, <1>4, <1>5, <1>6, <1>7, <1>8, <1>9, <1>10 DEF RunStep

LEMMA HostOtherStep ==
  ASSUME HostInv,
         \/ \E p \in Confs : ConfStep(p) /\ UNCHANGED dnet
         \/ \E p \in Procs : Kill(p)
         \/ Tick /\ UNCHANGED dnet
         \/ UNCHANGED hostVars
  PROVE  WritersServe' /\ RunsKnow' /\ ZonesAgree' /\ SaversAreDone'
<1>. USE ManagersAndConfs
<1>1. pc \in [Procs -> {"off", "loaded", "locked", "testing", "selecting", "saving",
                        "conf", "setting"}]
  BY DEF HostInv, TypeOK
<1>2. ASSUME NEW p \in Confs, ConfStep(p), UNCHANGED dnet
      PROVE  WritersServe' /\ RunsKnow' /\ ZonesAgree' /\ SaversAreDone'
  <2>1. \A q \in Managers : pc'[q] = pc[q]
    BY <1>1, <1>2, ProcessesAreDistinct DEF ConfStep, LockConf, LoadConf, SetMode, Goto
  <2>. QED
    BY <1>2, <2>1, IdleStep DEF PastLock
<1>3. ASSUME NEW p \in Procs, Kill(p)
      PROVE  WritersServe' /\ RunsKnow' /\ ZonesAgree' /\ SaversAreDone'
  <2>1. pc' = [pc EXCEPT ![p] = "off"]
    BY <1>3 DEF Kill, Die
  <2>2. CASE p \in Managers
    <3>1. /\ parted' = (parted \/ (wrote[p] # "none" /\ Changing(p)))
          /\ known' = [known EXCEPT ![p] = NoList]
          /\ chosen' = [chosen EXCEPT ![p] = NoList]
          /\ duty' = [duty EXCEPT ![p] = "none"]
          /\ wrote' = [wrote EXCEPT ![p] = "none"]
          /\ UNCHANGED <<recorded, served>>
      BY <1>3, <2>2 DEF Kill, Forget
    <3>2. \A q \in Managers : q # p =>
            /\ pc'[q] = pc[q] /\ known'[q] = known[q] /\ chosen'[q] = chosen[q]
            /\ duty'[q] = duty[q] /\ wrote'[q] = wrote[q]
      BY <1>1, <2>1, <3>1 DEF HostInv, DnetTypes
    <3>3. pc'[p] = "off" /\ wrote'[p] = "none"
      BY <1>1, <2>1, <2>2, <3>1 DEF HostInv, DnetTypes
    <3>4. WritersServe'
      BY <3>1, <3>2, <3>3 DEF HostInv, DnetTypes, WritersServe, PastLock, Begun
    <3>5. RunsKnow'
      BY <3>1, <3>2, <3>3 DEF HostInv, RunsKnow, PastLock
    <3>6. ZonesAgree'
      <4>1. SUFFICES ASSUME ~parted', \A q \in Managers : wrote'[q] = "none"
                     PROVE  served = {recorded}
        BY <3>1 DEF ZonesAgree
      <4>2. ~parted /\ \A q \in Managers : q # p => wrote[q] = "none"
        BY <3>1, <3>2, <4>1
      <4>3. CASE wrote[p] = "none"
        BY <4>2, <4>3 DEF HostInv, ZonesAgree
      <4>4. CASE wrote[p] # "none"
        <5>1. chosen[p] = known[p] /\ known[p] = recorded
          BY <2>2, <3>1, <4>1, <4>2, <4>4 DEF HostInv, WritersServe, RunsKnow, Changing
        <5>2. wrote[p] \in {"some", "all"}
          BY <2>2, <4>4 DEF HostInv, DnetTypes, Duties
        <5>. QED
          BY <2>2, <4>2, <5>1, <5>2 DEF HostInv, WritersServe
      <4>. QED
        BY <4>3, <4>4
    <3>7. SaversAreDone'
      BY <3>2, <3>3 DEF HostInv, SaversAreDone, ZonesDone, Begun
    <3>. QED
      BY <3>4, <3>5, <3>6, <3>7
  <2>3. CASE p \notin Managers
    <3>1. UNCHANGED dnet /\ \A q \in Managers : pc'[q] = pc[q]
      BY <1>1, <1>3, <2>1, <2>3 DEF Kill
    <3>. QED
      BY <3>1, IdleStep DEF PastLock
  <2>. QED
    BY <2>2, <2>3
<1>4. CASE (Tick /\ UNCHANGED dnet) \/ UNCHANGED hostVars
  <2>1. pc' = pc /\ UNCHANGED dnet
    BY <1>4 DEF Tick, hostVars, vars
  <2>. QED
    BY <2>1, IdleStep DEF PastLock
<1>. QED
  BY <1>2, <1>3, <1>4

LEMMA HostInvHolds == HostSpec => []HostInv
<1>1. HostInv /\ IInv' /\ [HostNext]_hostVars => HostInv'
  <2>. SUFFICES ASSUME HostInv, IInv', [HostNext]_hostVars PROVE HostInv'
    OBVIOUS
  <2>1. DnetTypes'
    BY HostTypesStep DEF HostInv
  <2>2. WritersServe' /\ RunsKnow' /\ ZonesAgree' /\ SaversAreDone'
    BY HostRunStep, HostOtherStep DEF HostNext
  <2>. QED
    BY <2>1, <2>2 DEF IInv, HostInv
<1>2. HostInit /\ IInv => HostInv
  BY HostInvInit DEF IInv
<1>3. HostSpec => []IInv
  BY HostImplementsRunLock, IInvHolds, PTL
<1>. QED
  BY <1>1, <1>2, <1>3, PTL DEF HostSpec

(* Between runs every zone serves the recorded live list, unless a run was *)
(* overtaken between its reading and its locking, killed between its       *)
(* writing and its saving, or has saved a list that it did not report as   *)
(* changed, and no run has repaired that (ServedIsRecorded).               *)
THEOREM ZonesFollowRecord == HostSpec => []ServedIsRecorded
<1>1. HostInv => ServedIsRecorded
  BY ManagersAndConfs DEF HostInv, LockHeld, DnetTypes, WritersServe, ZonesAgree, ServedIsRecorded
<1>. QED
  BY <1>1, HostInvHolds, PTL

-----------------------------------------------------------------------------
(* How many steps a process can take before it gives up the lock it holds. *)
TenureLeft(p) ==
  CASE pc[p] = "locked" -> 7 [] pc[p] = "testing" -> 6 [] pc[p] = "saving" -> 1
    [] pc[p] = "selecting" -> IF ~Begun(p) THEN 5
                              ELSE CASE wrote[p] = "none" -> 4 [] wrote[p] = "some" -> 3
                                     [] OTHER -> 2
    [] pc[p] = "conf" -> 2 [] pc[p] = "setting" -> 1 [] OTHER -> 0

(* What a run and an edge_conf can do at each point past the lock.         *)
CanGoOn(p) ==
  IF p \in Managers
  THEN \/ pc[p] = "locked"
       \/ pc[p] = "testing" /\ values < MaxValues
       \/ /\ pc[p] = "selecting"
          /\ IF Begun(p) THEN ZonesDone(p) \/ (duty[p] # "none" /\ wrote[p] # "all")
                         ELSE Lists # {}
       \/ pc[p] = "saving" /\ p \notin daemons
  ELSE pc[p] \in {"conf", "setting"}

(* No run is at a point of edge_conf, nor the other way round, and without *)
(* DaemonSpec no run is a daemon.                                          *)
RolesApart ==
  /\ daemons = {}
  /\ \A p \in Managers : pc[p] \notin {"conf", "setting"}
  /\ \A p \in Confs : pc[p] \in {"off", "conf", "setting"}

LEMMA RolesApartStep ==
  ASSUME TypeOK, RolesApart, [Next]_vars
  PROVE  RolesApart'
<1>. USE ManagersAndConfs, ProcessesAreDistinct DEF TypeOK, RolesApart
<1>1. ASSUME NEW p \in Managers, ManagerStep(p) PROVE RolesApart'
  BY <1>1
     DEF ManagerStep, LoadState, GiveUp, LockRun, LockRefused, LoadStore, AddValue,
         SetEdgeState, SaveState, Goto, history
<1>2. ASSUME NEW p \in Confs, ConfStep(p) PROVE RolesApart'
  BY <1>2 DEF ConfStep, LockConf, LoadConf, SetMode, Goto, history
<1>3. ASSUME NEW p \in Procs, Die(p) PROVE RolesApart'
  BY <1>3 DEF Die
<1>4. CASE Tick \/ UNCHANGED vars
  BY <1>4 DEF Tick, vars, history
<1>. QED
  BY <1>1, <1>2, <1>3, <1>4 DEF Next

LEMMA TenureIsShort == \A p : TenureLeft(p) \in 0 .. 7
BY DEF TenureLeft

LEMMA TenureIsUsedUp ==
  ASSUME HostInv, RolesApart, HostNext,
         NEW p \in Procs, owner = p, owner' = p
  PROVE  /\ TenureLeft(p)' <= TenureLeft(p)
         /\ KeepsGoing(p) => TenureLeft(p)' < TenureLeft(p)
<1>. USE ManagersAndConfs, ProcessesAreDistinct
<1>1. pc \in [Procs -> {"off", "loaded", "locked", "testing", "selecting", "saving",
                        "conf", "setting"}]
  BY DEF HostInv, TypeOK
<1>2. PastLock(p) /\ chosen \in [Managers -> Lists \cup {NoList}]
        /\ wrote \in [Managers -> Duties]
  BY DEF HostInv, TypeOK, DnetTypes
<1>3. ASSUME p \in Managers, RunStep(p) PROVE TenureLeft(p)' < TenureLeft(p)
  <2>1. ~Read(p) /\ ~Turned(p) /\ ~Lock(p)
    BY <1>2
       DEF PastLock, Read, LoadState, Turned, GiveUp, LockRefused, Lock, LockRun, Goto
  <2>2. ~Save(p)
    BY DEF Save, SaveState, LeaveLock
  <2>3. CASE Choose(p)
    BY <1>1, <1>2, <1>3, <2>3, NoListIsNone DEF Choose, vars, TenureLeft, Begun
  <2>4. CASE WriteSome(p) \/ WriteAll(p)
    <3>1. pc'[p] = pc[p] /\ pc[p] = "selecting" /\ Begun(p) /\ chosen'[p] = chosen[p]
      BY <2>4 DEF WriteSome, WriteAll, vars
    <3>2. \/ wrote[p] = "none" /\ wrote'[p] = "some"
          \/ wrote[p] \in {"none", "some"} /\ wrote'[p] = "all"
      BY <1>2, <1>3, <2>4 DEF WriteSome, WriteAll, Duties
    <3>. QED
      BY <3>1, <3>2 DEF TenureLeft, Begun
  <2>5. CASE Mark(p)
    BY <1>1, <2>5 DEF Mark, SetEdgeState, Goto, dnet, TenureLeft, Begun
  <2>6. CASE LoadStore(p) \/ AddValue(p)
    BY <1>1, <2>6 DEF LoadStore, AddValue, Goto, TenureLeft, Begun
  <2>. QED
    BY <1>3, <2>1, <2>2, <2>3, <2>4, <2>5, <2>6 DEF RunStep
<1>4. ASSUME p \in Confs, ConfStep(p) PROVE TenureLeft(p)' < TenureLeft(p)
  <2>1. ~LockConf(p) /\ \A mode \in Modes : ~SetMode(p, mode)
    BY <1>2 DEF PastLock, LockConf, SetMode, Goto, LeaveLock
  <2>. QED
    BY <1>1, <1>4, <2>1 DEF ConfStep, LoadConf, Goto, TenureLeft
<1>5. ~Kill(p)
  BY DEF Kill, Die, LeaveLock
<1>6. ASSUME NEW q \in Procs, q # p, Kill(q) \/ (q \in Managers /\ RunStep(q))
             \/ (q \in Confs /\ ConfStep(q) /\ UNCHANGED dnet)
      PROVE  TenureLeft(p)' = TenureLeft(p)
  <2>1. /\ pc'[p] = pc[p]
        /\ p \in Managers => chosen'[p] = chosen[p] /\ wrote'[p] = wrote[p]
    <3>1. CASE Kill(q)
      BY <1>1, <1>2, <1>6, <3>1 DEF Kill, Die, Forget, dnet
    <3>2. CASE q \in Managers /\ RunStep(q)
      BY <1>1, <1>2, <1>6, <3>2
         DEF RunStep, Read, LoadState, Turned, GiveUp, LockRefused, Lock, LockRun, Choose,
             WriteSome, WriteAll, Mark, SetEdgeState, Save, SaveState, LoadStore, AddValue, Goto, Forget,
             dnet, vars
    <3>3. CASE q \in Confs /\ ConfStep(q) /\ UNCHANGED dnet
      BY <1>1, <1>6, <3>3 DEF ConfStep, LockConf, LoadConf, SetMode, Goto, dnet
    <3>. QED
      BY <1>6, <3>1, <3>2, <3>3
  <2>2. pc[p] = "selecting" => p \in Managers
    BY DEF RolesApart, Procs
  <2>. QED
    BY <2>1, <2>2 DEF TenureLeft, Begun
<1>7. ASSUME Tick, UNCHANGED dnet PROVE TenureLeft(p)' = TenureLeft(p)
  BY <1>7 DEF Tick, dnet, TenureLeft, Begun
<1>8. TenureLeft(p) \in Nat
  BY TenureIsShort
<1>9. p \in Managers <=> p \notin Confs
  BY DEF Procs
<1>10. KeepsGoing(p) => TenureLeft(p)' < TenureLeft(p)
  BY <1>3, <1>4, <1>9 DEF KeepsGoing
<1>11. CASE \E q \in Procs : Kill(q) \/ (q \in Managers /\ RunStep(q))
             \/ (q \in Confs /\ ConfStep(q) /\ UNCHANGED dnet)
  <2>1. PICK q \in Procs : Kill(q) \/ (q \in Managers /\ RunStep(q))
             \/ (q \in Confs /\ ConfStep(q) /\ UNCHANGED dnet)
    BY <1>11
  <2>2. CASE q = p
    BY <1>3, <1>4, <1>5, <1>8, <1>10, <2>1, <2>2 DEF TenureLeft
  <2>3. CASE q # p
    BY <1>6, <1>8, <1>10, <2>1, <2>3
  <2>. QED
    BY <2>2, <2>3
<1>12. CASE Tick /\ UNCHANGED dnet
  BY <1>7, <1>8, <1>10, <1>12
<1>. QED
  BY <1>11, <1>12 DEF HostNext

(* Whoever holds the lock has, short of the model's bound on fetch values, *)
(* a step of its own to take, out of at most seven that no other process can *)
(* add to: all of LockIsReleased but the fairness of the scheduler.        *)
THEOREM LockCannotBeKept ==
  ASSUME Lists # {}
  PROVE  HostSpec =>
           /\ [](\A p \in Procs : owner = p => TenureLeft(p) \in 0 .. 7)
           /\ [](\A p \in Procs : owner = p =>
                   CanGoOn(p) \/ (pc[p] = "testing" /\ values = MaxValues))
           /\ [][\A p \in Procs : owner = p /\ owner' = p =>
                   /\ TenureLeft(p)' <= TenureLeft(p)
                   /\ KeepsGoing(p) => TenureLeft(p)' < TenureLeft(p)]_hostVars
<1>1. HostInit => RolesApart
  BY ManagersAndConfs DEF HostInit, Init, RolesApart
<1>2. IInv /\ RolesApart /\ [Next]_vars => RolesApart'
  BY RolesApartStep DEF IInv
<1>3. \A p \in Procs : owner = p => TenureLeft(p) \in 0 .. 7
  BY TenureIsShort
<1>4. IInv /\ RolesApart => \A p \in Procs : owner = p =>
        CanGoOn(p) \/ (pc[p] = "testing" /\ values = MaxValues)
  <2>. SUFFICES ASSUME IInv, RolesApart, NEW p \in Procs, owner = p
                PROVE  CanGoOn(p) \/ (pc[p] = "testing" /\ values = MaxValues)
    OBVIOUS
  <2>1. PastLock(p) /\ values \in Nat /\ MaxValues \in Nat /\ values <= MaxValues
    BY ManagersAndConfs, BoundsAreNumbers DEF IInv, TypeOK
  <2>2. p \in Managers \/ p \in Confs
    BY DEF Procs
  <2>. QED
    BY <2>1, <2>2 DEF IInv, TypeOK, RolesApart, PastLock, CanGoOn, ZonesDone
<1>5. HostInv /\ RolesApart /\ [HostNext]_hostVars
      => [\A p \in Procs : owner = p /\ owner' = p =>
            /\ TenureLeft(p)' <= TenureLeft(p)
            /\ KeepsGoing(p) => TenureLeft(p)' < TenureLeft(p)]_hostVars
  BY TenureIsUsedUp
<1>6. HostSpec => []IInv /\ []HostInv
  BY HostImplementsRunLock, IInvHolds, HostInvHolds, PTL
<1>. QED
  BY <1>1, <1>2, <1>3, <1>4, <1>5, <1>6, HostStepIsLockStep, PTL DEF HostSpec
=============================================================================
