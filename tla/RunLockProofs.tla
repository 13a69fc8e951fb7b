--------------------------- MODULE RunLockProofs ----------------------------
(***************************************************************************)
(* The lock and what it protects, for every number of processes, every gap *)
(* between runs and every bound on the clock and on the values.            *)
(***************************************************************************)
EXTENDS RunLock, TLAPS

(* A process that is past the lock owns it.                                *)
LockHeld == \A p \in Procs : PastLock(p) => owner = p

(* The edgestore on disk holds what was asked for and what was added, and  *)
(* so does the copy of a process between its load and its last write.      *)
Loaded == {"testing", "selecting", "saving", "setting"}
NothingLost ==
  /\ edgeStore.mode = asked /\ edgeStore.values = values
  /\ \A p \in Procs : pc[p] \in Loaded => store[p] = edgeStore

LEMMA ManagersAndConfs ==
  /\ Managers \subseteq Procs /\ Confs \subseteq Procs /\ NoOne \notin Procs
BY ProcessesAreDistinct DEF Procs

(* TypeOK alone is not inductive: that an edgestore's values stay within   *)
(* the bound takes a copy that is as new as the file.                      *)
IInv == TypeOK /\ LockHeld /\ NothingLost

LEMMA TypeInit == Init => TypeOK
<1>. SUFFICES ASSUME Init PROVE TypeOK
  OBVIOUS
<1>1. edgeStore \in EdgeStores
  BY BoundsAreNumbers DEF Init, EdgeStores
<1>2. 0 \in 0 .. MaxTime /\ 0 \in 0 .. MaxValues
  BY BoundsAreNumbers
<1>3. asked \in Modes
  BY DEF Init
<1>4. /\ pc \in [Procs -> {"off", "loaded", "locked", "testing", "selecting", "saving",
                           "conf", "setting"}]
      /\ store \in [Procs -> EdgeStores]
      /\ state \in [Procs -> 0 .. MaxTime \cup {Never}]
  BY <1>1 DEF Init
<1>. QED
  BY <1>1, <1>2, <1>3, <1>4 DEF Init, TypeOK

LEMMA TypeStep ==
  ASSUME TypeOK, NothingLost, [Next]_vars
  PROVE  TypeOK'
<1>. USE ManagersAndConfs
<1>1. ASSUME NEW p \in Managers, LoadState(p) PROVE TypeOK'
  BY <1>1 DEF LoadState, Goto, TypeOK, PastLock, files, history
<1>2. ASSUME NEW p \in Managers, GiveUp(p) \/ LockRefused(p) PROVE TypeOK'
  BY <1>2 DEF GiveUp, LockRefused, Goto, TypeOK, PastLock, files, history
<1>3. ASSUME NEW p \in Managers, LockRun(p) PROVE TypeOK'
  BY <1>3 DEF LockRun, TakeLock, Goto, TypeOK, PastLock, files, history
<1>4. ASSUME NEW p \in Managers, LoadStore(p) PROVE TypeOK'
  BY <1>4 DEF LoadStore, Goto, TypeOK, PastLock, files, history
<1>5. ASSUME NEW p \in Managers, AddValue(p) PROVE TypeOK'
  <2>1. values + 1 \in 0 .. MaxValues
    BY <1>5, BoundsAreNumbers DEF AddValue, TypeOK
  <2>2. p \in Procs /\ store[p] = edgeStore /\ store[p] \in EdgeStores
    BY <1>5 DEF AddValue, Goto, NothingLost, Loaded, TypeOK
  <2>3. store[p].values + 1 \in 0 .. MaxValues
    BY <2>1, <2>2 DEF NothingLost
  <2>4. store' = [store EXCEPT ![p].values = @ + 1]
    BY <1>5 DEF AddValue
  <2>5. [store[p] EXCEPT !.values = @ + 1] \in EdgeStores
    BY <2>2, <2>3 DEF EdgeStores
  <2>6. store' \in [Procs -> EdgeStores]
    BY <2>2, <2>4, <2>5 DEF TypeOK
  <2>7. edgeStore' \in EdgeStores
    BY <1>5, <2>2, <2>6 DEF AddValue
  <2>. QED
    BY <1>5, <2>1, <2>6, <2>7 DEF AddValue, Goto, TypeOK, PastLock
<1>6. ASSUME NEW p \in Managers, SetEdgeState(p) PROVE TypeOK'
  BY <1>6 DEF SetEdgeState, Goto, TypeOK, PastLock, history
<1>7. ASSUME NEW p \in Managers, SaveState(p) PROVE TypeOK'
  BY <1>7 DEF SaveState, LeaveLock, Goto, TypeOK, PastLock, history
<1>8. ASSUME NEW p \in Confs, LockConf(p) PROVE TypeOK'
  BY <1>8 DEF LockConf, TakeLock, Goto, TypeOK, PastLock, files, history
<1>9. ASSUME NEW p \in Confs, LoadConf(p) PROVE TypeOK'
  BY <1>9 DEF LoadConf, Goto, TypeOK, PastLock, files, history
<1>10. ASSUME NEW p \in Confs, NEW mode \in Modes, SetMode(p, mode) PROVE TypeOK'
  BY <1>10 DEF SetMode, LeaveLock, Goto, TypeOK, EdgeStores, PastLock
<1>11. ASSUME NEW p \in Procs, Die(p) PROVE TypeOK'
  BY <1>11 DEF Die, LeaveLock, TypeOK, PastLock, files
<1>12. CASE Tick
  <2>1. now' \in 0 .. MaxTime
    BY <1>12, BoundsAreNumbers DEF Tick, TypeOK
  <2>. QED
    BY <1>12, <2>1 DEF Tick, TypeOK, PastLock, files, history
<1>13. CASE UNCHANGED vars
  BY <1>13 DEF vars, TypeOK, PastLock, files, history
<1>. QED
  BY <1>1, <1>2, <1>3, <1>4, <1>5, <1>6, <1>7, <1>8, <1>9, <1>10, <1>11, <1>12, <1>13
     DEF Next, ManagerStep, ConfStep

-----------------------------------------------------------------------------
(* Mutual exclusion.  Whoever takes the lock finds it free, so that nobody *)
(* is past it; whoever leaves it is off at that very step.                 *)
LEMMA LockHeldStep ==
  ASSUME TypeOK, LockHeld, [Next]_vars
  PROVE  LockHeld'
<1>. USE ManagersAndConfs
<1>1. ASSUME NEW p \in Managers, LoadState(p) \/ GiveUp(p) \/ LockRefused(p)
      PROVE  LockHeld'
  BY <1>1 DEF LoadState, GiveUp, LockRefused, Goto, LockHeld, PastLock, TypeOK
<1>2. ASSUME NEW p \in Procs, owner = NoOne, owner' = p,
             \A q \in Procs \ {p} : pc'[q] = pc[q]
      PROVE  LockHeld'
  BY <1>2 DEF LockHeld, PastLock
<1>3. ASSUME NEW p \in Managers, LockRun(p) PROVE LockHeld'
  BY <1>2, <1>3 DEF LockRun, TakeLock, Goto, TypeOK
<1>4. ASSUME NEW p \in Managers, LoadStore(p) \/ AddValue(p) \/ SetEdgeState(p)
      PROVE  LockHeld'
  BY <1>4 DEF LoadStore, AddValue, SetEdgeState, Goto, LockHeld, PastLock, TypeOK
<1>5. ASSUME NEW p \in Managers, SaveState(p) PROVE LockHeld'
  BY <1>5 DEF SaveState, LeaveLock, Goto, LockHeld, PastLock, TypeOK
<1>6. ASSUME NEW p \in Confs, LockConf(p) PROVE LockHeld'
  BY <1>2, <1>6 DEF LockConf, TakeLock, Goto, TypeOK
<1>7. ASSUME NEW p \in Confs, LoadConf(p) PROVE LockHeld'
  BY <1>7 DEF LoadConf, Goto, LockHeld, PastLock, TypeOK
<1>8. ASSUME NEW p \in Confs, NEW mode \in Modes, SetMode(p, mode) PROVE LockHeld'
  BY <1>8 DEF SetMode, LeaveLock, Goto, LockHeld, PastLock, TypeOK
<1>9. ASSUME NEW p \in Procs, Die(p) PROVE LockHeld'
  BY <1>9 DEF Die, LeaveLock, LockHeld, PastLock, TypeOK
<1>10. CASE Tick \/ UNCHANGED vars
  BY <1>10 DEF Tick, vars, LockHeld, PastLock
<1>. QED
  BY <1>1, <1>3, <1>4, <1>5, <1>6, <1>7, <1>8, <1>9, <1>10
     DEF Next, ManagerStep, ConfStep

-----------------------------------------------------------------------------
(* The read and the write of an edgestore happen under one tenure of the   *)
(* lock: while one process has a copy, no other writes the file.           *)
LEMMA NothingLostStep ==
  ASSUME TypeOK, LockHeld, NothingLost, [Next]_vars
  PROVE  NothingLost'
<1>. USE ManagersAndConfs
<1>1. ASSUME NEW p \in Procs, pc[p] \in Loaded,
             NEW q \in Procs, pc[q] \in Loaded
      PROVE  p = q
  BY <1>1 DEF LockHeld, PastLock, Loaded
<1>2. ASSUME NEW p \in Procs, pc' = [pc EXCEPT ![p] = pc'[p]], pc'[p] \notin Loaded,
             UNCHANGED <<edgeStore, store, asked, values>>
      PROVE  NothingLost'
  BY <1>2 DEF NothingLost, TypeOK
<1>3. ASSUME NEW p \in Managers, \/ LoadState(p) \/ GiveUp(p) \/ LockRun(p)
                                 \/ LockRefused(p) \/ SaveState(p)
      PROVE  NothingLost'
  BY <1>2, <1>3 DEF LoadState, GiveUp, LockRun, LockRefused, SaveState, Goto, Loaded,
     files, history, TypeOK
<1>4. ASSUME NEW p \in Procs, NEW to, Goto(p, pc[p], to),
             store' = [store EXCEPT ![p] = edgeStore], UNCHANGED <<edgeStore, asked, values>>
      PROVE  NothingLost'
  BY <1>4 DEF Goto, NothingLost, TypeOK
<1>5. ASSUME NEW p \in Managers, LoadStore(p) PROVE NothingLost'
  BY <1>4, <1>5 DEF LoadStore, Goto, files, history
<1>6. ASSUME NEW p \in Managers, AddValue(p) PROVE NothingLost'
  <2>1. pc[p] \in Loaded /\ store[p] = edgeStore
    BY <1>6 DEF AddValue, Goto, Loaded, NothingLost
  <2>2. \A q \in Procs \ {p} : pc'[q] = pc[q] /\ pc[q] \notin Loaded
    BY <1>1, <1>6, <2>1 DEF AddValue, Goto, TypeOK
  <2>3. store'[p] = [edgeStore EXCEPT !.values = @ + 1]
    BY <1>6, <2>1 DEF AddValue, TypeOK
  <2>4. edgeStore'.mode = asked /\ edgeStore'.values = values + 1
    BY <1>6, <2>3 DEF AddValue, NothingLost, TypeOK, EdgeStores
  <2>. QED
    BY <1>6, <2>2, <2>4 DEF AddValue, NothingLost
<1>7. ASSUME NEW p \in Managers, SetEdgeState(p) PROVE NothingLost'
  <2>1. pc[p] \in Loaded /\ store[p] = edgeStore
    BY <1>7 DEF SetEdgeState, Goto, Loaded, NothingLost
  <2>. QED
    BY <1>7, <2>1 DEF SetEdgeState, Goto, history, NothingLost, TypeOK
<1>8. ASSUME NEW p \in Confs, LockConf(p) PROVE NothingLost'
  BY <1>2, <1>8 DEF LockConf, Goto, Loaded, files, history, TypeOK
<1>9. ASSUME NEW p \in Confs, LoadConf(p) PROVE NothingLost'
  BY <1>4, <1>9 DEF LoadConf, Goto, files, history
<1>10. ASSUME NEW p \in Confs, NEW mode \in Modes, SetMode(p, mode) PROVE NothingLost'
  <2>1. pc[p] \in Loaded /\ store[p] = edgeStore
    BY <1>10 DEF SetMode, Goto, Loaded, NothingLost
  <2>2. \A q \in Procs : pc'[q] \notin Loaded
    BY <1>1, <1>10, <2>1 DEF SetMode, Goto, TypeOK, Loaded
  <2>3. edgeStore'.mode = mode /\ edgeStore'.values = values
    BY <1>10, <2>1 DEF SetMode, NothingLost, TypeOK, EdgeStores
  <2>. QED
    BY <1>10, <2>2, <2>3 DEF SetMode, NothingLost
<1>11. ASSUME NEW p \in Procs, Die(p) PROVE NothingLost'
  BY <1>2, <1>11 DEF Die, Loaded, files, TypeOK
<1>12. CASE Tick \/ UNCHANGED vars
  BY <1>12 DEF Tick, vars, files, history, NothingLost
<1>. QED
  BY <1>3, <1>5, <1>6, <1>7, <1>8, <1>9, <1>10, <1>11, <1>12
     DEF Next, ManagerStep, ConfStep

LEMMA IInvHolds == Spec => []IInv
<1>1. Init => IInv
  BY TypeInit DEF Init, IInv, LockHeld, PastLock, NothingLost, Loaded, EdgeStores
<1>2. IInv /\ [Next]_vars => IInv'
  BY TypeStep, LockHeldStep, NothingLostStep DEF IInv
<1>. QED
  BY <1>1, <1>2, PTL DEF Spec

(* The files and the memory of every process keep their types, and no      *)
(* process leaves the lock behind (TypeOK).                                *)
THEOREM TypeCorrect == Spec => []TypeOK
BY IInvHolds, PTL DEF IInv

(* Whatever number of runs and of edge_conf processes start and die, two   *)
(* are never past the lock at the same time (NoConcurrentExecution).       *)
THEOREM LockExcludes == Spec => []NoConcurrentExecution
<1>1. IInv => NoConcurrentExecution
  BY DEF IInv, LockHeld, NoConcurrentExecution
<1>. QED
  BY <1>1, IInvHolds, PTL

(* No run writes back a mode that edge_conf has changed since the run read *)
(* it (ModeChangesSurvive).                                                *)
THEOREM ModesSurvive == Spec => []ModeChangesSurvive
<1>1. IInv => ModeChangesSurvive
  BY DEF IInv, NothingLost, ModeChangesSurvive
<1>. QED
  BY <1>1, IInvHolds, PTL

(* No edge_conf and no run writes back an edgestore that lacks a fetch     *)
(* value added since it was read (NoValueLost).                            *)
THEOREM ValuesSurvive == Spec => []NoValueLost
<1>1. IInv => NoValueLost
  BY DEF IInv, NothingLost, NoValueLost
<1>. QED
  BY <1>1, IInvHolds, PTL
=============================================================================
