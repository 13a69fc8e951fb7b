------------------------------ MODULE RunLock -------------------------------
(***************************************************************************)
(* The processes of one host: runs of edge_manage, started by cron or by   *)
(* hand, and edge_conf.  They share the lock file, one edgestore and one   *)
(* state file.  A process reads a whole file into memory and later writes  *)
(* the whole file back, so what others wrote in between matters.           *)
(*                                                                         *)
(* A definition whose comment starts with "Mutant" is no part of the       *)
(* specification: it is the definition that follows it, with a slip.       *)
(***************************************************************************)
EXTENDS Integers, FiniteSets

CONSTANTS
  Managers,  \* edge_manage processes
  Confs,     \* edge_conf processes
  Modes,     \* the modes an operator may ask for
  NoOne,     \* the lock is free
  Gap,       \* the 30 seconds between runs, in ticks
  MaxTime,   \* bound on the clock
  MaxValues  \* bound on the values one edgestore collects

Procs == Managers \cup Confs

ASSUME ProcessesAreDistinct == Managers \cap Confs = {} /\ NoOne \notin Procs
ASSUME BoundsAreNumbers ==
  Gap \in Nat /\ MaxTime \in Nat /\ MaxValues \in Nat /\ Modes # {}

VARIABLES
  pc,
  owner,     \* the process that holds the fcntl lock on the lock file
  edgeStore, \* the edgestore file: the mode, and how many fetch values
  statefile, \* the state file: when the last run ended
  store,     \* each process's EdgeState object
  state,     \* each process's StateFile object
  asked,     \* the mode the operator last set
  daemons,   \* managers that run as daemons
  values,    \* how many fetch values runs have added
  now

vars == <<pc, owner, edgeStore, statefile, store, state, asked, values, daemons, now>>
files == <<edgeStore, statefile>>
history == <<asked, values, daemons>>

Never == -1
EdgeStores == [mode : Modes, values : 0 .. MaxValues]

Init ==
  /\ pc = [p \in Procs |-> "off"]
  /\ owner = NoOne
  /\ edgeStore \in [mode : Modes, values : {0}]
  /\ statefile = Never
  /\ store = [p \in Procs |-> edgeStore]
  /\ state = [p \in Procs |-> Never]
  /\ asked = edgeStore.mode /\ values = 0
  /\ daemons = {}
  /\ now = 0

Goto(p, from, to) == pc[p] = from /\ pc' = [pc EXCEPT ![p] = to]

(* Mutant: the result of lockf is not looked at. *)
LockIgnored(p) == owner' = p
(* acquire_lock: lockf(LOCK_EX | LOCK_NB) succeeds or fails at once.       *)
TakeLock(p) == owner = NoOne /\ owner' = p
(* Mutant: the lock outlives the process. *)
LockKept(p) == owner' = owner
(* The file is closed, or the kernel closes it.                            *)
LeaveLock(p) == owner' = IF owner = p THEN NoOne ELSE owner

-----------------------------------------------------------------------------
(* edge_manage. *)

(* The state file is loaded before the lock is taken.                      *)
LoadState(p) ==
  /\ Goto(p, "off", "loaded")
  /\ state' = [state EXCEPT ![p] = statefile]
  /\ UNCHANGED <<owner, files, store, history, now>>

(* "Can't run - last run was ...": --force waives the check.               *)
TooSoon(p) == state[p] # Never /\ state[p] + Gap > now
GiveUp(p) ==
  /\ TooSoon(p)
  /\ Goto(p, "loaded", "off")
  /\ UNCHANGED <<owner, files, store, state, history, now>>

LockRun(p) ==
  /\ Goto(p, "loaded", "locked")
  /\ TakeLock(p)
  /\ UNCHANGED <<files, store, state, history, now>>

(* "Couldn't acquire lock file": the process dies of an exception.         *)
LockRefused(p) ==
  /\ owner # NoOne
  /\ Goto(p, "loaded", "off")
  /\ UNCHANGED <<owner, files, store, state, history, now>>

(* Mutant: the edgestore is not read again under the lock. *)
LoadStoreEarly(p) ==
  /\ Goto(p, "locked", "testing")
  /\ UNCHANGED <<owner, files, store, state, history, now>>
(* main: the edgestores are loaded, a fetch value is added and dumped, and *)
(* the run's verdict is dumped from the same object later.                 *)
LoadStore(p) ==
  /\ Goto(p, "locked", "testing")
  /\ store' = [store EXCEPT ![p] = edgeStore]
  /\ UNCHANGED <<owner, files, state, history, now>>

AddValue(p) ==
  /\ values < MaxValues
  /\ Goto(p, "testing", "selecting")
  /\ store' = [store EXCEPT ![p].values = @ + 1]
  /\ edgeStore' = store'[p]
  /\ values' = values + 1
  /\ UNCHANGED <<owner, statefile, state, asked, daemons, now>>

(* Mutant: the lock file is closed before the state is saved. *)
UnlockBeforeSave(p) ==
  /\ Goto(p, "selecting", "saving")
  /\ edgeStore' = store[p]
  /\ LeaveLock(p)
  /\ UNCHANGED <<statefile, store, state, history, now>>
SetEdgeState(p) ==
  /\ Goto(p, "selecting", "saving")
  /\ edgeStore' = store[p]
  /\ UNCHANGED <<owner, statefile, store, state, history, now>>

SaveState(p) ==
  /\ p \notin daemons
  /\ Goto(p, "saving", "off")
  /\ statefile' = now
  /\ state' = [state EXCEPT ![p] = now]
  /\ LeaveLock(p)
  /\ UNCHANGED <<edgeStore, store, history, now>>

-----------------------------------------------------------------------------
(* edge_conf: the lock comes first, then the edgestore is loaded, changed  *)
(* and dumped.                                                             *)

LockConf(p) ==
  /\ Goto(p, "off", "conf")
  /\ TakeLock(p)
  /\ UNCHANGED <<files, store, state, history, now>>

LoadConf(p) ==
  /\ Goto(p, "conf", "setting")
  /\ store' = [store EXCEPT ![p] = edgeStore]
  /\ UNCHANGED <<owner, files, state, history, now>>

SetMode(p, mode) ==
  /\ Goto(p, "setting", "off")
  /\ edgeStore' = [store[p] EXCEPT !.mode = mode]
  /\ asked' = mode
  /\ LeaveLock(p)
  /\ UNCHANGED <<statefile, store, state, values, daemons, now>>

-----------------------------------------------------------------------------
(* A process is killed: the kernel drops its lock.                         *)
Die(p) ==
  /\ pc[p] # "off"
  /\ pc' = [pc EXCEPT ![p] = "off"]
  /\ LeaveLock(p)
  /\ daemons' = daemons \ {p}
  /\ UNCHANGED <<files, store, state, asked, values, now>>

Tick ==
  /\ now < MaxTime
  /\ now' = now + 1
  /\ UNCHANGED <<pc, owner, files, store, state, history>>

ManagerStep(p) ==
  \/ LoadState(p) \/ GiveUp(p) \/ LockRun(p) \/ LockRefused(p)
  \/ LoadStore(p) \/ AddValue(p) \/ SetEdgeState(p) \/ SaveState(p)

ConfStep(p) ==
  \/ LockConf(p) \/ LoadConf(p) \/ \E mode \in Modes : SetMode(p, mode)

Next ==
  \/ \E p \in Managers : ManagerStep(p)
  \/ \E p \in Confs : ConfStep(p)
  \/ \E p \in Procs : Die(p)
  \/ Tick

Spec == Init /\ [][Next]_vars

(* A daemon locks and then forks twice.  An fcntl lock belongs to the      *)
(* process that took it: the parents exit, and the daemon, which keeps the *)
(* name p here, runs without it.                                           *)
Daemonise(p) ==
  /\ pc[p] = "locked" /\ p \notin daemons
  /\ daemons' = daemons \cup {p}
  /\ LeaveLock(p)
  /\ UNCHANGED <<pc, files, store, state, asked, values, now>>

(* It calls main again and again, and never saves the state file.          *)
RunAgain(p) ==
  /\ p \in daemons
  /\ Goto(p, "saving", "locked")
  /\ UNCHANGED <<owner, files, store, state, history, now>>

DaemonNext == Next \/ \E p \in Managers : Daemonise(p) \/ RunAgain(p)
DaemonSpec == Init /\ [][DaemonNext]_vars

-----------------------------------------------------------------------------
PastLock(p) == pc[p] \notin {"off", "loaded"}

(* The type of every variable.  The lock is held by a process that is past *)
(* it: neither an exit nor a kill leaves it behind.                        *)
TypeOK ==
  /\ pc \in [Procs -> {"off", "loaded", "locked", "testing", "selecting", "saving",
                       "conf", "setting"}]
  /\ owner \in Procs \cup {NoOne}
  /\ owner # NoOne => PastLock(owner)
  /\ edgeStore \in EdgeStores /\ store \in [Procs -> EdgeStores]
  /\ statefile \in 0 .. MaxTime \cup {Never}
  /\ state \in [Procs -> 0 .. MaxTime \cup {Never}]
  /\ asked \in Modes /\ values \in 0 .. MaxValues
  /\ daemons \in SUBSET Managers
  /\ now \in 0 .. MaxTime

(* conf/edgemanage.yaml: the lock file prevents concurrent execution.  Two *)
(* processes that test edges or change modes never run at the same time.   *)
NoConcurrentExecution ==
  \A p, q \in Procs : PastLock(p) /\ PastLock(q) => p = q

(* A mode an operator has set stays set: no run writes back an edgestore   *)
(* it read before the change.                                              *)
ModeChangesSurvive == edgeStore.mode = asked

(* No fetch value a run has added is lost to a stale copy of the edgestore. *)
NoValueLost == edgeStore.values = values
=============================================================================
