------------------------------ MODULE DnetHost ------------------------------
(***************************************************************************)
(* The runs of one dnet as its host interleaves them: RunLock, composed    *)
(* with the live list that runs record in the state file and serve in the  *)
(* zone files.  A run knows the recorded list from before it has the lock. *)
(* Whether it writes all zones, some or none is decided beside the list:   *)
(* what a list holds and how it is chosen is the subject of EdgeManage.    *)
(*                                                                         *)
(* A definition whose comment starts with "Mutant" is no part of the       *)
(* specification: it is the definition that follows it, with a slip.       *)
(***************************************************************************)
EXTENDS RunLock

CONSTANTS
  Lists,  \* live lists
  NoList  \* no live list yet

ASSUME NoListIsNone == NoList \notin Lists

VARIABLES
  recorded, \* last_live in the state file
  served,   \* the lists that the zone files serve, all of them the same one or not
  known,    \* each run's last_live
  chosen,   \* the live list each run has chosen, or NoList
  duty,     \* which zones each run has to write
  wrote,    \* which zones each run has written
  parted    \* history: was a run overtaken, killed, or silent about its list?

dnet == <<recorded, served, known, chosen, duty, wrote, parted>>
hostVars == <<vars, dnet>>

(* All zones if the list is reported as changed or the update is forced.   *)
(* Only those with a new template or canary if it is not: the list is the  *)
(* old one, or the last resort has completed it with old edges.  None if   *)
(* the list has not the number of edges required.                          *)
Duties == {"all", "some", "none"}

HostInit ==
  /\ Init
  /\ recorded = NoList /\ served = {NoList}
  /\ known = [p \in Managers |-> NoList] /\ chosen = [p \in Managers |-> NoList]
  /\ duty = [p \in Managers |-> "none"] /\ wrote = [p \in Managers |-> "none"]
  /\ parted = FALSE

Begun(p) == chosen[p] # NoList
Changing(p) == chosen[p] # known[p]

Read(p) ==
  /\ LoadState(p)
  /\ known' = [known EXCEPT ![p] = recorded]
  /\ UNCHANGED <<recorded, served, chosen, duty, wrote, parted>>

(* The state a run has read may be out of date once it has the lock.       *)
Lock(p) ==
  /\ LockRun(p)
  /\ parted' = (parted \/ known[p] # recorded)
  /\ UNCHANGED <<recorded, served, known, chosen, duty, wrote>>

(* make_edges_live: the selection, and whether it reports a change.  A list *)
(* reported as changed may be the old one all the same, and one that is    *)
(* not may be another: the last resort resets edgelist_changed, and main   *)
(* records also a list that was not established.                           *)
Choose(p) ==
  /\ pc[p] = "selecting" /\ ~Begun(p)
  /\ \E list \in Lists : chosen' = [chosen EXCEPT ![p] = list]
  /\ \E d \in Duties : duty' = [duty EXCEPT ![p] = d]
  /\ UNCHANGED <<vars, recorded, served, known, wrote, parted>>

(* The zone files, one after the other: a first one ...                    *)
WriteSome(p) ==
  /\ pc[p] = "selecting" /\ Begun(p) /\ duty[p] # "none" /\ wrote[p] = "none"
  /\ served' = served \cup {chosen[p]}
  /\ wrote' = [wrote EXCEPT ![p] = "some"]
  /\ UNCHANGED <<vars, recorded, known, chosen, duty, parted>>

(* ... and the last one of all.                                            *)
WriteAll(p) ==
  /\ pc[p] = "selecting" /\ Begun(p) /\ duty[p] # "none" /\ wrote[p] # "all"
  /\ served' = {chosen[p]}
  /\ wrote' = [wrote EXCEPT ![p] = "all"]
  /\ UNCHANGED <<vars, recorded, known, chosen, duty, parted>>

ZonesDone(p) == Begun(p) /\ (duty[p] = "all" => wrote[p] = "all")

(* Then the edgestores.                                                    *)
Mark(p) ==
  /\ SetEdgeState(p) /\ ZonesDone(p)
  /\ UNCHANGED dnet

(* The run is over, and what it knew is gone.                              *)
Forget(p) ==
  /\ known' = [known EXCEPT ![p] = NoList]
  /\ chosen' = [chosen EXCEPT ![p] = NoList]
  /\ duty' = [duty EXCEPT ![p] = "none"]
  /\ wrote' = [wrote EXCEPT ![p] = "none"]

Turned(p) ==
  /\ GiveUp(p) \/ LockRefused(p)
  /\ Forget(p)
  /\ UNCHANGED <<recorded, served, parted>>

(* main records what was chosen, whatever make_edges_live has written.     *)
Save(p) ==
  /\ SaveState(p)
  /\ recorded' = chosen[p]
  /\ parted' = (wrote[p] # "all" /\ (parted \/ (duty[p] # "all" /\ Changing(p))))
  /\ Forget(p)
  /\ UNCHANGED served

Kill(p) ==
  /\ Die(p)
  /\ IF p \in Managers
     THEN /\ parted' = (parted \/ (wrote[p] # "none" /\ Changing(p)))
          /\ Forget(p)
          /\ UNCHANGED <<recorded, served>>
     ELSE UNCHANGED dnet

RunStep(p) ==
  \/ Read(p) \/ Turned(p) \/ Lock(p) \/ Choose(p)
  \/ WriteSome(p) \/ WriteAll(p) \/ Mark(p) \/ Save(p)
  \/ (LoadStore(p) \/ AddValue(p)) /\ UNCHANGED dnet

HostNext ==
  \/ \E p \in Managers : RunStep(p)
  \/ \E p \in Confs : ConfStep(p) /\ UNCHANGED dnet
  \/ \E p \in Procs : Kill(p)
  \/ Tick /\ UNCHANGED dnet

(* A run or an edge_conf that has the lock goes on: fetches, lookups and   *)
(* the reaping of hooks all have their timeouts.                           *)
KeepsGoing(p) == IF p \in Managers THEN RunStep(p) ELSE ConfStep(p) /\ UNCHANGED dnet
Progress == \A p \in Procs : WF_hostVars(owner = p /\ KeepsGoing(p))

HostSpec == HostInit /\ [][HostNext]_hostVars /\ Progress

-----------------------------------------------------------------------------
(* The types of the variables this module adds.                            *)
DnetTypes ==
  /\ recorded \in Lists \cup {NoList} /\ served \in SUBSET (Lists \cup {NoList})
  /\ known \in [Managers -> Lists \cup {NoList}]
  /\ chosen \in [Managers -> Lists \cup {NoList}]
  /\ duty \in [Managers -> Duties] /\ wrote \in [Managers -> Duties]
  /\ parted \in BOOLEAN

(* While nobody holds the lock every zone serves the live list on record,  *)
(* although runs read the record before they have the lock and leave zones *)
(* alone on its word.  Three things part them, and nothing else: a run is  *)
(* overtaken by another between reading and locking, is killed between     *)
(* writing and saving, or saves a list that it has not reported as changed *)
(* or not established.  Then the two agree again once a run that wrote all *)
(* zones has saved.                                                        *)
ServedIsRecorded == (owner = NoOne /\ ~parted) => served = {recorded}

(* Whoever takes the lock gives it up, so that no run and no edge_conf     *)
(* shuts the others out forever.  (A run waits, in the model only, once    *)
(* the bound on fetch values is reached.)                                  *)
LockIsReleased == \A p \in Procs : owner = p ~> (owner # p \/ values = MaxValues)
=============================================================================
