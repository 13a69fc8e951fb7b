---------------------------- MODULE DnetPromise -----------------------------
(***************************************************************************)
(* What edge_manage promises of a dnet, however its runs judge, select,    *)
(* rotate, skip and crash: a run settles on its edges in one step, out of  *)
(* those that serve already and those fit to serve; only what it settled   *)
(* on reaches the zones; and the edges on record are the ones the last     *)
(* completed run settled on.  EdgeManage implements this specification.    *)
(***************************************************************************)
CONSTANTS
  Edges, Zones, Canaries,
  Unresolvable, \* hosts whose name may fail to resolve
  None          \* no canary, no edges settled on

VARIABLES
  serving, \* the edges on record (last_live of the state file)
  fit,     \* the edges this run may bring into service
  full,    \* the lists of edges that are as long as configured
  standIn, \* the canary each zone may be given in this run
  chosen,  \* the edges this run has settled on, or None
  dns      \* the hosts each zone file names

promised == <<serving, fit, full, standIn, chosen, dns>>

Init ==
  /\ serving = {} /\ fit = {} /\ full = {} /\ chosen = None
  /\ standIn = [z \in Zones |-> None]
  /\ dns = [z \in Zones |-> {}]

(* A run learns what it has to work with, and perhaps dies before it has   *)
(* chosen.                                                                 *)
Judge ==
  /\ chosen = None /\ chosen' = None
  /\ fit' \in SUBSET Edges
  /\ full' \in SUBSET SUBSET Edges
  /\ standIn' \in [Zones -> Canaries \cup {None}]
  /\ UNCHANGED <<serving, dns>>

(* Nobody enters service unfit, and a dnet that serves goes on serving.    *)
Choose ==
  /\ chosen = None
  /\ chosen' \in SUBSET (serving \cup fit)
  /\ serving # {} => chosen' # {}
  /\ UNCHANGED <<serving, fit, full, standIn, dns>>

(* The host lists of a zone: the chosen edges, or all but one of them and  *)
(* the zone's canary.                                                      *)
HostLists(z) ==
  IF standIn[z] = None THEN {chosen}
  ELSE {(chosen \ {removed}) \cup {standIn[z]} : removed \in chosen}

(* Only a full list is published, whole but for names that do not resolve. *)
Publish(z) ==
  /\ chosen # None /\ chosen \in full
  /\ \E hosts \in HostLists(z) : \E dropped \in SUBSET (hosts \cap Unresolvable) :
        dns' = [dns EXCEPT ![z] = hosts \ dropped]
  /\ UNCHANGED <<serving, fit, full, standIn, chosen>>

Over == fit' = {} /\ full' = {} /\ standIn' = [z \in Zones |-> None] /\ chosen' = None

Commit ==
  /\ chosen # None
  /\ serving' = chosen
  /\ Over
  /\ UNCHANGED dns

(* A dry run, or a run that dies, perhaps over a zone it was writing.      *)
Abandon ==
  /\ chosen # None
  /\ Over
  /\ \/ UNCHANGED dns
     \/ chosen \in full /\ \E z \in Zones : dns' = [dns EXCEPT ![z] = {}]
  /\ UNCHANGED serving

Next == Judge \/ Choose \/ (\E z \in Zones : Publish(z)) \/ Commit \/ Abandon

Spec == Init /\ [][Next]_promised
=============================================================================
