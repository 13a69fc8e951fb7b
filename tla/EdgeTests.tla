----------------------------- MODULE EdgeTests ------------------------------
(***************************************************************************)
(* EdgeManage.do_edge_tests: one fetch per host on a thread pool, the main *)
(* thread consuming results as they complete, and the canary killer, which *)
(* cancels what is queued while workers are still fetching.  A worker      *)
(* fetches with OverrideDNS, which swaps the one socket.getaddrinfo of the *)
(* process.                                                                *)
(*                                                                         *)
(* A definition whose comment starts with "Mutant" is no part of the       *)
(* specification: it is the definition that follows it, with a slip.       *)
(***************************************************************************)
EXTENDS Integers, FiniteSets

CONSTANTS
  Edges,        \* hosts of the edge list; numbers, in the order of submission
  Zones,        \* zones with a canary
  CanaryData,   \* the canary file: the host of each; zones may share one
  Unavailable,  \* hosts in mode "unavailable"
  Workers,      \* config["workers"]
  CanaryKiller, \* config["canary_killer"]; 0 turns it off
  System        \* the resolver's own getaddrinfo

CanaryHosts == {CanaryData[z] : z \in Zones}  \* submitted after the edges
Hosts == Edges \cup CanaryHosts
Results == {"fetched", "timeout"}  \* a fetch time, or FETCH_TIMEOUT for any failure

ASSUME HostsAreOrdered ==
  /\ Hosts \subseteq Nat /\ IsFiniteSet(Hosts) /\ System \notin Hosts
  /\ \A e \in Edges, c \in CanaryHosts : e < c
ASSUME CanaryFileIsFinite == IsFiniteSet(Zones)
ASSUME PoolIsAPool == Workers \in Nat \ {0} /\ CanaryKiller \in Nat

VARIABLES
  future,       \* of each host's fetch
  getaddrinfo,  \* whose override resolves names, or System
  saved,        \* orig_getaddrinfo of each override in force
  result,       \* what a fetch has measured
  values,       \* how many values a host's edgestore has been given
  last,         \* its last value
  judgedEdges,  \* decision.edge_states
  judgedCanaries, \* canary_decision.edge_states
  edgesDisabled, \* canary_decision.edges_disabled
  done

vars == <<future, getaddrinfo, saved, result, values, last,
          judgedEdges, judgedCanaries, edgesDisabled, done>>
resolution == <<getaddrinfo, saved>>
stores == <<values, last>>
judgements == <<judgedEdges, judgedCanaries, edgesDisabled>>

Nothing == "nothing"

Init ==
  /\ future = [h \in Hosts |-> "queued"]
  /\ getaddrinfo = System
  /\ saved = [h \in Hosts |-> System]
  /\ result = [h \in Hosts |-> Nothing]
  /\ values = [h \in Hosts |-> 0]
  /\ last = [h \in Hosts |-> Nothing]
  /\ judgedEdges = {} /\ judgedCanaries = {} /\ edgesDisabled = FALSE
  /\ done = FALSE

In(states) == {h \in Hosts : future[h] \in states}
Working == In({"entering", "connecting", "leaving"})

-----------------------------------------------------------------------------
(* A worker: take the first queued fetch, enter the override, connect,     *)
(* leave the override.                                                     *)

TakeUp(h) ==
  /\ future[h] = "queued"
  /\ \A g \in In({"queued"}) : h <= g
  /\ Cardinality(Working) < Workers
  /\ future' = [future EXCEPT ![h] = "entering"]
  /\ UNCHANGED <<resolution, result, stores, judgements, done>>

EnterOverride(h) ==
  /\ future[h] = "entering"
  /\ future' = [future EXCEPT ![h] = "connecting"]
  /\ saved' = [saved EXCEPT ![h] = getaddrinfo]
  /\ getaddrinfo' = h
  /\ UNCHANGED <<result, stores, judgements, done>>

(* Every fetch asks for the one test host, so whichever override is in     *)
(* force answers: the result may be that of another host.                  *)
Connect(h) ==
  /\ future[h] = "connecting"
  /\ future' = [future EXCEPT ![h] = "leaving"]
  /\ result' \in {[result EXCEPT ![h] = r] : r \in Results}
  /\ UNCHANGED <<getaddrinfo, saved, stores, judgements, done>>

LeaveOverride(h) ==
  /\ future[h] = "leaving"
  /\ future' = [future EXCEPT ![h] = "finished"]
  /\ getaddrinfo' = saved[h]
  /\ saved' = [saved EXCEPT ![h] = System]
  /\ UNCHANGED <<result, stores, judgements, done>>

(* An edge's name that does not resolve never gets as far as the override. *)
FailToResolve(h) ==
  /\ h \in Edges /\ future[h] = "entering"
  /\ future' = [future EXCEPT ![h] = "finished"]
  /\ result' = [result EXCEPT ![h] = "timeout"]
  /\ UNCHANGED <<resolution, stores, judgements, done>>

-----------------------------------------------------------------------------
(* Mutant: edges and canaries are not kept apart. *)
Anywhere(h, S) == {h} \ Unavailable
Judgeable(h, S) == {h} \cap (S \ Unavailable)
Added(h) == [last EXCEPT ![h] = result[h]]
CanariesWith(h) == judgedCanaries \cup Judgeable(h, CanaryHosts)

(* Mutant: only the canaries seen before the last one are counted. *)
KillLimitMissed(h) ==
  /\ CanaryKiller # 0 /\ ~edgesDisabled
  /\ Cardinality({c \in judgedCanaries : last[c] = "timeout"}) >= CanaryKiller
KillLimitHit(h) ==
  /\ CanaryKiller # 0 /\ ~edgesDisabled
  /\ Cardinality({c \in CanariesWith(h) : Added(h)[c] = "timeout"}) >= CanaryKiller

(* Mutant: only what is still queued is given up. *)
QueuedOnly(h) == {c \in CanaryHosts : future[c] = "queued"}
(* Mutant: what is being fetched is given up in the place of its result. *)
EveryCanary(h) == CanaryHosts
(* Canaries without an entry in the decision maker: queued, being fetched, *)
(* fetched but not consumed, and unavailable ones.                         *)
Untested(h) == CanaryHosts \ CanariesWith(h)

(* The entries of the canary file that name a host: the killer goes by     *)
(* entries, and gives an untested canary one timeout for each of them.     *)
Entries(c) == Cardinality({z \in Zones : CanaryData[z] = c})

(* The main thread takes one completed future, in no given order, adds its *)
(* value to the edgestore and, unless the host is unavailable, the host to *)
(* its decision maker; then it polls the canary killer.                    *)
TakeResult(h) ==
  /\ future[h] = "finished"
  /\ judgedEdges' = judgedEdges \cup Judgeable(h, Edges)
  /\ UNCHANGED <<resolution, result, done>>

Consume(h) ==
  /\ TakeResult(h)
  /\ ~KillLimitHit(h)
  /\ future' = [future EXCEPT ![h] = "consumed"]
  /\ judgedCanaries' = CanariesWith(h)
  /\ values' = [values EXCEPT ![h] = @ + 1]
  /\ last' = Added(h)
  /\ UNCHANGED edgesDisabled

(* Queued canary tests are cancelled; one that a worker has taken up goes  *)
(* on, and its result is consumed like any other.                          *)
ConsumeAndKill(h) ==
  /\ TakeResult(h)
  /\ KillLimitHit(h)
  /\ edgesDisabled' = TRUE
  /\ future' = [g \in Hosts |->
                  IF g = h THEN "consumed"
                  ELSE IF g \in CanaryHosts /\ future[g] = "queued" THEN "cancelled"
                  ELSE future[g]]
  /\ judgedCanaries' = CanariesWith(h) \cup Untested(h)
  /\ values' = [g \in Hosts |->
                  values[g] + (IF g = h THEN 1 ELSE 0)
                            + (IF g \in Untested(h) THEN Entries(g) ELSE 0)]
  /\ last' = [g \in Hosts |-> IF g \in Untested(h) THEN "timeout" ELSE Added(h)[g]]

(* Mutant: waits for the results of cancelled tests too. *)
ConsumedOnly == In({"consumed"})
(* as_completed yields cancelled futures, which are passed over.           *)
Complete == In({"consumed", "cancelled"})

Finish ==
  /\ ~done /\ Complete = Hosts
  /\ done' = TRUE
  /\ UNCHANGED <<future, resolution, result, stores, judgements>>

Worker(h) ==
  TakeUp(h) \/ EnterOverride(h) \/ Connect(h) \/ LeaveOverride(h) \/ FailToResolve(h)

Next == (\E h \in Hosts : Worker(h) \/ Consume(h) \/ ConsumeAndKill(h)) \/ Finish

(* A fetch ends, at the latest by its timeout, and neither the pool nor    *)
(* the main thread waits for anything else.                                *)
Spec == Init /\ [][Next]_vars /\ WF_vars(Next)

-----------------------------------------------------------------------------
(* check_threshold and get_judgement: what the run makes of a canary.      *)
Verdict(c) ==
  IF c \notin judgedCanaries THEN "missing"
  ELSE IF edgesDisabled \/ last[c] = "timeout" THEN "fail" ELSE "pass"

TypeOK ==
  /\ future \in [Hosts -> {"queued", "entering", "connecting", "leaving", "finished",
                           "consumed", "cancelled"}]
  /\ getaddrinfo \in Hosts \cup {System}
  /\ saved \in [Hosts -> Hosts \cup {System}]
  /\ result \in [Hosts -> Results \cup {Nothing}]
  /\ values \in [Hosts -> 0 .. 1 + Cardinality(Zones)]
  /\ last \in [Hosts -> Results \cup {Nothing}]
  /\ judgedEdges \in SUBSET Edges /\ judgedCanaries \in SUBSET CanaryHosts
  /\ edgesDisabled \in BOOLEAN /\ done \in BOOLEAN

(* Which order the futures complete in does not decide whether the killer  *)
(* strikes: it does exactly if enough available canaries have timed out by *)
(* the end, those counted whose fetch returned after the kill.             *)
TimedOut == {c \in CanaryHosts \ Unavailable : result[c] = "timeout"}
KillIndependentOfOrder ==
  done /\ CanaryKiller # 0 =>
     edgesDisabled = (Cardinality(TimedOut) >= CanaryKiller)

(* A kill takes every canary out of service, also the ones already tested, *)
(* those whose fetch returns well after it and the unavailable ones; and   *)
(* without one no canary that was tested goes unjudged.                    *)
KillIsTotal ==
  done => IF edgesDisabled THEN \A c \in CanaryHosts : Verdict(c) = "fail"
          ELSE judgedCanaries = CanaryHosts \ Unavailable

(* Every host's edgestore gains a value in every run: its own measurement, *)
(* if it was fetched and consumed, and that remains the last word on an    *)
(* available canary whatever the killer did meanwhile.  A canary the       *)
(* killer gave up has a timeout for each entry of the canary file, and its *)
(* measurement on top if its fetch returned later, or if it is unavailable *)
(* and so counts as untested though it was measured.                       *)
EveryHostGetsAValue ==
  done =>
    /\ \A h \in Hosts : h \in Edges \/ ~edgesDisabled => values[h] = 1
    /\ edgesDisabled => \A c \in CanaryHosts :
         \/ future[c] = "cancelled" /\ values[c] = Entries(c)
         \/ c \in Unavailable /\ values[c] = Entries(c) + 1
         \/ c \notin Unavailable /\ values[c] \in {1, Entries(c) + 1} /\ last[c] = result[c]

(* The tests of a run come to an end, killed or not.                       *)
TestsFinish == <>done

(* OverrideDNS: "temporaily override the resolution of DNS".  After the    *)
(* tests no override is left in force.                                     *)
OverrideIsTemporary == done => getaddrinfo = System
=============================================================================
