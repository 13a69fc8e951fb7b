----------------------------- MODULE EdgeStore ------------------------------
(***************************************************************************)
(* The edgestore of one edge (EdgeState): its fetch history, what a run    *)
(* makes of it (DecisionMaker.check_threshold), and the file, which is     *)
(* replaced as a whole.  The clock of the host may be set back and the     *)
(* process may be killed between any two steps.  A dry run never writes    *)
(* and is left out; canaries whose killer has struck are EdgeTests'.       *)
(*                                                                         *)
(* A definition whose comment starts with "Mutant" is no part of the       *)
(* specification: it is the definition that follows it, with a slip.       *)
(***************************************************************************)
EXTENDS EdgeHealth, FiniteSets, Sequences, Functions

CONSTANTS
  FetchHistory, \* FETCH_HISTORY
  Window,       \* DECISION_SLICE_WINDOW, in ticks
  GoodEnough,   \* config["goodenough"]
  FetchTimeout, \* FETCH_TIMEOUT, also the value of every failed fetch
  FetchTimes,   \* what a fetch may measure
  ModesAsked,   \* the modes an operator asks for with edge_conf
  HourTimes,    \* the times whose minute is 0
  MaxTime,      \* bound on the clock
  None,         \* no file, no judgement
  Torn          \* the content of a file that is no JSON

ASSUME HistoryIsKept == FetchHistory \in Nat \ {0}
ASSUME TimesAreNumbers ==
  /\ Window \in Nat /\ GoodEnough \in Nat /\ MaxTime \in Nat
  /\ FetchTimeout \in FetchTimes /\ FetchTimes \subseteq Nat
  /\ ModesAsked \subseteq Modes /\ HourTimes \subseteq Nat
ASSUME NoneIsNoHealth == None \notin Healths

VARIABLES
  file,      \* the edgestore file: a store, None, or Torn
  pc,
  object,    \* the EdgeState of the process at work
  after,     \* where _dump returns to
  judgement, \* current_judgement of the edge
  now,
  \* History variables.
  fetched,   \* what this run has measured
  behind,    \* was the clock behind the history when it did?
  setBack,   \* has the clock ever been set back?
  measured,  \* the newest fetches that reached the file, oldest first
  asked      \* the last mode edge_conf has set, and those it was killed over

vars == <<file, pc, object, after, judgement, now, fetched, behind, setBack, measured, asked>>
clock == <<now, setBack>>
run == <<judgement, fetched, behind>>

Times == 0 .. MaxTime
Histories == UNION {[S -> FetchTimes] : S \in SUBSET Times}
Stores == [fetch : Histories, hourly : SUBSET Times, mode : Modes, health : Healths,
           state : {"in", "out"}]
ASSUME NoFileIsNoStore == None \notin Stores /\ Torn \notin Stores

(* ASSUMED_VALS: what an edge without a readable file starts from.         *)
AssumedVals == [fetch |-> [t \in {} |-> 0], hourly |-> {}, mode |-> "available",
                health |-> "pass", state |-> "out"]
Readable == file \notin {None, Torn}
(* Mutant: only a missing file is looked for. *)
LoadedAnything == IF file # None THEN file ELSE AssumedVals
(* Without a file, or with one that is no JSON, an EdgeState starts anew.  *)
Loaded == IF Readable THEN file ELSE AssumedVals

-----------------------------------------------------------------------------
(* The history. *)

First(S) == CHOOSE t \in S : \A u \in S : t <= u
Last(S) == CHOOSE t \in S : \A u \in S : u <= t

(* Mutant: the newest entry goes instead of the oldest. *)
PruneNewest(f) == IF Cardinality(DOMAIN f) > FetchHistory
                  THEN Restrict(f, DOMAIN f \ {Last(DOMAIN f)}) ELSE f
(* One entry, the first by timestamp, goes once there are too many.        *)
Prune(f) == IF Cardinality(DOMAIN f) > FetchHistory
            THEN Restrict(f, DOMAIN f \ {First(DOMAIN f)}) ELSE f
WithEntry(f, t, v) == [u \in DOMAIN f \cup {t} |-> IF u = t THEN v ELSE f[u]]
WithValue(f, t, v) == Prune(WithEntry(f, t, v))

(* Mutant: the hourly averages are never pruned. *)
KeepEveryHour(hours, t) == IF t \in HourTimes THEN hours \cup {t} ELSE hours
(* historical_average is pruned before the new average enters it.          *)
WithHour(hours, t) ==
  IF t \notin HourTimes THEN hours
  ELSE (IF Cardinality(hours) > FetchHistory THEN hours \ {First(hours)} ELSE hours)
       \cup {t}

-----------------------------------------------------------------------------
(* check_threshold: the judgement on a history f at the time t.            *)

LastValue(f) == f[Last(DOMAIN f)]
Slice(f, t) == {u \in DOMAIN f : t - Window <= u /\ u <= t}
AverageIsGood(f, S) == SumFunctionOnSet(f, S) < GoodEnough * Cardinality(S)

(* Mutant: the averages are looked at before the timeout. *)
AveragesFirst(f, t) ==
  IF LastValue(f) < GoodEnough THEN "pass_threshold"
  ELSE IF Slice(f, t) # {} /\ AverageIsGood(f, Slice(f, t)) THEN "pass_window"
  ELSE IF AverageIsGood(f, DOMAIN f) THEN "pass_average"
  ELSE IF LastValue(f) = FetchTimeout THEN "fail"
  ELSE "pass"
(* Mutant: the average is compared the wrong way round. *)
BadAverage(f, t) ==
  IF LastValue(f) < GoodEnough THEN "pass_threshold"
  ELSE IF LastValue(f) = FetchTimeout THEN "fail"
  ELSE IF Slice(f, t) # {} /\ AverageIsGood(f, Slice(f, t)) THEN "pass_window"
  ELSE IF ~AverageIsGood(f, DOMAIN f) THEN "pass_average"
  ELSE "pass"
Judgement(f, t) ==
  IF LastValue(f) < GoodEnough THEN "pass_threshold"
  ELSE IF LastValue(f) = FetchTimeout THEN "fail"
  ELSE IF Slice(f, t) # {} /\ AverageIsGood(f, Slice(f, t)) THEN "pass_window"
  ELSE IF AverageIsGood(f, DOMAIN f) THEN "pass_average"
  ELSE "pass"

-----------------------------------------------------------------------------
Init ==
  /\ file \in {None, Torn}
  /\ pc = "idle" /\ object = AssumedVals /\ after = "idle"
  /\ judgement = None /\ now = 0
  /\ fetched = None /\ behind = FALSE /\ setBack = FALSE
  /\ measured = <<>> /\ asked = {"available"}

(* The process is gone, and what it knew with it.                          *)
Forget == object' = AssumedVals /\ judgement' = None /\ fetched' = None /\ behind' = FALSE

(* Changes reach the file in a dump; one that changes nothing is left out. *)
DumpIf(condition, next) ==
  /\ pc' = IF condition THEN "dump" ELSE next
  /\ after' = next

(* A run loads the edgestore.                                              *)
Load ==
  /\ pc = "idle"
  /\ pc' = "testing"
  /\ object' = Loaded
  /\ UNCHANGED <<file, after, run, clock, measured, asked>>

(* add_value, with the value of the run's fetch.  No two fetches have the  *)
(* same timestamp: time.time() counts in fractions of microseconds.        *)
AddValue(v) ==
  /\ pc = "testing" /\ now \notin DOMAIN object.fetch
  /\ object' = [object EXCEPT !.fetch = WithValue(@, now, v),
                              !.hourly = WithHour(@, now)]
  /\ fetched' = v
  /\ behind' = (\E t \in DOMAIN object.fetch : now < t)
  /\ DumpIf(TRUE, "judging")
  /\ UNCHANGED <<file, judgement, clock, measured, asked>>

(* An edge that is unavailable is measured, but not judged.                *)
NotJudged ==
  /\ pc = "judging" /\ object.mode = "unavailable"
  /\ pc' = "judged"
  /\ UNCHANGED <<file, object, after, run, clock, measured, asked>>

(* check_threshold, then set_health.                                       *)
Judge ==
  /\ pc = "judging" /\ object.mode # "unavailable"
  /\ judgement' = Judgement(object.fetch, now)
  /\ object' = [object EXCEPT !.health = judgement']
  /\ DumpIf(judgement' # object.health, "judged")
  /\ UNCHANGED <<file, clock, fetched, behind, measured, asked>>

(* add_rotation, for a live edge, dumps and is followed by set_state("in"); *)
(* the other edges get set_state("out").                                   *)
AddRotation ==
  /\ pc = "judged"
  /\ DumpIf(TRUE, "in")
  /\ UNCHANGED <<file, object, run, clock, measured, asked>>

SetState(state) ==
  /\ pc = IF state = "in" THEN "in" ELSE "judged"
  /\ object' = [object EXCEPT !.state = state]
  /\ DumpIf(object.state # state, "done")
  /\ UNCHANGED <<file, run, clock, measured, asked>>

(* edge_conf on an edge that has an edgestore: set_mode, and the dump of   *)
(* set_comment or unset_comment.                                           *)
SetMode(mode) ==
  /\ pc = "idle" /\ file # None
  /\ object' = [Loaded EXCEPT !.mode = mode]
  /\ DumpIf(TRUE, "set")
  /\ asked' = asked \cup {mode}
  /\ UNCHANGED <<file, run, clock, measured>>

(* Mutant: the file itself is opened for writing. *)
WriteInPlace ==
  /\ pc = "dump"
  /\ file' = Torn
  /\ pc' = "rename"
  /\ UNCHANGED <<object, after, run, clock, measured, asked>>
(* open_atomic: the object is written to a temporary file ...              *)
WriteTemp ==
  /\ pc = "dump"
  /\ pc' = "rename"
  /\ UNCHANGED <<file, object, after, run, clock, measured, asked>>

(* ... which takes the place of the edgestore.                             *)
Newest(s) == IF Len(s) > FetchHistory THEN Tail(s) ELSE s
Rename ==
  /\ pc = "rename"
  /\ file' = object
  /\ pc' = after
  /\ measured' = IF after = "judging" /\ ~setBack THEN Newest(Append(measured, fetched))
                                                ELSE measured
  /\ asked' = IF after = "set" THEN {object.mode} ELSE asked
  /\ UNCHANGED <<object, after, run, clock>>

Exit ==
  /\ pc \in {"done", "set"}
  /\ pc' = "idle" /\ after' = "idle"
  /\ Forget
  /\ UNCHANGED <<file, clock, measured, asked>>

(* The process is killed.  A temporary file stays behind, and is never read. *)
Kill ==
  /\ pc # "idle"
  /\ pc' = "idle" /\ after' = "idle"
  /\ Forget
  /\ UNCHANGED <<file, clock, measured, asked>>

Tick ==
  /\ now < MaxTime
  /\ now' = now + 1
  /\ UNCHANGED <<file, pc, object, after, run, setBack, measured, asked>>

SetClockBack ==
  /\ now' \in {t \in Times : t < now}
  /\ setBack' = TRUE /\ measured' = <<>>
  /\ UNCHANGED <<file, pc, object, after, run, asked>>

Next ==
  \/ Load \/ Judge \/ NotJudged \/ AddRotation \/ WriteTemp \/ Rename \/ Exit \/ Kill
  \/ \E v \in FetchTimes : AddValue(v)
  \/ \E state \in {"in", "out"} : SetState(state)
  \/ \E mode \in ModesAsked : SetMode(mode)
  \/ Tick \/ SetClockBack

Spec == Init /\ [][Next]_vars

-----------------------------------------------------------------------------
(* The type of every variable.                                             *)
TypeOK ==
  /\ file \in {None, Torn} \cup Stores
  /\ pc \in {"idle", "testing", "judging", "judged", "in", "dump", "rename", "done", "set"}
  /\ object \in Stores
  /\ after \in {"idle", "judging", "judged", "in", "done", "set"}
  /\ judgement \in Healths \cup {None}
  /\ now \in Times
  /\ fetched \in FetchTimes \cup {None}
  /\ behind \in BOOLEAN /\ setBack \in BOOLEAN
  /\ measured \in Seq(FetchTimes)
  /\ asked \in SUBSET Modes

(* FETCH_HISTORY bounds what an edgestore keeps, whatever the clock does   *)
(* and wherever processes are killed (add_value); historical_average holds *)
(* one entry more, as it is pruned before it grows.                        *)
HistoryBounded ==
  Readable => /\ Cardinality(DOMAIN file.fetch) <= FetchHistory
              /\ Cardinality(file.hourly) <= FetchHistory + 1

(* While the clock only advances, the file holds the newest fetches of all *)
(* runs in their order: none is lost, kept twice or pruned too early       *)
(* (add_value, _dump and the next run's load).                             *)
HistoryIsNewest ==
  (Readable /\ ~setBack) =>
     LET t == DOMAIN file.fetch
     IN  /\ Len(measured) = Cardinality(t)
         /\ \A u \in t : file.fetch[u] = measured[Cardinality({w \in t : w <= u})]

(* An edge whose most recent fetch failed is marked as failing, however    *)
(* good its averages are (check_threshold's comment at FETCH_TIMEOUT); this *)
(* needs a clock that has not fallen behind the history.                   *)
FailedFetchFails ==
  (judgement # None /\ fetched = FetchTimeout /\ ~behind) => judgement = "fail"

(* With the same past, a faster last fetch never makes an edge's judgement *)
(* worse, in any history runs can build (the order of check_threshold's    *)
(* tests); only fetches that beat the timeout count.                       *)
FasterIsNeverWorse ==
  (pc = "judging" /\ LastValue(object.fetch) <= FetchTimeout) =>
     \A v \in FetchTimes :
        v <= LastValue(object.fetch) =>
           Rank(Judgement([object.fetch EXCEPT ![Last(DOMAIN object.fetch)] = v], now))
              <= Rank(Judgement(object.fetch, now))

(* The mode an operator has set is the mode in the file, through all later *)
(* runs and kills, unless edge_conf itself was killed over another one     *)
(* (open_atomic: an edgestore is never left half written).                 *)
OperatorModeKept == Readable => file.mode \in asked
=============================================================================
