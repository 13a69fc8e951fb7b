--------------------------- MODULE EdgeStoreProofs ---------------------------
(***************************************************************************)
(* What an edgestore keeps for every length of the history, every clock    *)
(* and every set of fetch times, wherever its writers are killed.          *)
(***************************************************************************)
EXTENDS EdgeStore, FiniteSetTheorems, WellFoundedInduction, TLAPS

(* The value of this run's fetch has entered the history, and nothing but  *)
(* its dump has happened since.                                            *)
Fetched == pc = "judging" \/ (pc \in {"dump", "rename"} /\ after = "judging")

(* TypeOK is not inductive: what a dump adds to `measured' was fetched.    *)
StoreTyped == TypeOK /\ (Fetched => fetched \in FetchTimes)

LEMMA AssumedValsAreAStore == AssumedVals \in Stores
<1>1. [t \in {} |-> 0] \in [{} -> FetchTimes]
  OBVIOUS
<1>2. [t \in {} |-> 0] \in Histories
  BY <1>1 DEF Histories
<1>. QED
  BY <1>2 DEF AssumedVals, Stores, Modes, Healths, PassingHealths

LEMMA LoadedIsAStore ==
  ASSUME TypeOK
  PROVE  Loaded \in Stores
BY AssumedValsAreAStore DEF TypeOK, Loaded, Readable

(* A history stays one when a value enters it and the first one leaves.    *)
LEMMA WithValueIsAHistory ==
  ASSUME NEW f \in Histories, NEW t \in Times, NEW v \in FetchTimes
  PROVE  WithValue(f, t, v) \in Histories
<1>. DEFINE g == WithEntry(f, t, v)
<1>1. PICK S \in SUBSET Times : f \in [S -> FetchTimes]
  BY DEF Histories
<1>2. g \in [S \cup {t} -> FetchTimes]
  BY <1>1 DEF WithEntry
<1>3. g \in Histories
  BY <1>1, <1>2 DEF Histories
<1>4. ASSUME NEW x PROVE Restrict(g, DOMAIN g \ {x}) \in Histories
  <2>1. Restrict(g, DOMAIN g \ {x}) \in [(S \cup {t}) \ {x} -> FetchTimes]
    BY <1>2 DEF Restrict
  <2>. QED
    BY <1>1, <2>1 DEF Histories
<1>. HIDE DEF g
<1>5. Prune(g) \in Histories
  BY <1>3, <1>4 DEF Prune
<1>. QED
  BY <1>5 DEF WithValue, g

LEMMA WithHourIsASetOfTimes ==
  ASSUME NEW hours \in SUBSET Times, NEW t \in Times
  PROVE  WithHour(hours, t) \in SUBSET Times
BY DEF WithHour

LEMMA JudgementIsAHealth ==
  ASSUME NEW f, NEW t
  PROVE  Judgement(f, t) \in Healths
BY DEF Judgement, Healths, PassingHealths

LEMMA NewestIsASequence ==
  ASSUME NEW s \in Seq(FetchTimes), NEW v \in FetchTimes
  PROVE  Newest(Append(s, v)) \in Seq(FetchTimes)
<1>1. Append(s, v) \in Seq(FetchTimes)
  OBVIOUS
<1>2. Append(s, v) # <<>>
  BY Len(Append(s, v)) = Len(s) + 1, Len(s) \in Nat
<1>3. Tail(Append(s, v)) \in Seq(FetchTimes)
  BY <1>1, <1>2
<1>. QED
  BY <1>1, <1>3 DEF Newest

LEMMA TypeInit == Init => StoreTyped
<1>1. 0 \in Times
  BY TimesAreNumbers DEF Times
<1>. SUFFICES ASSUME Init PROVE StoreTyped
  OBVIOUS
<1>2. file \in {None, Torn} \cup Stores /\ object \in Stores
  BY AssumedValsAreAStore DEF Init
<1>3. asked \in SUBSET Modes
  BY DEF Init, Modes
<1>4. ~Fetched
  BY DEF Init, Fetched
<1>5. measured \in Seq(FetchTimes)
  BY DEF Init
<1>. QED
  BY <1>1, <1>2, <1>3, <1>4, <1>5 DEF Init, StoreTyped, TypeOK

LEMMA TypeStep == StoreTyped /\ [Next]_vars => StoreTyped'
<1>. SUFFICES ASSUME StoreTyped, [Next]_vars PROVE StoreTyped'
  OBVIOUS
<1>. USE DEF StoreTyped, TypeOK, Fetched
<1>1. CASE Load
  BY <1>1, LoadedIsAStore DEF Load, run, clock
<1>2. ASSUME NEW v \in FetchTimes, AddValue(v) PROVE StoreTyped'
  <2>1. WithValue(object.fetch, now, v) \in Histories
    BY WithValueIsAHistory DEF Stores
  <2>2. WithHour(object.hourly, now) \in SUBSET Times
    BY WithHourIsASetOfTimes DEF Stores
  <2>3. object' \in Stores
    BY <1>2, <2>1, <2>2 DEF AddValue, Stores
  <2>4. behind' \in BOOLEAN
    BY <1>2 DEF AddValue
  <2>5. UNCHANGED <<file, judgement, now, setBack, measured, asked>>
    BY <1>2 DEF AddValue, clock
  <2>6. pc' = "dump" /\ after' = "judging" /\ fetched' = v
    BY <1>2 DEF AddValue, DumpIf
  <2>. QED
    BY <2>3, <2>4, <2>5, <2>6
<1>3. CASE NotJudged
  BY <1>3 DEF NotJudged, run, clock
<1>4. CASE Judge
  <2>1. judgement' \in Healths
    BY <1>4, JudgementIsAHealth DEF Judge
  <2>2. object' \in Stores
    BY <1>4, <2>1 DEF Judge, Stores
  <2>. QED
    BY <1>4, <2>1, <2>2 DEF Judge, DumpIf, clock
<1>5. CASE AddRotation
  BY <1>5 DEF AddRotation, DumpIf, run, clock
<1>6. ASSUME NEW state \in {"in", "out"}, SetState(state) PROVE StoreTyped'
  <2>1. object' \in Stores
    BY <1>6 DEF SetState, Stores
  <2>. QED
    BY <1>6, <2>1 DEF SetState, DumpIf, run, clock
<1>7. ASSUME NEW mode \in ModesAsked, SetMode(mode) PROVE StoreTyped'
  <2>1. mode \in Modes
    BY TimesAreNumbers
  <2>2. object' \in Stores
    BY <1>7, <2>1, LoadedIsAStore DEF SetMode, Stores
  <2>. QED
    BY <1>7, <2>1, <2>2 DEF SetMode, DumpIf, run, clock
<1>8. CASE WriteTemp
  BY <1>8 DEF WriteTemp, run, clock
<1>9. CASE Rename
  <2>1. measured' \in Seq(FetchTimes)
    BY <1>9, NewestIsASequence DEF Rename
  <2>2. asked' \in SUBSET Modes
    BY <1>9 DEF Rename, Stores
  <2>. QED
    BY <1>9, <2>1, <2>2 DEF Rename, run, clock
<1>10. CASE Exit \/ Kill
  BY <1>10, AssumedValsAreAStore DEF Exit, Kill, Forget, clock
<1>11. CASE Tick
  <2>1. now' \in Times
    BY <1>11, TimesAreNumbers DEF Tick, Times
  <2>. QED
    BY <1>11, <2>1 DEF Tick, run
<1>12. CASE SetClockBack
  BY <1>12 DEF SetClockBack, run
<1>13. CASE UNCHANGED vars
  BY <1>13 DEF vars
<1>. QED
  BY <1>1, <1>2, <1>3, <1>4, <1>5, <1>6, <1>7, <1>8, <1>9, <1>10, <1>11, <1>12,
     <1>13 DEF Next

(* Every file and every variable of a process keeps its type: what is      *)
(* loaded is a store, wherever the process that wrote it was killed.       *)
THEOREM TypeCorrect == Spec => []TypeOK
<1>1. StoreTyped => TypeOK
  BY DEF StoreTyped
<1>. QED
  BY TypeInit, TypeStep, <1>1, PTL DEF Spec

-----------------------------------------------------------------------------
(* The operator's mode. *)

(* Files that hold no mode stand for "available", and a process carries    *)
(* the mode of the file it has loaded, or the one it has been asked for.   *)
ModeFollows ==
  /\ Readable => file.mode \in asked
  /\ ~Readable => "available" \in asked
  /\ pc # "idle" => object.mode \in asked

LEMMA ModeStep == ModeFollows /\ StoreTyped /\ [Next]_vars => ModeFollows'
<1>. SUFFICES ASSUME ModeFollows, StoreTyped, [Next]_vars PROVE ModeFollows'
  OBVIOUS
<1>0. object \in Stores
  BY DEF StoreTyped, TypeOK
<1>. USE DEF ModeFollows
<1>1. Loaded.mode \in asked
  BY DEF Loaded, AssumedVals
<1>2. CASE Load
  BY <1>1, <1>2 DEF Load, Readable
<1>3. ASSUME NEW v \in FetchTimes, AddValue(v) PROVE ModeFollows'
  <2>1. object'.mode = object.mode
    BY <1>0, <1>3 DEF AddValue, Stores
  <2>. QED
    BY <1>3, <2>1 DEF AddValue, Readable
<1>4. CASE NotJudged \/ AddRotation \/ WriteTemp
  BY <1>4 DEF NotJudged, AddRotation, WriteTemp, Readable
<1>5. CASE Judge
  <2>1. object'.mode = object.mode
    BY <1>0, <1>5 DEF Judge, Stores
  <2>. QED
    BY <1>5, <2>1 DEF Judge, Readable
<1>6. ASSUME NEW state \in {"in", "out"}, SetState(state) PROVE ModeFollows'
  <2>1. object'.mode = object.mode
    BY <1>0, <1>6 DEF SetState, Stores
  <2>2. pc # "idle"
    BY <1>6 DEF SetState
  <2>. QED
    BY <1>6, <2>1, <2>2 DEF SetState, Readable
<1>7. ASSUME NEW mode \in ModesAsked, SetMode(mode) PROVE ModeFollows'
  <2>1. Loaded \in Stores
    BY LoadedIsAStore DEF StoreTyped
  <2>2. object'.mode = mode
    BY <1>7, <2>1 DEF SetMode, Stores
  <2>. QED
    BY <1>7, <2>2 DEF SetMode, Readable
<1>8. CASE Rename
  <2>1. Readable' /\ file' = object /\ object' = object
    BY <1>0, <1>8, NoFileIsNoStore DEF Rename, Readable
  <2>2. object.mode \in asked'
    BY <1>8 DEF Rename
  <2>. QED
    BY <2>1, <2>2
<1>9. CASE Exit \/ Kill
  BY <1>9 DEF Exit, Kill, Readable
<1>10. CASE Tick \/ SetClockBack
  BY <1>10 DEF Tick, SetClockBack, Readable
<1>11. CASE UNCHANGED vars
  BY <1>11 DEF vars, Readable
<1>. QED
  BY <1>2, <1>3, <1>4, <1>5, <1>6, <1>7, <1>8, <1>9, <1>10, <1>11 DEF Next

(* No run, no kill and no broken file loses the mode an operator has set.  *)
THEOREM ModesAreKept == Spec => []OperatorModeKept
<1>1. Init => ModeFollows
  BY DEF Init, ModeFollows, Readable
<1>2. ModeFollows => OperatorModeKept
  BY DEF ModeFollows, OperatorModeKept
<1>. QED
  BY TypeInit, TypeStep, <1>1, ModeStep, <1>2, PTL DEF Spec

-----------------------------------------------------------------------------
(* The length of a history. *)

(* Numbers have a least one.                                               *)
LEMMA LeastNumber ==
  ASSUME NEW T \in SUBSET Nat, T # {}
  PROVE  \E m \in T : \A n \in T : m <= n
<1>. DEFINE R == OpToRel(<, Nat)
<1>1. \E m \in T : \A n \in T : ~(<<n, m>> \in R)
  <2>. HIDE DEF R
  <2>1. IsWellFoundedOn(R, Nat)
    BY NatLessThanWellFounded, Zenon DEF R
  <2>. QED
    BY <2>1, WFMin
<1>2. \A m, n \in Nat : ~(<<n, m>> \in R) => m <= n
  BY DEF OpToRel
<1>. HIDE DEF R
<1>. QED
  BY <1>1, <1>2

(* Timestamps have a first and a last one.                                 *)
LEMMA FirstAndLast ==
  ASSUME NEW S \in SUBSET Times, S # {}
  PROVE  /\ First(S) \in S /\ \A u \in S : First(S) <= u
         /\ Last(S) \in S /\ \A u \in S : u <= Last(S)
<1>. DEFINE Upside == {n \in Nat : MaxTime - n \in S}
<1>1. \A u \in S : u \in Nat /\ u <= MaxTime
  BY TimesAreNumbers DEF Times
<1>2. \E m \in S : \A n \in S : m <= n
  <2>1. S \in SUBSET Nat
    BY <1>1
  <2>. QED
    BY <2>1, LeastNumber
<1>3. \E m \in S : \A n \in S : n <= m
  <2>1. \A u \in S : MaxTime - u \in Upside
    BY <1>1, TimesAreNumbers
  <2>2. Upside # {} /\ Upside \in SUBSET Nat
    BY <2>1
  <2>3. PICK n \in Upside : \A k \in Upside : n <= k
    BY <2>2, LeastNumber
  <2>4. \A u \in S : n <= MaxTime - u
    BY <2>1, <2>3
  <2>5. \A u \in S : u <= MaxTime - n
    BY <1>1, <2>4, TimesAreNumbers
  <2>. QED
    BY <2>3, <2>5
<1>. QED
  BY <1>2, <1>3 DEF First, Last

LEMMA TimesAreFinite ==
  ASSUME NEW S \in SUBSET Times
  PROVE  IsFiniteSet(S) /\ Cardinality(S) \in Nat
<1>1. IsFiniteSet(Times)
  BY FS_Interval, TimesAreNumbers DEF Times
<1>2. IsFiniteSet(S)
  BY <1>1, FS_Subset
<1>. QED
  BY <1>2, FS_CardinalityType

(* What a process holds is bounded as what the file holds is.              *)
Short(store) ==
  /\ Cardinality(DOMAIN store.fetch) <= FetchHistory
  /\ Cardinality(store.hourly) <= FetchHistory + 1
AllShort == Short(object) /\ (Readable => Short(file))

LEMMA DomainOfHistory ==
  ASSUME NEW f \in Histories
  PROVE  DOMAIN f \in SUBSET Times
BY DEF Histories

(* A value that enters a history leaves it within its bound, ...           *)
LEMMA WithValueIsShort ==
  ASSUME NEW f \in Histories, NEW t \in Times, NEW v \in FetchTimes,
         Cardinality(DOMAIN f) <= FetchHistory
  PROVE  Cardinality(DOMAIN WithValue(f, t, v)) <= FetchHistory
<1>. DEFINE g == WithEntry(f, t, v)
            D == DOMAIN f \cup {t}
<1>1. DOMAIN g = D
  BY DEF WithEntry
<1>2. D \in SUBSET Times /\ D # {} /\ DOMAIN f \in SUBSET Times
  BY DomainOfHistory
<1>3. IsFiniteSet(DOMAIN f) /\ Cardinality(DOMAIN f) \in Nat
  BY <1>2, TimesAreFinite
<1>4. IsFiniteSet(D) /\ Cardinality(D) \in Nat
  BY <1>2, TimesAreFinite
<1>5. Cardinality(D) <= FetchHistory + 1
  <2>1. Cardinality(D) = IF t \in DOMAIN f THEN Cardinality(DOMAIN f)
                         ELSE Cardinality(DOMAIN f) + 1
    BY <1>3, FS_AddElement
  <2>. QED
    BY <1>3, <2>1, HistoryIsKept
<1>6. First(D) \in D
  BY <1>2, FirstAndLast
<1>7. Cardinality(D \ {First(D)}) = Cardinality(D) - 1
  BY <1>4, <1>6, FS_RemoveElement
<1>. HIDE DEF g, D
<1>8. DOMAIN Restrict(g, D \ {First(D)}) = D \ {First(D)}
  BY DEF Restrict
<1>9. Cardinality(DOMAIN Prune(g)) <= FetchHistory
  <2>1. CASE Cardinality(D) > FetchHistory
    <3>1. Prune(g) = Restrict(g, D \ {First(D)})
      BY <1>1, <2>1 DEF Prune
    <3>. QED
      BY <1>4, <1>5, <1>7, <1>8, <3>1, HistoryIsKept
  <2>2. CASE ~(Cardinality(D) > FetchHistory)
    <3>1. Prune(g) = g
      BY <1>1, <2>2 DEF Prune
    <3>. QED
      BY <1>1, <1>4, <2>2, <3>1, HistoryIsKept
  <2>. QED
    BY <2>1, <2>2
<1>. QED
  BY <1>9 DEF WithValue, g

(* ... and so does an hourly average, within one entry more.               *)
LEMMA WithHourIsShort ==
  ASSUME NEW hours \in SUBSET Times, NEW t \in Times,
         Cardinality(hours) <= FetchHistory + 1
  PROVE  Cardinality(WithHour(hours, t)) <= FetchHistory + 1
<1>1. IsFiniteSet(hours) /\ Cardinality(hours) \in Nat
  BY TimesAreFinite
<1>. DEFINE kept == IF Cardinality(hours) > FetchHistory
                    THEN hours \ {First(hours)} ELSE hours
<1>2. IsFiniteSet(kept) /\ Cardinality(kept) \in Nat /\ Cardinality(kept) <= FetchHistory
  <2>1. CASE Cardinality(hours) > FetchHistory
    <3>1. hours # {}
      BY <2>1, FS_EmptySet, HistoryIsKept
    <3>2. First(hours) \in hours
      BY <3>1, FirstAndLast
    <3>3. /\ IsFiniteSet(hours \ {First(hours)})
          /\ Cardinality(hours \ {First(hours)}) = Cardinality(hours) - 1
      BY <1>1, <3>2, FS_RemoveElement
    <3>. QED
      BY <1>1, <2>1, <3>3, HistoryIsKept
  <2>2. CASE ~(Cardinality(hours) > FetchHistory)
    BY <1>1, <2>2, HistoryIsKept
  <2>. QED
    BY <2>1, <2>2
<1>. HIDE DEF kept
<1>3. Cardinality(kept \cup {t}) <= FetchHistory + 1
  <2>1. Cardinality(kept \cup {t}) = IF t \in kept THEN Cardinality(kept)
                                     ELSE Cardinality(kept) + 1
    BY <1>2, FS_AddElement
  <2>. QED
    BY <1>2, <2>1, HistoryIsKept
<1>4. WithHour(hours, t) = IF t \notin HourTimes THEN hours ELSE kept \cup {t}
  BY DEF WithHour, kept
<1>. QED
  BY <1>3, <1>4

LEMMA AssumedValsAreShort == Short(AssumedVals)
<1>1. DOMAIN AssumedVals.fetch = {} /\ AssumedVals.hourly = {}
  BY DEF AssumedVals
<1>. QED
  BY <1>1, FS_EmptySet, HistoryIsKept DEF Short

LEMMA ShortStep == AllShort /\ StoreTyped /\ [Next]_vars => AllShort'
<1>. SUFFICES ASSUME AllShort, StoreTyped, [Next]_vars PROVE AllShort'
  OBVIOUS
<1>0. object \in Stores
  BY DEF StoreTyped, TypeOK
<1>. USE DEF AllShort
<1>1. Short(Loaded)
  BY AssumedValsAreShort DEF Loaded
<1>2. CASE Load
  BY <1>1, <1>2 DEF Load, Readable, Short
<1>3. ASSUME NEW v \in FetchTimes, AddValue(v) PROVE AllShort'
  <2>1. now \in Times /\ object.fetch \in Histories /\ object.hourly \in SUBSET Times
    BY <1>0 DEF StoreTyped, TypeOK, Stores
  <2>2. object'.fetch = WithValue(object.fetch, now, v)
        /\ object'.hourly = WithHour(object.hourly, now)
    BY <1>0, <1>3 DEF AddValue, Stores
  <2>3. Short(object')
    BY <2>1, <2>2, WithValueIsShort, WithHourIsShort DEF Short
  <2>. QED
    BY <1>3, <2>3 DEF AddValue, Readable, Short
<1>4. CASE NotJudged \/ AddRotation \/ WriteTemp
  BY <1>4 DEF NotJudged, AddRotation, WriteTemp, Readable, Short
<1>5. CASE Judge
  <2>1. object'.fetch = object.fetch /\ object'.hourly = object.hourly
    BY <1>0, <1>5 DEF Judge, Stores
  <2>. QED
    BY <1>5, <2>1 DEF Judge, Readable, Short
<1>6. ASSUME NEW state \in {"in", "out"}, SetState(state) PROVE AllShort'
  <2>1. object'.fetch = object.fetch /\ object'.hourly = object.hourly
    BY <1>0, <1>6 DEF SetState, Stores
  <2>. QED
    BY <1>6, <2>1 DEF SetState, Readable, Short
<1>7. ASSUME NEW mode \in ModesAsked, SetMode(mode) PROVE AllShort'
  <2>1. Loaded \in Stores
    BY LoadedIsAStore DEF StoreTyped
  <2>2. object'.fetch = Loaded.fetch /\ object'.hourly = Loaded.hourly
    BY <1>7, <2>1 DEF SetMode, Stores
  <2>. QED
    BY <1>1, <1>7, <2>2 DEF SetMode, Readable, Short
<1>8. CASE Rename
  BY <1>8 DEF Rename, Readable, Short
<1>9. CASE Exit \/ Kill
  <2>1. object' = AssumedVals /\ file' = file
    BY <1>9 DEF Exit, Kill, Forget
  <2>. QED
    BY <2>1, AssumedValsAreShort DEF Readable, Short
<1>10. CASE Tick \/ SetClockBack
  BY <1>10 DEF Tick, SetClockBack, Readable, Short
<1>11. CASE UNCHANGED vars
  BY <1>11 DEF vars, Readable, Short
<1>. QED
  BY <1>2, <1>3, <1>4, <1>5, <1>6, <1>7, <1>8, <1>9, <1>10, <1>11 DEF Next

(* An edgestore never outgrows FETCH_HISTORY, whatever the clock does.     *)
THEOREM HistoriesAreBounded == Spec => []HistoryBounded
<1>1. Init => AllShort
  BY AssumedValsAreShort DEF Init, AllShort, Readable
<1>2. AllShort => HistoryBounded
  BY DEF AllShort, Short, HistoryBounded
<1>. QED
  BY TypeInit, TypeStep, <1>1, ShortStep, <1>2, PTL DEF Spec

-----------------------------------------------------------------------------
(* A failed fetch. *)

(* Between a fetch and its judgement the value that was fetched is the     *)
(* last one of the history, and no judgement has been passed before it.    *)
LastIsFetched ==
  /\ Fetched /\ ~behind => LastValue(object.fetch) = fetched
  /\ Fetched \/ pc \in {"idle", "testing"} => judgement = None
  /\ pc \in {"dump", "rename"} => after # "idle"
  /\ FailedFetchFails

(* A value whose timestamp is not behind the history enters as its last.   *)
LEMMA NewValueIsLast ==
  ASSUME NEW f \in Histories, NEW t \in Times, NEW v \in FetchTimes,
         t \notin DOMAIN f, \A u \in DOMAIN f : ~(t < u)
  PROVE  LastValue(WithValue(f, t, v)) = v
<1>. DEFINE g == WithEntry(f, t, v)
            D == DOMAIN f \cup {t}
<1>1. DOMAIN g = D /\ g[t] = v
  BY DEF WithEntry
<1>2. D \in SUBSET Times /\ DOMAIN f \in SUBSET Times
  BY DomainOfHistory
<1>3. \A u \in Times : u \in Nat
  BY DEF Times
<1>4. \A u \in D : u <= t
  BY <1>2, <1>3
<1>5. ASSUME NEW E \in SUBSET D, t \in E PROVE Last(E) = t
  <2>1. Last(E) \in E /\ t <= Last(E)
    BY <1>2, <1>5, FirstAndLast
  <2>2. Last(E) <= t
    BY <1>4, <2>1
  <2>. QED
    BY <1>2, <1>3, <2>1, <2>2
<1>6. ASSUME Cardinality(D) > FetchHistory PROVE First(D) # t
  <2>1. SUFFICES ASSUME First(D) = t PROVE FALSE
    OBVIOUS
  <2>2. \A u \in D : t <= u
    BY <1>2, <2>1, FirstAndLast
  <2>3. D = {t}
    BY <1>2, <1>3, <1>4, <2>2
  <2>4. Cardinality({t}) = 1
    <3>1. Cardinality({} \cup {t}) = 0 + 1
      BY FS_EmptySet, FS_AddElement
    <3>2. {} \cup {t} = {t}
      OBVIOUS
    <3>. QED
      BY <3>1, <3>2
  <2>. QED
    BY <1>6, <2>3, <2>4, HistoryIsKept
<1>7. PICK E \in SUBSET D : t \in E /\ Prune(g) = Restrict(g, E)
  <2>1. CASE Cardinality(D) > FetchHistory
    <3>1. t \in D \ {First(D)}
      BY <1>6, <2>1
    <3>2. Prune(g) = Restrict(g, D \ {First(D)})
      BY <1>1, <2>1 DEF Prune
    <3>. QED
      BY <3>1, <3>2
  <2>2. CASE ~(Cardinality(D) > FetchHistory)
    <3>1. Prune(g) = g
      BY <1>1, <2>2 DEF Prune
    <3>2. g = Restrict(g, D)
      BY DEF Restrict, WithEntry
    <3>. QED
      BY <3>1, <3>2
  <2>. QED
    BY <2>1, <2>2
<1>. HIDE DEF g, D
<1>8. DOMAIN Prune(g) = E /\ Prune(g)[t] = v
  BY <1>1, <1>7 DEF Restrict
<1>9. LastValue(Prune(g)) = v
  BY <1>5, <1>7, <1>8 DEF LastValue
<1>. QED
  BY <1>9 DEF WithValue, g

LEMMA FailureStep ==
  ASSUME GoodEnough <= FetchTimeout
  PROVE  LastIsFetched /\ StoreTyped /\ [Next]_vars => LastIsFetched'
<1>. SUFFICES ASSUME LastIsFetched, StoreTyped, [Next]_vars PROVE LastIsFetched'
  OBVIOUS
<1>0. object \in Stores
  BY DEF StoreTyped, TypeOK
<1>. USE DEF LastIsFetched, FailedFetchFails, Fetched
<1>1. CASE Load
  BY <1>1 DEF Load, run
<1>2. ASSUME NEW v \in FetchTimes, AddValue(v) PROVE LastIsFetched'
  <2>1. now \in Times /\ object.fetch \in Histories
    BY <1>0 DEF StoreTyped, TypeOK, Stores
  <2>2. object'.fetch = WithValue(object.fetch, now, v) /\ fetched' = v
    BY <1>0, <1>2 DEF AddValue, Stores
  <2>3. ASSUME ~behind' PROVE LastValue(object'.fetch) = fetched'
    <3>1. now \notin DOMAIN object.fetch
      BY <1>2 DEF AddValue
    <3>2. \A u \in DOMAIN object.fetch : ~(now < u)
      BY <1>2, <2>3 DEF AddValue
    <3>. QED
      BY <2>1, <2>2, <3>1, <3>2, NewValueIsLast
  <2>4. judgement' = None
    BY <1>2 DEF AddValue
  <2>5. pc' = "dump" /\ after' = "judging"
    BY <1>2 DEF AddValue, DumpIf
  <2>. QED
    BY <2>3, <2>4, <2>5
<1>3. CASE NotJudged
  BY <1>3 DEF NotJudged, run
<1>4. CASE Judge
  <2>1. pc' \in {"dump", "judged"} /\ after' = "judged"
    BY <1>4 DEF Judge, DumpIf
  <2>2. ASSUME fetched' = FetchTimeout, ~behind' PROVE judgement' = "fail"
    <3>1. LastValue(object.fetch) = FetchTimeout
      BY <1>4, <2>2 DEF Judge
    <3>2. ~(FetchTimeout < GoodEnough)
      BY TimesAreNumbers
    <3>. QED
      BY <1>4, <3>1, <3>2 DEF Judge, Judgement
  <2>. QED
    BY <2>1, <2>2
<1>5. CASE AddRotation
  BY <1>5 DEF AddRotation, DumpIf, run
<1>6. ASSUME NEW state \in {"in", "out"}, SetState(state) PROVE LastIsFetched'
  BY <1>6 DEF SetState, DumpIf, run
<1>7. ASSUME NEW mode \in ModesAsked, SetMode(mode) PROVE LastIsFetched'
  BY <1>7 DEF SetMode, DumpIf, run
<1>8. CASE WriteTemp
  BY <1>8 DEF WriteTemp, run
<1>9. CASE Rename
  BY <1>9 DEF Rename, run, StoreTyped, TypeOK
<1>10. CASE Exit \/ Kill
  BY <1>10 DEF Exit, Kill, Forget
<1>11. CASE Tick \/ SetClockBack
  BY <1>11 DEF Tick, SetClockBack, run
<1>12. CASE UNCHANGED vars
  BY <1>12 DEF vars
<1>. QED
  BY <1>1, <1>2, <1>3, <1>4, <1>5, <1>6, <1>7, <1>8, <1>9, <1>10, <1>11, <1>12 DEF Next

(* If a timeout is not good enough, a failed fetch is a failing edge.      *)
THEOREM FailuresAreSeen ==
  ASSUME GoodEnough <= FetchTimeout
  PROVE  Spec => []FailedFetchFails
<1>1. Init => LastIsFetched
  BY DEF Init, LastIsFetched, FailedFetchFails, Fetched
<1>2. LastIsFetched => FailedFetchFails
  BY DEF LastIsFetched
<1>3. LastIsFetched /\ StoreTyped /\ [Next]_vars => LastIsFetched'
  BY FailureStep
<1>. QED
  BY TypeInit, TypeStep, <1>1, <1>2, <1>3, PTL DEF Spec

-----------------------------------------------------------------------------
(* The order of a history. *)

(* A history holds a sequence of values, in the order of the timestamps.   *)
Upto(S, u) == {w \in S : w <= u}
Holds(f, s) ==
  /\ Len(s) = Cardinality(DOMAIN f)
  /\ \A u \in DOMAIN f : f[u] = s[Cardinality(Upto(DOMAIN f, u))]

(* Positions in a history count from 1 to its length.                      *)
LEMMA PositionsAreIndices ==
  ASSUME NEW S \in SUBSET Times, NEW u \in S
  PROVE  Cardinality(Upto(S, u)) \in 1 .. Cardinality(S)
<1>1. Upto(S, u) \subseteq S /\ u \in Upto(S, u)
  BY DEF Upto, Times
<1>2. IsFiniteSet(S) /\ IsFiniteSet(Upto(S, u))
  BY <1>1, TimesAreFinite
<1>3. Cardinality(Upto(S, u)) <= Cardinality(S)
  BY <1>1, <1>2, FS_Subset
<1>4. Cardinality(S) \in Nat /\ Cardinality(Upto(S, u)) \in Nat
  BY <1>2, FS_CardinalityType
<1>5. Cardinality(Upto(S, u)) # 0
  BY <1>1, <1>2, FS_EmptySet
<1>. QED
  BY <1>3, <1>4, <1>5

(* A value with a new greatest timestamp is the last of the sequence.      *)
LEMMA EntryIsAppended ==
  ASSUME NEW f \in Histories, NEW s \in Seq(FetchTimes), NEW t \in Times, NEW v \in FetchTimes,
         Holds(f, s), \A u \in DOMAIN f : u < t
  PROVE  Holds(WithEntry(f, t, v), Append(s, v))
<1>. DEFINE g == WithEntry(f, t, v)
            D == DOMAIN f \cup {t}
            n == Cardinality(DOMAIN f)
<1>1. DOMAIN f \in SUBSET Times /\ t \notin DOMAIN f
  BY DomainOfHistory DEF Times
<1>2. IsFiniteSet(DOMAIN f) /\ n \in Nat
  BY <1>1, TimesAreFinite
<1>3. Cardinality(D) = n + 1
  BY <1>1, <1>2, FS_AddElement
<1>4. DOMAIN g = D /\ g[t] = v /\ \A u \in DOMAIN f : g[u] = f[u]
  BY <1>1 DEF WithEntry
<1>5. Len(s) = n /\ Len(Append(s, v)) = n + 1 /\ Append(s, v)[n + 1] = v
  BY DEF Holds
<1>6. \A i \in 1 .. n : Append(s, v)[i] = s[i]
  BY <1>5
<1>7. Upto(D, t) = D
  BY <1>1 DEF Upto, Times
<1>8. ASSUME NEW u \in DOMAIN f PROVE g[u] = Append(s, v)[Cardinality(Upto(D, u))]
  <2>1. Upto(D, u) = Upto(DOMAIN f, u)
    BY <1>1 DEF Upto, Times
  <2>2. Cardinality(Upto(DOMAIN f, u)) \in 1 .. n
    BY <1>1, PositionsAreIndices
  <2>3. f[u] = s[Cardinality(Upto(DOMAIN f, u))]
    BY DEF Holds
  <2>. QED
    BY <1>4, <1>6, <2>1, <2>2, <2>3
<1>. HIDE DEF g, D, n
<1>9. \A u \in D : g[u] = Append(s, v)[Cardinality(Upto(D, u))]
  BY <1>3, <1>4, <1>5, <1>7, <1>8 DEF D
<1>10. Holds(g, Append(s, v))
  BY <1>3, <1>4, <1>5, <1>9 DEF Holds
<1>. QED
  BY <1>10 DEF g

(* Pruning a history drops the first of the sequence.                      *)
LEMMA FirstIsDropped ==
  ASSUME NEW f \in Histories, NEW s \in Seq(FetchTimes), Holds(f, s), DOMAIN f # {}
  PROVE  Holds(Restrict(f, DOMAIN f \ {First(DOMAIN f)}), Tail(s))
<1>. DEFINE S == DOMAIN f
            x == First(S)
            n == Cardinality(S)
            T == S \ {x}
            g == Restrict(f, T)
<1>1. S \in SUBSET Times /\ IsFiniteSet(S) /\ n \in Nat
  BY DomainOfHistory, TimesAreFinite
<1>2. x \in S /\ \A u \in S : x <= u
  BY <1>1, FirstAndLast
<1>3. Cardinality(T) = n - 1 /\ n # 0
  BY <1>1, <1>2, FS_RemoveElement, FS_EmptySet
<1>4. DOMAIN g = T /\ \A u \in T : g[u] = f[u]
  BY DEF Restrict
<1>5. Len(s) = n /\ s # <<>>
  BY <1>3 DEF Holds
<1>6. Len(Tail(s)) = n - 1 /\ \A i \in 1 .. n - 1 : Tail(s)[i] = s[i + 1]
  BY <1>5
<1>7. ASSUME NEW u \in T PROVE g[u] = Tail(s)[Cardinality(Upto(T, u))]
  <2>1. Upto(T, u) = Upto(S, u) \ {x} /\ x \in Upto(S, u)
    BY <1>2 DEF Upto
  <2>2. IsFiniteSet(Upto(S, u)) /\ Cardinality(Upto(S, u)) \in Nat
    <3>1. Upto(S, u) \in SUBSET Times
      BY <1>1 DEF Upto
    <3>. QED
      BY <3>1, TimesAreFinite
  <2>3. Cardinality(Upto(T, u)) = Cardinality(Upto(S, u)) - 1
    BY <2>1, <2>2, FS_RemoveElement
  <2>4. Cardinality(Upto(T, u)) \in 1 .. n - 1
    BY <1>1, <1>3, PositionsAreIndices
  <2>5. f[u] = s[Cardinality(Upto(S, u))]
    BY DEF Holds
  <2>. HIDE DEF S, T, n, g, x
  <2>6. g[u] = s[Cardinality(Upto(T, u)) + 1]
    BY <1>4, <2>2, <2>3, <2>5
  <2>. QED
    BY <1>6, <2>4, <2>6
<1>. HIDE DEF S, T, n, g, x
<1>8. Holds(g, Tail(s))
  BY <1>3, <1>4, <1>6, <1>7 DEF Holds
<1>. QED
  BY <1>8 DEF S, T, g, x

(* A fetch that is newer than the history enters it as the newest of the   *)
(* sequence, and the oldest one goes when there are too many.              *)
LEMMA NewValueIsNewest ==
  ASSUME NEW f \in Histories, NEW s \in Seq(FetchTimes), NEW t \in Times, NEW v \in FetchTimes,
         Holds(f, s), \A u \in DOMAIN f : u < t
  PROVE  Holds(WithValue(f, t, v), Newest(Append(s, v)))
<1>. DEFINE g == WithEntry(f, t, v)
            q == Append(s, v)
<1>1. q \in Seq(FetchTimes) /\ Holds(g, q)
  BY EntryIsAppended
<1>2. DOMAIN g # {} /\ g \in Histories
  <2>1. PICK S \in SUBSET Times : f \in [S -> FetchTimes]
    BY DEF Histories
  <2>2. g \in [S \cup {t} -> FetchTimes]
    BY <2>1 DEF WithEntry
  <2>. QED
    BY <2>1, <2>2 DEF Histories
<1>. HIDE DEF g, q
<1>3. Len(q) = Cardinality(DOMAIN g)
  BY <1>1 DEF Holds
<1>4. CASE Cardinality(DOMAIN g) > FetchHistory
  <2>1. Prune(g) = Restrict(g, DOMAIN g \ {First(DOMAIN g)}) /\ Newest(q) = Tail(q)
    BY <1>3, <1>4 DEF Prune, Newest
  <2>. QED
    BY <1>1, <1>2, <2>1, FirstIsDropped DEF WithValue, g, q
<1>5. CASE ~(Cardinality(DOMAIN g) > FetchHistory)
  BY <1>1, <1>3, <1>5 DEF Prune, Newest, WithValue, g, q
<1>. QED
  BY <1>4, <1>5

(* While the clock only advances, the file and the process at work hold    *)
(* the newest fetches in their order, and none is later than now.  A value *)
(* that is on its way to the file counts for the process already.          *)
Underway == pc \in {"dump", "rename"} /\ after = "judging"
Carried == IF Underway THEN Newest(Append(measured, fetched)) ELSE measured
Past(f) == \A u \in DOMAIN f : u <= now
OrderKept ==
  ~setBack =>
     /\ Readable => Holds(file.fetch, measured) /\ Past(file.fetch)
     /\ ~Readable => measured = <<>>
     /\ pc # "idle" => Holds(object.fetch, Carried) /\ Past(object.fetch)

LEMMA EmptyHolds == Holds(AssumedVals.fetch, <<>>)
<1>1. DOMAIN AssumedVals.fetch = {}
  BY DEF AssumedVals
<1>. QED
  BY <1>1, FS_EmptySet DEF Holds

LEMMA LoadedIsInOrder ==
  ASSUME OrderKept, ~setBack
  PROVE  Holds(Loaded.fetch, measured) /\ Past(Loaded.fetch)
<1>1. CASE Readable
  BY <1>1 DEF OrderKept, Loaded
<1>2. CASE ~Readable
  <2>1. Loaded = AssumedVals /\ measured = <<>>
    BY <1>2 DEF OrderKept, Loaded
  <2>2. DOMAIN AssumedVals.fetch = {}
    BY DEF AssumedVals
  <2>. QED
    BY <2>1, <2>2, EmptyHolds DEF Past
<1>. QED
  BY <1>1, <1>2

(* A step that leaves the histories and the clock alone, and moves no      *)
(* value to or from its way to the file.                                   *)
LEMMA OrderStays ==
  ASSUME OrderKept, UNCHANGED <<file, now, setBack, measured, fetched>>,
         object'.fetch = object.fetch, pc # "idle", Underway' = Underway
  PROVE  OrderKept'
BY DEF OrderKept, Holds, Upto, Past, Carried, Readable

LEMMA FetchIsInOrder ==
  ASSUME OrderKept, StoreTyped, NEW v \in FetchTimes, AddValue(v)
  PROVE  OrderKept'
<1>0. object \in Stores /\ now \in Times /\ measured \in Seq(FetchTimes)
  BY DEF StoreTyped, TypeOK
<1>1. /\ pc = "testing" /\ pc' = "dump" /\ after' = "judging" /\ fetched' = v
      /\ UNCHANGED <<file, now, setBack, measured>>
      /\ now \notin DOMAIN object.fetch
  BY DEF AddValue, DumpIf, clock
<1>2. object'.fetch = WithValue(object.fetch, now, v)
  BY <1>0 DEF AddValue, Stores
<1>3. SUFFICES ASSUME ~setBack
               PROVE  Holds(object'.fetch, Newest(Append(measured, v))) /\ Past(object.fetch)'
  BY <1>1 DEF OrderKept, Readable, Carried, Underway, Past
<1>4. Holds(object.fetch, measured) /\ Past(object.fetch)
  BY <1>1, <1>3 DEF OrderKept, Carried, Underway
<1>5. object.fetch \in Histories /\ DOMAIN object.fetch \in SUBSET Times
  BY <1>0, DomainOfHistory DEF Stores
<1>6. \A u \in DOMAIN object.fetch : u < now
  BY <1>0, <1>1, <1>4, <1>5 DEF Past, Times
<1>7. Holds(object'.fetch, Newest(Append(measured, v)))
  BY <1>0, <1>2, <1>4, <1>5, <1>6, NewValueIsNewest
<1>8. \A u \in DOMAIN object'.fetch : u \in DOMAIN object.fetch \cup {now}
  BY <1>2 DEF WithValue, Prune, WithEntry, Restrict
<1>9. Past(object.fetch)'
  BY <1>0, <1>1, <1>4, <1>8 DEF Past, Times
<1>. QED
  BY <1>7, <1>9

LEMMA RenameIsInOrder ==
  ASSUME OrderKept, StoreTyped, Rename
  PROVE  OrderKept'
<1>0. object \in Stores
  BY DEF StoreTyped, TypeOK
<1>1. /\ pc = "rename" /\ file' = object /\ pc' = after /\ Readable'
      /\ UNCHANGED <<object, after, now, setBack, fetched>>
  BY <1>0, NoFileIsNoStore DEF Rename, run, clock, Readable
<1>2. SUFFICES ASSUME ~setBack
               PROVE  Holds(object.fetch, measured') /\ Past(object.fetch) /\ ~Underway'
  BY <1>1 DEF OrderKept, Carried, Past, Holds, Upto
<1>3. Holds(object.fetch, Carried) /\ Past(object.fetch)
  BY <1>1, <1>2 DEF OrderKept
<1>4. measured' = Carried
  BY <1>1, <1>2 DEF Rename, Carried, Underway
<1>5. ~Underway'
  BY <1>1 DEF Underway, StoreTyped, TypeOK
<1>. QED
  BY <1>3, <1>4, <1>5

LEMMA OrderStep == OrderKept /\ StoreTyped /\ [Next]_vars => OrderKept'
<1>. SUFFICES ASSUME OrderKept, StoreTyped, [Next]_vars PROVE OrderKept'
  OBVIOUS
<1>0. object \in Stores
  BY DEF StoreTyped, TypeOK
<1>1. CASE Load
  <2>1. /\ pc' = "testing" /\ object' = Loaded
        /\ UNCHANGED <<file, now, setBack, measured, fetched>>
    BY <1>1 DEF Load, run, clock
  <2>. QED
    BY <2>1, LoadedIsInOrder DEF OrderKept, Carried, Underway, Past, Readable
<1>2. ASSUME NEW v \in FetchTimes, AddValue(v) PROVE OrderKept'
  BY <1>2, FetchIsInOrder
<1>3. CASE NotJudged \/ WriteTemp
  <2>1. /\ pc # "idle" /\ Underway' = Underway
        /\ UNCHANGED <<file, object, now, setBack, measured, fetched>>
    BY <1>3 DEF NotJudged, WriteTemp, run, clock, Underway
  <2>. QED
    BY <2>1, OrderStays
<1>4. CASE Judge
  <2>1. /\ pc # "idle" /\ Underway' = Underway
        /\ UNCHANGED <<file, now, setBack, measured, fetched>>
    BY <1>4 DEF Judge, DumpIf, clock, Underway
  <2>2. object'.fetch = object.fetch
    BY <1>0, <1>4 DEF Judge, Stores
  <2>. QED
    BY <2>1, <2>2, OrderStays
<1>5. CASE AddRotation
  <2>1. /\ pc # "idle" /\ Underway' = Underway
        /\ UNCHANGED <<file, object, now, setBack, measured, fetched>>
    BY <1>5 DEF AddRotation, DumpIf, run, clock, Underway
  <2>. QED
    BY <2>1, OrderStays
<1>6. ASSUME NEW state \in {"in", "out"}, SetState(state) PROVE OrderKept'
  <2>1. /\ pc # "idle" /\ Underway' = Underway
        /\ UNCHANGED <<file, now, setBack, measured, fetched>>
    BY <1>6 DEF SetState, DumpIf, run, clock, Underway
  <2>2. object'.fetch = object.fetch
    BY <1>0, <1>6 DEF SetState, Stores
  <2>. QED
    BY <2>1, <2>2, OrderStays
<1>7. ASSUME NEW mode \in ModesAsked, SetMode(mode) PROVE OrderKept'
  <2>1. /\ pc' = "dump" /\ after' = "set"
        /\ UNCHANGED <<file, now, setBack, measured, fetched>>
    BY <1>7 DEF SetMode, DumpIf, run, clock
  <2>2. Loaded \in Stores
    BY LoadedIsAStore DEF StoreTyped
  <2>3. object'.fetch = Loaded.fetch
    BY <1>7, <2>2 DEF SetMode, Stores
  <2>. QED
    BY <2>1, <2>3, LoadedIsInOrder DEF OrderKept, Carried, Underway, Past, Readable
<1>8. CASE Rename
  BY <1>8, RenameIsInOrder
<1>9. CASE Exit \/ Kill
  BY <1>9 DEF Exit, Kill, clock, OrderKept, Past, Readable
<1>10. CASE Tick
  <2>1. now' = now + 1 /\ UNCHANGED <<file, pc, object, after, setBack, measured, fetched>>
    BY <1>10 DEF Tick, run
  <2>2. \A t \in Times : t <= now => t <= now'
    BY <2>1 DEF Times, StoreTyped, TypeOK
  <2>3. object.fetch \in Histories /\ (Readable => file.fetch \in Histories)
    BY <1>0 DEF Stores, StoreTyped, TypeOK, Readable
  <2>4. Past(object.fetch) => Past(object.fetch)'
    BY <2>1, <2>2, <2>3, DomainOfHistory DEF Past
  <2>5. Readable /\ Past(file.fetch) => Past(file.fetch)'
    BY <2>1, <2>2, <2>3, DomainOfHistory DEF Past
  <2>. QED
    BY <2>1, <2>4, <2>5 DEF OrderKept, Carried, Underway, Readable, Holds, Upto
<1>11. CASE SetClockBack
  BY <1>11 DEF SetClockBack, OrderKept
<1>12. CASE UNCHANGED vars
  BY <1>12 DEF vars, OrderKept, Carried, Underway, Readable, Past, Holds, Upto
<1>. QED
  BY <1>1, <1>2, <1>3, <1>4, <1>5, <1>6, <1>7, <1>8, <1>9, <1>10, <1>11, <1>12 DEF Next

(* While the clock only advances, an edgestore holds the newest fetches of *)
(* all runs, each once and in order, wherever the runs and the operators'  *)
(* commands were killed (HistoryIsNewest).                                 *)
THEOREM HistoriesAreNewest == Spec => []HistoryIsNewest
<1>1. Init => OrderKept
  BY DEF Init, OrderKept, Readable
<1>2. OrderKept => HistoryIsNewest
  BY DEF OrderKept, HistoryIsNewest, Holds, Upto
<1>. QED
  BY TypeInit, TypeStep, <1>1, OrderStep, <1>2, PTL DEF Spec

-----------------------------------------------------------------------------
(* Sums over a history.  A sum is the value, at the whole set, of a        *)
(* function on its subsets; that there is such a function, and what it     *)
(* gives, is shown by looking at a smallest subset where it fails.         *)
PickOne(s) == CHOOSE x \in s : TRUE
SumsOf(iter, f, D) ==
  iter = [s \in D |-> IF s = {} THEN 0 ELSE f[PickOne(s)] + iter[s \ {PickOne(s)}]]

(* Subsets of at most n elements; their rests are among them.              *)
SubsetsUpTo(S, n) == {s \in SUBSET S : Cardinality(s) <= n}

LEMMA RestIsSmaller ==
  ASSUME NEW S, IsFiniteSet(S), NEW s \in SUBSET S, s # {}
  PROVE  /\ PickOne(s) \in s /\ s \ {PickOne(s)} \in SUBSET S
         /\ Cardinality(s) \in Nat /\ Cardinality(s) # 0
         /\ Cardinality(s \ {PickOne(s)}) = Cardinality(s) - 1
<1>1. IsFiniteSet(s) /\ PickOne(s) \in s
  BY FS_Subset DEF PickOne
<1>. QED
  BY <1>1, FS_CardinalityType, FS_EmptySet, FS_RemoveElement

(* Sums of n elements are defined once those of fewer are.                 *)
LEMMA SumsGrow ==
  ASSUME NEW S, IsFiniteSet(S), NEW f, NEW n \in Nat, n # 0,
         NEW iter, SumsOf(iter, f, SubsetsUpTo(S, n - 1))
  PROVE  \E next : SumsOf(next, f, SubsetsUpTo(S, n))
<1>. DEFINE next == [s \in SubsetsUpTo(S, n) |->
                       IF s = {} THEN 0 ELSE f[PickOne(s)] + iter[s \ {PickOne(s)}]]
<1>1. ASSUME NEW s \in SubsetsUpTo(S, n), s # {}
      PROVE  s \ {PickOne(s)} \in SubsetsUpTo(S, n - 1) \cap SubsetsUpTo(S, n)
  BY <1>1, RestIsSmaller DEF SubsetsUpTo
<1>2. ASSUME NEW s \in SubsetsUpTo(S, n - 1) \cap SubsetsUpTo(S, n) PROVE next[s] = iter[s]
  BY DEF SumsOf
<1>3. \A s \in SubsetsUpTo(S, n) : s # {} =>
        next[s \ {PickOne(s)}] = iter[s \ {PickOne(s)}]
  BY <1>1, <1>2
<1>4. SumsOf(next, f, SubsetsUpTo(S, n))
  BY <1>3 DEF SumsOf
<1>. QED
  BY <1>4

LEMMA SumsExist ==
  ASSUME NEW S, IsFiniteSet(S), NEW f
  PROVE  \E iter : SumsOf(iter, f, SUBSET S)
<1>. DEFINE Bad == {n \in Nat : ~\E iter : SumsOf(iter, f, SubsetsUpTo(S, n))}
<1>1. Bad = {}
  <2>1. SUFFICES ASSUME Bad # {} PROVE FALSE
    OBVIOUS
  <2>2. PICK n \in Bad : \A m \in Bad : n <= m
    <3>1. Bad \in SUBSET Nat
      OBVIOUS
    <3>. HIDE DEF Bad
    <3>. QED
      BY <2>1, <3>1, LeastNumber
  <2>3. CASE n = 0
    <3>1. SubsetsUpTo(S, 0) = {{}}
      <4>1. {} \in SubsetsUpTo(S, 0)
        BY FS_EmptySet DEF SubsetsUpTo
      <4>2. ASSUME NEW s \in SubsetsUpTo(S, 0), s # {} PROVE FALSE
        <5>1. s \in SUBSET S /\ Cardinality(s) <= 0
          BY DEF SubsetsUpTo
        <5>2. Cardinality(s) \in Nat /\ Cardinality(s) # 0
          BY <4>2, <5>1, RestIsSmaller
        <5>. QED
          BY <5>1, <5>2
      <4>. QED
        BY <4>1, <4>2
    <3>2. SumsOf([s \in {{}} |-> 0], f, {{}})
      BY DEF SumsOf
    <3>. QED
      BY <2>2, <2>3, <3>1, <3>2
  <2>4. CASE n # 0
    <3>1. n - 1 \in Nat /\ n - 1 \notin Bad
      BY <2>2, <2>4
    <3>2. PICK iter : SumsOf(iter, f, SubsetsUpTo(S, n - 1))
      BY <3>1
    <3>3. \E next : SumsOf(next, f, SubsetsUpTo(S, n))
      BY <2>4, <3>2, SumsGrow
    <3>. QED
      BY <3>3
  <2>. QED
    BY <2>3, <2>4
<1>2. Cardinality(S) \in Nat
  BY FS_CardinalityType
<1>3. SubsetsUpTo(S, Cardinality(S)) = SUBSET S
  BY FS_Subset DEF SubsetsUpTo
<1>4. \E iter : SumsOf(iter, f, SubsetsUpTo(S, Cardinality(S)))
  BY <1>1, <1>2
<1>. QED
  BY <1>3, <1>4

LEMMA SumIsSums ==
  ASSUME NEW S, IsFiniteSet(S), NEW f
  PROVE  \E iter : SumsOf(iter, f, SUBSET S) /\ SumFunctionOnSet(f, S) = iter[S]
<1>1. SumFunctionOnSet(f, S) = (CHOOSE iter : SumsOf(iter, f, SUBSET S))[S]
  BY DEF SumFunctionOnSet, FoldFunctionOnSet, MapThenFoldSet, SumsOf, PickOne
<1>2. \E iter : SumsOf(iter, f, SUBSET S)
  BY SumsExist
<1>. QED
  BY <1>1, <1>2

(* A sum of smaller values is not larger.                                  *)
LEMMA SumIsMonotonic ==
  ASSUME NEW S, IsFiniteSet(S), NEW f, NEW g,
         \A u \in S : f[u] \in Nat /\ g[u] \in Nat /\ g[u] <= f[u]
  PROVE  /\ SumFunctionOnSet(f, S) \in Nat /\ SumFunctionOnSet(g, S) \in Nat
         /\ SumFunctionOnSet(g, S) <= SumFunctionOnSet(f, S)
<1>1. PICK i : SumsOf(i, f, SUBSET S) /\ SumFunctionOnSet(f, S) = i[S]
  BY SumIsSums
<1>2. PICK j : SumsOf(j, g, SUBSET S) /\ SumFunctionOnSet(g, S) = j[S]
  BY SumIsSums
<1>. DEFINE Fine(s) == i[s] \in Nat /\ j[s] \in Nat /\ j[s] <= i[s]
            Bad == {Cardinality(s) : s \in {t \in SUBSET S : ~Fine(t)}}
<1>3. \A s \in SUBSET S : Fine(s)
  <2>1. SUFFICES ASSUME NEW r \in SUBSET S, ~Fine(r) PROVE FALSE
    OBVIOUS
  <2>2. Bad # {} /\ Bad \in SUBSET Nat
    <3>1. \A s \in SUBSET S : Cardinality(s) \in Nat
      BY FS_Subset, FS_CardinalityType
    <3>2. Cardinality(r) \in Bad
      BY <2>1
    <3>. QED
      BY <3>1, <3>2
  <2>3. PICK n \in Bad : \A m \in Bad : n <= m
    <3>. HIDE DEF Bad
    <3>. QED
      BY <2>2, LeastNumber
  <2>4. PICK s \in SUBSET S : ~Fine(s) /\ \A t \in SUBSET S : ~Fine(t) => Cardinality(s) <= Cardinality(t)
    BY <2>3
  <2>5. CASE s = {}
    BY <1>1, <1>2, <2>4, <2>5 DEF SumsOf
  <2>6. CASE s # {}
    <3>. DEFINE x == PickOne(s)
                rest == s \ {x}
    <3>1. x \in S /\ rest \in SUBSET S /\ Cardinality(rest) < Cardinality(s)
          /\ Cardinality(rest) \in Nat /\ Cardinality(s) \in Nat
      BY <2>6, RestIsSmaller
    <3>2. Fine(rest)
      BY <2>4, <3>1
    <3>3. i[s] = f[x] + i[rest] /\ j[s] = g[x] + j[rest]
      BY <1>1, <1>2, <2>6 DEF SumsOf
    <3>4. f[x] \in Nat /\ g[x] \in Nat /\ g[x] <= f[x]
      BY <3>1
    <3>. HIDE DEF x, rest
    <3>. QED
      BY <2>4, <3>2, <3>3, <3>4
  <2>. QED
    BY <2>5, <2>6
<1>. QED
  BY <1>1, <1>2, <1>3

-----------------------------------------------------------------------------
(* A faster fetch. *)

(* An average that was good enough stays so when a value gets smaller.     *)
LEMMA AverageStaysGood ==
  ASSUME NEW f, NEW g, NEW S \in SUBSET Times,
         \A u \in S : f[u] \in Nat /\ g[u] \in Nat /\ g[u] <= f[u],
         AverageIsGood(f, S)
  PROVE  AverageIsGood(g, S)
<1>. DEFINE limit == GoodEnough * Cardinality(S)
<1>1. IsFiniteSet(S) /\ limit \in Nat
  BY TimesAreFinite, TimesAreNumbers
<1>2. SumFunctionOnSet(f, S) < limit
  BY DEF AverageIsGood
<1>3. /\ SumFunctionOnSet(f, S) \in Nat /\ SumFunctionOnSet(g, S) \in Nat
      /\ SumFunctionOnSet(g, S) <= SumFunctionOnSet(f, S)
  BY <1>1, SumIsMonotonic
<1>. HIDE DEF limit
<1>4. SumFunctionOnSet(g, S) < limit
  BY <1>1, <1>2, <1>3
<1>. QED
  BY <1>4 DEF AverageIsGood, limit

(* check_threshold never ranks the history with the faster last fetch      *)
(* behind the other.                                                       *)
LEMMA FasterRanksNoWorse ==
  ASSUME NEW f \in Histories, DOMAIN f # {}, LastValue(f) <= FetchTimeout,
         NEW t \in Times, NEW v \in FetchTimes, v <= LastValue(f)
  PROVE  Rank(Judgement([f EXCEPT ![Last(DOMAIN f)] = v], t)) <= Rank(Judgement(f, t))
<1>. DEFINE l == Last(DOMAIN f)
            g == [f EXCEPT ![l] = v]
<1>. SUFFICES Rank(Judgement(g, t)) <= Rank(Judgement(f, t))
  OBVIOUS
<1>1. DOMAIN f \in SUBSET Times /\ \A u \in DOMAIN f : f[u] \in Nat
  BY TimesAreNumbers DEF Histories
<1>2. l \in DOMAIN f
  BY <1>1, FirstAndLast
<1>3. /\ DOMAIN g = DOMAIN f /\ LastValue(g) = v /\ LastValue(f) = f[l]
      /\ Slice(g, t) = Slice(f, t)
  BY <1>2 DEF LastValue, Slice
<1>4. \A u \in DOMAIN f : f[u] \in Nat /\ g[u] \in Nat /\ g[u] <= f[u]
  BY <1>1, <1>2, <1>3, TimesAreNumbers
<1>5. Slice(f, t) \in SUBSET DOMAIN f
  BY DEF Slice
<1>6. AverageIsGood(f, DOMAIN f) => AverageIsGood(g, DOMAIN f)
  BY <1>1, <1>4, AverageStaysGood
<1>7. AverageIsGood(f, Slice(f, t)) => AverageIsGood(g, Slice(f, t))
  BY <1>1, <1>4, <1>5, AverageStaysGood
<1>8. LastValue(f) \in Nat /\ v \in Nat /\ GoodEnough \in Nat /\ FetchTimeout \in Nat
  BY <1>1, <1>2, <1>3, TimesAreNumbers
<1>. HIDE DEF g, l
<1>9. /\ \A h : Rank(h) \in 1 .. 5
      /\ Rank("pass_threshold") = 1 /\ Rank("pass_window") = 2
      /\ Rank("pass_average") = 3 /\ Rank("pass") = 4 /\ Rank("fail") = 5
  BY DEF Rank, FailRank
<1>10. CASE v < GoodEnough
  <2>1. Judgement(g, t) = "pass_threshold"
    BY <1>3, <1>10 DEF Judgement
  <2>2. Rank(Judgement(f, t)) \in 1 .. 5 /\ Rank(Judgement(g, t)) = 1
    BY <1>9, <2>1
  <2>. QED
    BY <2>2
<1>11. CASE ~(v < GoodEnough) /\ LastValue(f) = FetchTimeout
  <2>1. Judgement(f, t) = "fail"
    BY <1>8, <1>11 DEF Judgement
  <2>2. Rank(Judgement(f, t)) = 5 /\ Rank(Judgement(g, t)) \in 1 .. 5
    BY <1>9, <2>1
  <2>. QED
    BY <2>2
<1>12. CASE ~(v < GoodEnough) /\ LastValue(f) # FetchTimeout
  <2>1. ~(LastValue(f) < GoodEnough) /\ v # FetchTimeout
    BY <1>8, <1>12
  <2>. DEFINE windowed(h) == Slice(f, t) # {} /\ AverageIsGood(h, Slice(f, t))
              averaged(h) == AverageIsGood(h, DOMAIN f)
  <2>2. Judgement(f, t) = IF windowed(f) THEN "pass_window"
                          ELSE IF averaged(f) THEN "pass_average" ELSE "pass"
    BY <1>12, <2>1 DEF Judgement
  <2>3. Judgement(g, t) = IF windowed(g) THEN "pass_window"
                          ELSE IF averaged(g) THEN "pass_average" ELSE "pass"
    BY <1>3, <1>12, <2>1 DEF Judgement
  <2>4. (windowed(f) => windowed(g)) /\ (averaged(f) => averaged(g))
    BY <1>6, <1>7
  <2>. HIDE DEF windowed, averaged
  <2>. QED
    BY <1>9, <2>2, <2>3, <2>4
<1>. QED
  BY <1>10, <1>11, <1>12

(* A history that a value has entered is not empty, even if it was pruned. *)
LEMMA SomethingIsKept ==
  ASSUME NEW f \in Histories, NEW t \in Times, NEW v
  PROVE  DOMAIN WithValue(f, t, v) # {}
<1>. DEFINE D == DOMAIN f \cup {t}
<1>1. D \in SUBSET Times /\ D # {}
  BY DomainOfHistory
<1>2. DOMAIN WithEntry(f, t, v) = D
  BY DEF WithEntry
<1>3. CASE Cardinality(D) > FetchHistory
  <2>1. DOMAIN WithValue(f, t, v) = D \ {First(D)}
    BY <1>2, <1>3 DEF WithValue, Prune, Restrict
  <2>2. IsFiniteSet(D) /\ First(D) \in D
    BY <1>1, TimesAreFinite, FirstAndLast
  <2>3. Cardinality(D \ {First(D)}) = Cardinality(D) - 1
    BY <2>2, FS_RemoveElement
  <2>4. Cardinality(D \ {First(D)}) # 0
    BY <1>1, <1>3, <2>3, TimesAreFinite, HistoryIsKept
  <2>. QED
    BY <2>1, <2>4, FS_EmptySet
<1>4. CASE ~(Cardinality(D) > FetchHistory)
  BY <1>1, <1>2, <1>4 DEF WithValue, Prune
<1>. QED
  BY <1>3, <1>4

FetchIsKept == Fetched => DOMAIN object.fetch # {}

LEMMA FetchIsKeptStep == FetchIsKept /\ StoreTyped /\ [Next]_vars => FetchIsKept'
<1>. SUFFICES ASSUME FetchIsKept, StoreTyped, [Next]_vars PROVE FetchIsKept'
  OBVIOUS
<1>0. object \in Stores /\ now \in Times
  BY DEF StoreTyped, TypeOK
<1>1. ASSUME NEW v \in FetchTimes, AddValue(v) PROVE FetchIsKept'
  <2>1. object'.fetch = WithValue(object.fetch, now, v) /\ object.fetch \in Histories
    BY <1>0, <1>1 DEF AddValue, Stores
  <2>. QED
    BY <1>0, <2>1, SomethingIsKept DEF FetchIsKept
<1>2. CASE WriteTemp \/ Rename
  BY <1>2 DEF WriteTemp, Rename, FetchIsKept, Fetched
<1>3. CASE Load \/ NotJudged \/ Judge \/ AddRotation \/ Exit \/ Kill
  BY <1>3 DEF Load, NotJudged, Judge, AddRotation, Exit, Kill, DumpIf, FetchIsKept, Fetched
<1>4. ASSUME NEW state \in {"in", "out"}, SetState(state) PROVE FetchIsKept'
  BY <1>4 DEF SetState, DumpIf, FetchIsKept, Fetched
<1>5. ASSUME NEW mode \in ModesAsked, SetMode(mode) PROVE FetchIsKept'
  BY <1>5 DEF SetMode, DumpIf, FetchIsKept, Fetched
<1>6. CASE Tick \/ SetClockBack \/ UNCHANGED vars
  BY <1>6 DEF Tick, SetClockBack, vars, FetchIsKept, Fetched
<1>. QED
  BY <1>1, <1>2, <1>3, <1>4, <1>5, <1>6 DEF Next

(* With the same past, a faster last fetch never makes the judgement       *)
(* worse, for every history, window, threshold and timeout: the order of   *)
(* check_threshold's tests is right (FasterIsNeverWorse).                  *)
THEOREM FasterIsRankedNoWorse == Spec => []FasterIsNeverWorse
<1>1. Init => FetchIsKept
  BY DEF Init, FetchIsKept, Fetched
<1>2. FetchIsKept /\ StoreTyped => FasterIsNeverWorse
  BY FasterRanksNoWorse DEF FetchIsKept, Fetched, StoreTyped, TypeOK, Stores, FasterIsNeverWorse
<1>. QED
  BY TypeInit, TypeStep, <1>1, FetchIsKeptStep, <1>2, PTL DEF Spec
=============================================================================
