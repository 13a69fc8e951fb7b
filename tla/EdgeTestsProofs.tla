--------------------------- MODULE EdgeTestsProofs ---------------------------
(***************************************************************************)
(* What the tests of a run come to for every number of hosts and workers   *)
(* and every limit of the canary killer, in whatever order fetches end.    *)
(***************************************************************************)
EXTENDS EdgeTests, FiniteSetTheorems, WellFoundedInduction, TLAPS

(* Edges and canaries are submitted one after the other: no host is both.  *)
LEMMA NoHostIsBoth == Edges \cap CanaryHosts = {}
BY HostsAreOrdered DEF Hosts

LEMMA HostsAreFinite ==
  ASSUME NEW S \in SUBSET Hosts
  PROVE  IsFiniteSet(S) /\ Cardinality(S) \in Nat
<1>1. IsFiniteSet(S)
  BY HostsAreOrdered, FS_Subset
<1>. QED
  BY <1>1, FS_CardinalityType

(* A canary is named once at least, and not more often than there are      *)
(* zones.                                                                  *)
LEMMA EntriesAreCounted ==
  /\ Cardinality(Zones) \in Nat
  /\ \A h \in Hosts : Entries(h) \in 0 .. Cardinality(Zones)
  /\ \A c \in CanaryHosts : Entries(c) >= 1
<1>1. Cardinality(Zones) \in Nat
  BY CanaryFileIsFinite, FS_CardinalityType
<1>2. ASSUME NEW h PROVE Entries(h) \in 0 .. Cardinality(Zones)
  <2>. DEFINE named == {z \in Zones : CanaryData[z] = h}
  <2>1. IsFiniteSet(named) /\ Cardinality(named) <= Cardinality(Zones)
    BY CanaryFileIsFinite, FS_Subset
  <2>2. Cardinality(named) \in Nat
    BY <2>1, FS_CardinalityType
  <2>. QED
    BY <1>1, <2>1, <2>2 DEF Entries
<1>3. ASSUME NEW c \in CanaryHosts PROVE Entries(c) >= 1
  <2>. DEFINE named == {z \in Zones : CanaryData[z] = c}
  <2>1. named # {}
    BY DEF CanaryHosts
  <2>2. IsFiniteSet(named)
    BY CanaryFileIsFinite, FS_Subset
  <2>3. Cardinality(named) \in Nat /\ Cardinality(named) # 0
    BY <2>1, <2>2, FS_CardinalityType, FS_EmptySet
  <2>. QED
    BY <2>3 DEF Entries
<1>. QED
  BY <1>1, <1>2, <1>3

-----------------------------------------------------------------------------
(* The books the main thread keeps. *)

(* Available canaries whose result has been consumed, and those of them    *)
(* that timed out: what the killer counts.                                 *)
Measured == {c \in CanaryHosts \ Unavailable : future[c] = "consumed"}
Failures == {c \in Measured : result[c] = "timeout"}

(* An edge has a value once its result is consumed, and is never given up. *)
EdgeBooks ==
  \A e \in Edges :
     /\ future[e] # "cancelled"
     /\ values[e] = IF future[e] = "consumed" THEN 1 ELSE 0

(* So has a canary until the killer strikes, which gives those it has not  *)
(* judged one for each entry; one more comes from a fetch that returns.    *)
CanaryBooks ==
  \A c \in CanaryHosts :
     /\ ~edgesDisabled => /\ future[c] # "cancelled"
                          /\ values[c] = IF future[c] = "consumed" THEN 1 ELSE 0
                          /\ future[c] = "consumed" => last[c] = result[c]
     /\ edgesDisabled =>
          \/ future[c] # "consumed" /\ values[c] = Entries(c)
          \/ future[c] = "consumed" /\ c \in Unavailable /\ values[c] = Entries(c) + 1
          \/ /\ future[c] = "consumed" /\ c \notin Unavailable
             /\ values[c] \in {1, Entries(c) + 1} /\ last[c] = result[c]

(* The judged canaries are the measured ones, or all of them.              *)
JudgedBooks == judgedCanaries = IF edgesDisabled THEN CanaryHosts ELSE Measured

(* The killer has struck exactly if what it counts has reached its limit.  *)
KillerBooks ==
  edgesDisabled <=> (CanaryKiller # 0 /\ Cardinality(Failures) >= CanaryKiller)

DoneBooks == done => Complete = Hosts

Books ==
  /\ TypeOK /\ EdgeBooks /\ CanaryBooks /\ JudgedBooks /\ KillerBooks /\ DoneBooks

LEMMA BooksInit == Init => Books
<1>. SUFFICES ASSUME Init PROVE Books
  OBVIOUS
<1>1. TypeOK
  <2>1. values \in [Hosts -> 0 .. 1 + Cardinality(Zones)]
    BY EntriesAreCounted DEF Init
  <2>2. result \in [Hosts -> Results \cup {Nothing}] /\ last \in [Hosts -> Results \cup {Nothing}]
    BY DEF Init
  <2>3. judgedEdges \in SUBSET Edges /\ judgedCanaries \in SUBSET CanaryHosts
    BY DEF Init
  <2>. QED
    BY <2>1, <2>2, <2>3 DEF Init, TypeOK
<1>2. \A h \in Hosts : future[h] = "queued" /\ values[h] = 0
  BY DEF Init
<1>3. EdgeBooks /\ CanaryBooks /\ DoneBooks
  BY <1>2 DEF Init, EdgeBooks, CanaryBooks, DoneBooks, Hosts
<1>4. Measured = {} /\ Failures = {}
  BY <1>2 DEF Measured, Failures, Hosts
<1>5. JudgedBooks
  BY <1>4 DEF Init, JudgedBooks
<1>6. Cardinality(Failures) = 0
  BY <1>4, FS_EmptySet
<1>7. KillerBooks
  BY <1>6, PoolIsAPool DEF Init, KillerBooks
<1>. QED
  BY <1>1, <1>3, <1>5, <1>7 DEF Books

(* A worker touches neither books nor what they are about.                 *)
LEMMA WorkerStep ==
  ASSUME Books, NEW h \in Hosts, Worker(h)
  PROVE  Books'
<1>. DEFINE states == {"queued", "entering", "connecting", "leaving", "finished"}
<1>1. UNCHANGED <<values, last, judgedEdges, judgedCanaries, edgesDisabled, done>>
  BY DEF Worker, TakeUp, EnterOverride, Connect, LeaveOverride, FailToResolve, stores,
         judgements
<1>2. PICK s \in states : future' = [future EXCEPT ![h] = s]
  BY DEF Worker, TakeUp, EnterOverride, Connect, LeaveOverride, FailToResolve
<1>3. future[h] \in states
  BY DEF Worker, TakeUp, EnterOverride, Connect, LeaveOverride, FailToResolve
<1>4. result' \in [Hosts -> Results \cup {Nothing}] /\ \A g \in Hosts \ {h} : result'[g] = result[g]
  BY DEF Books, TypeOK, Worker, TakeUp, EnterOverride, Connect, LeaveOverride, FailToResolve,
         Results
<1>5. getaddrinfo' \in Hosts \cup {System} /\ saved' \in [Hosts -> Hosts \cup {System}]
  BY DEF Books, TypeOK, Worker, TakeUp, EnterOverride, Connect, LeaveOverride, FailToResolve,
         resolution
<1>6. future \in [Hosts -> states \cup {"consumed", "cancelled"}]
  BY DEF Books, TypeOK
<1>7. \A g \in Hosts : /\ future'[g] = "consumed" <=> future[g] = "consumed"
                       /\ future'[g] = "cancelled" <=> future[g] = "cancelled"
                       /\ future[g] = "consumed" => result'[g] = result[g]
  BY <1>2, <1>3, <1>4, <1>6
<1>8. future' \in [Hosts -> states \cup {"consumed", "cancelled"}]
  BY <1>2, <1>6
<1>. HIDE DEF states
<1>9. TypeOK'
  BY <1>1, <1>4, <1>5, <1>8 DEF Books, TypeOK, states
<1>10. EdgeBooks'
  BY <1>1, <1>7 DEF Books, EdgeBooks, Hosts
<1>11. CanaryBooks'
  BY <1>1, <1>7 DEF Books, CanaryBooks, Hosts
<1>12. Measured' = Measured /\ Failures' = Failures
  BY <1>7 DEF Measured, Failures, Hosts
<1>13. JudgedBooks' /\ KillerBooks'
  BY <1>1, <1>12 DEF Books, JudgedBooks, KillerBooks
<1>14. DoneBooks'
  BY <1>1, <1>7 DEF Books, DoneBooks, Complete, In
<1>. QED
  BY <1>9, <1>10, <1>11, <1>13, <1>14 DEF Books

(* What the killer counts when a result is taken: the failures so far, and *)
(* this one.                                                               *)
LEMMA KillerCounts ==
  ASSUME Books, NEW h \in Hosts, future[h] = "finished", ~edgesDisabled
  PROVE  {c \in CanariesWith(h) : Added(h)[c] = "timeout"}
           = {c \in CanaryHosts \ Unavailable :
                (future[c] = "consumed" \/ c = h) /\ result[c] = "timeout"}
<1>1. CanariesWith(h) = {c \in CanaryHosts \ Unavailable : future[c] = "consumed" \/ c = h}
  BY DEF Books, JudgedBooks, Measured, CanariesWith, Judgeable
<1>2. \A c \in CanariesWith(h) : Added(h)[c] = result[c]
  <2>1. Added(h) = [last EXCEPT ![h] = result[h]] /\ last \in [Hosts -> Results \cup {Nothing}]
    BY DEF Added, Books, TypeOK
  <2>2. \A c \in CanaryHosts : c \in Hosts /\ (future[c] = "consumed" => last[c] = result[c])
    BY DEF Books, CanaryBooks, Hosts
  <2>. QED
    BY <1>1, <2>1, <2>2
<1>. QED
  BY <1>1, <1>2

LEMMA ConsumeStep ==
  ASSUME Books, NEW h \in Hosts, Consume(h)
  PROVE  Books'
<1>. USE NoHostIsBoth
<1>1. /\ future[h] = "finished" /\ ~KillLimitHit(h)
      /\ future' = [future EXCEPT ![h] = "consumed"]
      /\ judgedCanaries' = CanariesWith(h)
      /\ values' = [values EXCEPT ![h] = @ + 1]
      /\ last' = [last EXCEPT ![h] = result[h]]
      /\ judgedEdges' = judgedEdges \cup Judgeable(h, Edges)
      /\ UNCHANGED <<getaddrinfo, saved, result, edgesDisabled, done>>
  BY DEF Consume, TakeResult, Added, resolution
<1>2. values[h] \in 0 .. Cardinality(Zones)
  <2>1. h \in Edges \/ ~edgesDisabled => values[h] = 0
    BY <1>1 DEF Books, EdgeBooks, CanaryBooks, Hosts
  <2>2. h \in CanaryHosts /\ edgesDisabled => values[h] = Entries(h)
    BY <1>1 DEF Books, CanaryBooks
  <2>3. h \in Edges \/ h \in CanaryHosts
    BY DEF Hosts
  <2>4. edgesDisabled \in BOOLEAN
    BY DEF Books, TypeOK
  <2>. QED
    BY <2>1, <2>2, <2>3, <2>4, EntriesAreCounted
<1>3. \A g \in Hosts : /\ future'[g] = IF g = h THEN "consumed" ELSE future[g]
                       /\ values'[g] = IF g = h THEN values[g] + 1 ELSE values[g]
                       /\ last'[g] = IF g = h THEN result[g] ELSE last[g]
  BY <1>1 DEF Books, TypeOK
<1>4. TypeOK'
  <2>1. values' \in [Hosts -> 0 .. 1 + Cardinality(Zones)]
    BY <1>1, <1>2, EntriesAreCounted DEF Books, TypeOK
  <2>2. judgedEdges' \in SUBSET Edges /\ judgedCanaries' \in SUBSET CanaryHosts
    BY <1>1 DEF Books, TypeOK, Judgeable, CanariesWith
  <2>3. last' \in [Hosts -> Results \cup {Nothing}]
    BY <1>1 DEF Books, TypeOK
  <2>. QED
    BY <1>1, <2>1, <2>2, <2>3 DEF Books, TypeOK
<1>5. EdgeBooks'
  BY <1>1, <1>3 DEF Books, EdgeBooks, Hosts
<1>6. CanaryBooks'
  <2>1. ASSUME NEW c \in CanaryHosts, c # h
        PROVE  /\ future'[c] = future[c] /\ values'[c] = values[c]
               /\ last'[c] = last[c] /\ result'[c] = result[c]
    BY <1>1, <1>3, <2>1 DEF Hosts
  <2>2. ASSUME h \in CanaryHosts
        PROVE  /\ future[h] # "consumed" /\ future'[h] = "consumed"
               /\ values'[h] = values[h] + 1 /\ last'[h] = result'[h]
    BY <1>1, <1>3
  <2>3. ASSUME h \in CanaryHosts
        PROVE  values[h] = IF edgesDisabled THEN Entries(h) ELSE 0
    BY <2>2, <2>3 DEF Books, CanaryBooks
  <2>. QED
    BY <1>1, <2>1, <2>2, <2>3 DEF Books, CanaryBooks
<1>7. JudgedBooks'
  <2>1. Measured' = Measured \cup Judgeable(h, CanaryHosts)
    BY <1>3 DEF Measured, Judgeable, Hosts
  <2>. QED
    BY <1>1, <2>1 DEF Books, JudgedBooks, CanariesWith, Judgeable
<1>8. KillerBooks'
  <2>1. Failures' = {c \in CanaryHosts \ Unavailable :
                       (future[c] = "consumed" \/ c = h) /\ result[c] = "timeout"}
    BY <1>1, <1>3 DEF Failures, Measured, Hosts
  <2>2. CASE edgesDisabled
    <3>1. Failures \subseteq Failures' /\ Failures' \in SUBSET Hosts
      BY <2>1 DEF Failures, Measured, Hosts
    <3>2. IsFiniteSet(Failures') /\ Cardinality(Failures') \in Nat
          /\ Cardinality(Failures) \in Nat
      BY <3>1, HostsAreFinite
    <3>3. Cardinality(Failures) <= Cardinality(Failures')
      BY <3>1, <3>2, FS_Subset
    <3>. QED
      BY <1>1, <2>2, <3>2, <3>3, PoolIsAPool DEF Books, KillerBooks
  <2>3. CASE ~edgesDisabled
    <3>1. Failures' = {c \in CanariesWith(h) : Added(h)[c] = "timeout"}
      BY <1>1, <2>1, <2>3, KillerCounts
    <3>. QED
      BY <1>1, <2>3, <3>1 DEF KillerBooks, KillLimitHit
  <2>. QED
    BY <2>2, <2>3
<1>9. DoneBooks'
  BY <1>1, <1>3 DEF Books, DoneBooks, Complete, In
<1>. QED
  BY <1>4, <1>5, <1>6, <1>7, <1>8, <1>9 DEF Books

LEMMA KillStep ==
  ASSUME Books, NEW h \in Hosts, ConsumeAndKill(h)
  PROVE  Books'
<1>. USE NoHostIsBoth
<1>1. /\ future[h] = "finished" /\ KillLimitHit(h) /\ ~edgesDisabled /\ edgesDisabled'
      /\ judgedEdges' = judgedEdges \cup Judgeable(h, Edges)
      /\ judgedCanaries' = CanariesWith(h) \cup Untested(h)
      /\ UNCHANGED <<getaddrinfo, saved, result, done>>
  BY DEF ConsumeAndKill, TakeResult, resolution, KillLimitHit
<1>2. CanariesWith(h) = {c \in CanaryHosts \ Unavailable : future[c] = "consumed" \/ c = h}
  BY <1>1 DEF Books, JudgedBooks, Measured, CanariesWith, Judgeable
<1>3. Untested(h) = {c \in CanaryHosts : c \in Unavailable
                                          \/ (future[c] # "consumed" /\ c # h)}
  BY <1>2 DEF Untested
<1>4. \A g \in Hosts : future'[g] = IF g = h THEN "consumed"
                                    ELSE IF g \in CanaryHosts /\ future[g] = "queued"
                                    THEN "cancelled" ELSE future[g]
  BY DEF ConsumeAndKill
<1>5. \A g \in Hosts : last'[g] = IF g \in Untested(h) THEN "timeout"
                                  ELSE IF g = h THEN result[g] ELSE last[g]
  BY DEF ConsumeAndKill, Added, Books, TypeOK
<1>6. \A g \in Hosts : values'[g] = values[g] + (IF g = h THEN 1 ELSE 0)
                                              + (IF g \in Untested(h) THEN Entries(g) ELSE 0)
  BY DEF ConsumeAndKill
<1>7. \A g \in Hosts : values[g] = IF future[g] = "consumed" THEN 1 ELSE 0
  BY <1>1 DEF Books, EdgeBooks, CanaryBooks, Hosts
<1>8. CanaryBooks'
  <2>1. SUFFICES ASSUME NEW c \in CanaryHosts
                 PROVE  \/ future'[c] # "consumed" /\ values'[c] = Entries(c)
                        \/ /\ future'[c] = "consumed" /\ c \in Unavailable
                           /\ values'[c] = Entries(c) + 1
                        \/ /\ future'[c] = "consumed" /\ c \notin Unavailable
                           /\ values'[c] = 1 /\ last'[c] = result'[c]
    BY <1>1 DEF CanaryBooks
  <2>2. c \in Hosts /\ Entries(c) \in Nat
    BY EntriesAreCounted DEF Hosts
  <2>3. CASE future[c] # "consumed" /\ c # h
    <3>1. values[c] = 0 /\ c \in Untested(h) /\ future'[c] # "consumed"
      BY <1>3, <1>4, <1>7, <2>2, <2>3
    <3>. QED
      BY <1>6, <2>2, <2>3, <3>1
  <2>4. CASE future[c] = "consumed" \/ c = h
    <3>1. /\ future'[c] = "consumed" /\ (c \in Untested(h) <=> c \in Unavailable)
          /\ values[c] + (IF c = h THEN 1 ELSE 0) = 1
      BY <1>1, <1>3, <1>4, <1>7, <2>2, <2>4
    <3>2. c \notin Unavailable => last'[c] = result'[c]
      BY <1>1, <1>5, <2>2, <2>4, <3>1 DEF Books, CanaryBooks
    <3>. QED
      BY <1>6, <1>7, <2>2, <3>1, <3>2
  <2>. QED
    BY <2>3, <2>4
<1>9. EdgeBooks'
  <2>1. SUFFICES ASSUME NEW e \in Edges
                 PROVE  /\ future'[e] # "cancelled"
                        /\ values'[e] = IF future'[e] = "consumed" THEN 1 ELSE 0
    BY DEF EdgeBooks
  <2>2. e \in Hosts /\ e \notin CanaryHosts /\ e \notin Untested(h)
    BY <1>3 DEF Hosts
  <2>3. future'[e] = IF e = h THEN "consumed" ELSE future[e]
    BY <1>4, <2>2
  <2>4. values'[e] = values[e] + (IF e = h THEN 1 ELSE 0)
    BY <1>6, <1>7, <2>2
  <2>5. future[e] # "cancelled"
    BY DEF Books, EdgeBooks
  <2>. QED
    BY <1>1, <1>7, <2>2, <2>3, <2>4, <2>5
<1>10. TypeOK'
  <2>1. \A g \in Hosts : values'[g] \in 0 .. 1 + Cardinality(Zones)
    <3>1. \A c \in CanaryHosts : values'[c] \in {1, Entries(c), Entries(c) + 1}
      BY <1>1, <1>8 DEF CanaryBooks
    <3>2. \A e \in Edges : values'[e] \in {0, 1}
      BY <1>9 DEF EdgeBooks
    <3>. QED
      BY <3>1, <3>2, EntriesAreCounted DEF Hosts
  <2>2. values' \in [Hosts -> 0 .. 1 + Cardinality(Zones)]
    BY <2>1 DEF ConsumeAndKill
  <2>3. last' \in [Hosts -> Results \cup {Nothing}]
    <3>1. \A g \in Hosts : last'[g] \in Results \cup {Nothing}
      BY <1>5 DEF Books, TypeOK, Results
    <3>. QED
      BY <3>1 DEF ConsumeAndKill
  <2>4. future' \in [Hosts -> {"queued", "entering", "connecting", "leaving", "finished",
                               "consumed", "cancelled"}]
    <3>1. \A g \in Hosts : future'[g] \in {"queued", "entering", "connecting", "leaving",
                                           "finished", "consumed", "cancelled"}
      BY <1>4 DEF Books, TypeOK
    <3>. QED
      BY <3>1 DEF ConsumeAndKill
  <2>5. judgedEdges' \in SUBSET Edges /\ judgedCanaries' \in SUBSET CanaryHosts
    BY <1>1, <1>2, <1>3 DEF Books, TypeOK, Judgeable
  <2>6. edgesDisabled' \in BOOLEAN
    BY DEF ConsumeAndKill
  <2>. QED
    BY <1>1, <2>2, <2>3, <2>4, <2>5, <2>6 DEF Books, TypeOK
<1>11. JudgedBooks'
  BY <1>1, <1>2, <1>3 DEF JudgedBooks
<1>12. KillerBooks'
  <2>1. Failures' = {c \in CanaryHosts \ Unavailable :
                       (future[c] = "consumed" \/ c = h) /\ result[c] = "timeout"}
    <3>1. \A c \in CanaryHosts : future'[c] = "consumed" <=> (future[c] = "consumed" \/ c = h)
      BY <1>1, <1>4 DEF Hosts
    <3>. QED
      BY <1>1, <3>1 DEF Failures, Measured
  <2>2. Failures' = {c \in CanariesWith(h) : Added(h)[c] = "timeout"}
    BY <1>1, <2>1, KillerCounts
  <2>. QED
    BY <1>1, <2>2 DEF KillerBooks, KillLimitHit
<1>13. DoneBooks'
  <2>1. ~done
    BY <1>1 DEF Books, DoneBooks, Complete, In
  <2>. QED
    BY <1>1, <2>1 DEF DoneBooks
<1>. QED
  BY <1>8, <1>9, <1>10, <1>11, <1>12, <1>13 DEF Books

LEMMA BooksStep == Books /\ [Next]_vars => Books'
<1>. SUFFICES ASSUME Books, [Next]_vars PROVE Books'
  OBVIOUS
<1>1. CASE Finish
  <2>1. UNCHANGED <<future, getaddrinfo, saved, result, values, last, judgedEdges,
                    judgedCanaries, edgesDisabled>> /\ done' /\ Complete = Hosts
        /\ done' \in BOOLEAN
    BY <1>1 DEF Finish, resolution, stores, judgements
  <2>. QED
    BY <2>1 DEF Books, TypeOK, EdgeBooks, CanaryBooks, JudgedBooks, KillerBooks, DoneBooks,
                Measured, Failures, Complete, In
<1>2. CASE UNCHANGED vars
  BY <1>2 DEF vars, Books, TypeOK, EdgeBooks, CanaryBooks, JudgedBooks, KillerBooks, DoneBooks,
              Measured, Failures, Complete, In
<1>. QED
  BY <1>1, <1>2, WorkerStep, ConsumeStep, KillStep DEF Next

LEMMA BooksAreKept == Spec => []Books
BY BooksInit, BooksStep, PTL DEF Spec

-----------------------------------------------------------------------------
(* Futures, values and judgements keep their types; no edgestore is given  *)
(* more values in a run than one for each zone, and its measurement.       *)
THEOREM TypeCorrect == Spec => []TypeOK
<1>1. Books => TypeOK
  BY DEF Books
<1>. QED
  BY BooksAreKept, <1>1, PTL

(* The killer fails every canary or none, whatever was queued, in a        *)
(* worker's hands or finished when it struck.                              *)
THEOREM KillsAreTotal == Spec => []KillIsTotal
<1>1. Books => KillIsTotal
  <2>. SUFFICES ASSUME Books, done PROVE KillIsTotal
    BY DEF KillIsTotal
  <2>1. CASE edgesDisabled
    BY <2>1 DEF Books, JudgedBooks, KillIsTotal, Verdict
  <2>2. CASE ~edgesDisabled
    <3>1. \A c \in CanaryHosts : future[c] = "consumed"
      BY <2>2 DEF Books, CanaryBooks, DoneBooks, Complete, In, Hosts
    <3>. QED
      BY <2>2, <3>1 DEF Books, JudgedBooks, Measured, KillIsTotal
  <2>. QED
    BY <2>1, <2>2
<1>. QED
  BY BooksAreKept, <1>1, PTL

(* No host goes without a value, cancelled tests included; a canary the    *)
(* killer gave up has a timeout for each zone it serves, and no other      *)
(* measurement counts more than once.                                      *)
THEOREM EveryHostIsMeasured == Spec => []EveryHostGetsAValue
<1>1. Books => EveryHostGetsAValue
  <2>. SUFFICES ASSUME Books, done PROVE EveryHostGetsAValue
    BY DEF EveryHostGetsAValue
  <2>1. \A h \in Hosts : future[h] \in {"consumed", "cancelled"}
    BY DEF Books, DoneBooks, Complete, In
  <2>2. ASSUME NEW h \in Hosts, h \in Edges \/ ~edgesDisabled PROVE values[h] = 1
    <3>1. h \in Edges => values[h] = 1
      BY <2>1, <2>2 DEF Books, EdgeBooks
    <3>2. h \in CanaryHosts /\ ~edgesDisabled => values[h] = 1
      BY <2>1, <2>2 DEF Books, CanaryBooks
    <3>. QED
      BY <2>2, <3>1, <3>2 DEF Hosts
  <2>3. ASSUME edgesDisabled, NEW c \in CanaryHosts
        PROVE  \/ future[c] = "cancelled" /\ values[c] = Entries(c)
               \/ c \in Unavailable /\ values[c] = Entries(c) + 1
               \/ c \notin Unavailable /\ values[c] \in {1, Entries(c) + 1}
                                         /\ last[c] = result[c]
    <3>1. c \in Hosts
      BY DEF Hosts
    <3>. QED
      BY <2>1, <2>3, <3>1 DEF Books, CanaryBooks
  <2>. QED
    BY <2>2, <2>3 DEF EveryHostGetsAValue
<1>. QED
  BY BooksAreKept, <1>1, PTL

(* The killer strikes exactly if enough available canaries time out, in    *)
(* whatever order their results come.                                      *)
THEOREM OrderDoesNotMatter == Spec => []KillIndependentOfOrder
<1>1. Books => KillIndependentOfOrder
  <2>. SUFFICES ASSUME Books, done, CanaryKiller # 0
                PROVE  edgesDisabled = (Cardinality(TimedOut) >= CanaryKiller)
    BY DEF KillIndependentOfOrder
  <2>1. edgesDisabled \in BOOLEAN
    BY DEF Books, TypeOK
  <2>2. Failures \subseteq TimedOut /\ TimedOut \in SUBSET Hosts
    BY DEF Failures, Measured, TimedOut, Hosts
  <2>3. /\ IsFiniteSet(TimedOut) /\ Cardinality(TimedOut) \in Nat
        /\ Cardinality(Failures) \in Nat
    BY <2>2, HostsAreFinite
  <2>4. Cardinality(Failures) <= Cardinality(TimedOut)
    BY <2>2, <2>3, FS_Subset
  <2>5. CASE edgesDisabled
    <3>1. Cardinality(Failures) >= CanaryKiller
      BY <2>5 DEF Books, KillerBooks
    <3>2. Cardinality(TimedOut) >= CanaryKiller
      BY <2>3, <2>4, <3>1, PoolIsAPool
    <3>. QED
      BY <2>1, <2>5, <3>2
  <2>6. CASE ~edgesDisabled
    <3>1. \A c \in CanaryHosts : future[c] = "consumed"
      BY <2>6 DEF Books, CanaryBooks, DoneBooks, Complete, In, Hosts
    <3>2. TimedOut = Failures
      BY <3>1 DEF TimedOut, Failures, Measured
    <3>3. ~(Cardinality(TimedOut) >= CanaryKiller)
      BY <2>6, <3>2 DEF Books, KillerBooks
    <3>. QED
      BY <2>1, <2>6, <3>3
  <2>. QED
    BY <2>5, <2>6
<1>. QED
  BY BooksAreKept, <1>1, PTL

-----------------------------------------------------------------------------
(* A pool of one worker never nests two overrides, so that each finds the  *)
(* system's resolver in force and puts it back.                            *)
Overriding == In({"connecting", "leaving"})
OneAtATime ==
  /\ \A g, h \in Working : g = h
  /\ \A h \in Overriding : saved[h] = System
  /\ Overriding = {} => getaddrinfo = System

LEMMA OneAtATimeStep ==
  ASSUME Workers = 1, TypeOK, OneAtATime, [Next]_vars
  PROVE  OneAtATime'
<1>. DEFINE states == {"entering", "connecting", "leaving"}
<1>1. ASSUME NEW h \in Hosts, TakeUp(h) PROVE OneAtATime'
  <2>1. Working = {}
    <3>1. Working \in SUBSET Hosts /\ Cardinality(Working) < 1
      BY <1>1 DEF TakeUp, Working, In
    <3>. QED
      BY <3>1, HostsAreFinite, FS_EmptySet
  <2>2. future' = [future EXCEPT ![h] = "entering"] /\ UNCHANGED <<getaddrinfo, saved>>
    BY <1>1 DEF TakeUp, resolution
  <2>3. Working' \subseteq {h} /\ Overriding' = {} /\ Overriding = {}
    BY <2>1, <2>2 DEF TypeOK, Working, Overriding, In
  <2>. QED
    BY <2>2, <2>3 DEF OneAtATime
<1>2. ASSUME NEW h \in Hosts, EnterOverride(h) PROVE OneAtATime'
  <2>1. /\ future' = [future EXCEPT ![h] = "connecting"]
        /\ saved' = [saved EXCEPT ![h] = getaddrinfo]
        /\ h \in Working /\ h \notin Overriding
    BY <1>2 DEF EnterOverride, Working, Overriding, In
  <2>2. Overriding = {}
    BY <2>1 DEF OneAtATime, Working, Overriding, In
  <2>3. Working' = Working /\ Overriding' = {h} /\ saved'[h] = System
    BY <2>1, <2>2 DEF TypeOK, OneAtATime, Working, Overriding, In
  <2>. QED
    BY <2>3 DEF OneAtATime
<1>3. ASSUME NEW h \in Hosts, Connect(h) PROVE OneAtATime'
  <2>1. future' = [future EXCEPT ![h] = "leaving"] /\ UNCHANGED <<getaddrinfo, saved>>
        /\ future[h] = "connecting"
    BY <1>3 DEF Connect
  <2>2. Working' = Working /\ Overriding' = Overriding
    BY <2>1 DEF TypeOK, Working, Overriding, In
  <2>. QED
    BY <2>1, <2>2 DEF OneAtATime
<1>4. ASSUME NEW h \in Hosts, LeaveOverride(h) PROVE OneAtATime'
  <2>1. /\ future' = [future EXCEPT ![h] = "finished"] /\ getaddrinfo' = saved[h]
        /\ h \in Working /\ h \in Overriding
    BY <1>4 DEF LeaveOverride, Working, Overriding, In
  <2>2. Working = {h} /\ saved[h] = System
    BY <2>1 DEF OneAtATime
  <2>3. Working' = {} /\ Overriding' = {}
    BY <2>1, <2>2 DEF TypeOK, Working, Overriding, In
  <2>. QED
    BY <2>1, <2>2, <2>3 DEF OneAtATime
<1>5. ASSUME NEW h \in Hosts, FailToResolve(h) PROVE OneAtATime'
  <2>1. /\ future' = [future EXCEPT ![h] = "finished"] /\ UNCHANGED <<getaddrinfo, saved>>
        /\ future[h] = "entering"
    BY <1>5 DEF FailToResolve, resolution
  <2>2. Working' \subseteq Working /\ Overriding' = Overriding
    BY <2>1 DEF TypeOK, Working, Overriding, In
  <2>. QED
    BY <2>1, <2>2 DEF OneAtATime
<1>6. ASSUME UNCHANGED <<getaddrinfo, saved>>,
             \A g \in Hosts : future'[g] \in states \/ future[g] \in states => future'[g] = future[g]
      PROVE  OneAtATime'
  <2>1. Working' = Working /\ Overriding' = Overriding
    BY <1>6 DEF Working, Overriding, In
  <2>. QED
    BY <1>6, <2>1 DEF OneAtATime
<1>7. ASSUME NEW h \in Hosts, Consume(h) \/ ConsumeAndKill(h) PROVE OneAtATime'
  BY <1>6, <1>7 DEF Consume, ConsumeAndKill, TakeResult, resolution, TypeOK
<1>8. CASE Finish \/ UNCHANGED vars
  BY <1>6, <1>8 DEF Finish, vars, resolution
<1>. QED
  BY <1>1, <1>2, <1>3, <1>4, <1>5, <1>7, <1>8 DEF Next, Worker

(* With one worker the override is what its comment says: after the tests  *)
(* names resolve as before (OverrideIsTemporary).  With two it may stay in *)
(* force (run override_dns).                                               *)
THEOREM OneWorkerRestores ==
  ASSUME Workers = 1
  PROVE  Spec => []OverrideIsTemporary
<1>1. Init => OneAtATime
  BY DEF Init, OneAtATime, Working, Overriding, In
<1>2. Books /\ OneAtATime /\ [Next]_vars => OneAtATime'
  BY OneAtATimeStep DEF Books
<1>3. Books /\ OneAtATime => OverrideIsTemporary
  BY DEF Books, DoneBooks, OneAtATime, OverrideIsTemporary, Overriding, Complete, In
<1>. QED
  BY <1>1, <1>2, <1>3, BooksAreKept, PTL DEF Spec

-----------------------------------------------------------------------------
(* How many steps the tests can still take: each host passes five points   *)
(* at most, and none twice; the last step is the main thread's.            *)
BeforeStart == In({"queued"})
BeforeOverride == In({"queued", "entering"})
BeforeResult == In({"queued", "entering", "connecting"})
BeforeEnd == In({"queued", "entering", "connecting", "leaving"})
BeforeTaken == In({"queued", "entering", "connecting", "leaving", "finished"})
StepsLeft ==
  Cardinality(BeforeStart) + Cardinality(BeforeOverride) + Cardinality(BeforeResult)
    + Cardinality(BeforeEnd) + Cardinality(BeforeTaken) + (IF done THEN 0 ELSE 1)

(* What somebody can do: take a result, go on with a fetch, start one, or  *)
(* finish.                                                                 *)
SomethingToDo ==
  \/ \E h \in Hosts : future[h] \in {"entering", "connecting", "leaving", "finished"}
  \/ \E h \in Hosts : /\ future[h] = "queued" /\ \A g \in In({"queued"}) : h <= g
                      /\ Cardinality(Working) < Workers
  \/ ~done /\ Complete = Hosts

LEMMA StepsAreNumbers == StepsLeft \in Nat
<1>1. /\ BeforeStart \in SUBSET Hosts /\ BeforeOverride \in SUBSET Hosts
      /\ BeforeResult \in SUBSET Hosts /\ BeforeEnd \in SUBSET Hosts
      /\ BeforeTaken \in SUBSET Hosts
  BY DEF BeforeStart, BeforeOverride, BeforeResult, BeforeEnd, BeforeTaken, In
<1>. QED
  BY <1>1, HostsAreFinite DEF StepsLeft

LEMMA SmallerSets ==
  ASSUME NEW S \in SUBSET Hosts, NEW T \in SUBSET S
  PROVE  /\ Cardinality(S) \in Nat /\ Cardinality(T) \in Nat
         /\ Cardinality(T) <= Cardinality(S)
         /\ T # S => Cardinality(T) < Cardinality(S)
<1>1. T \in SUBSET Hosts
  OBVIOUS
<1>2. IsFiniteSet(S) /\ Cardinality(S) \in Nat /\ Cardinality(T) \in Nat
  BY <1>1, HostsAreFinite
<1>3. Cardinality(T) <= Cardinality(S) /\ (Cardinality(T) = Cardinality(S) => T = S)
  BY <1>2, FS_Subset
<1>. QED
  BY <1>2, <1>3

LEMMA PassingAPoint ==
  ASSUME BeforeStart' \subseteq BeforeStart, BeforeOverride' \subseteq BeforeOverride,
         BeforeResult' \subseteq BeforeResult, BeforeEnd' \subseteq BeforeEnd,
         BeforeTaken' \subseteq BeforeTaken, done' = done,
         \/ BeforeStart' # BeforeStart \/ BeforeOverride' # BeforeOverride
         \/ BeforeResult' # BeforeResult \/ BeforeEnd' # BeforeEnd
         \/ BeforeTaken' # BeforeTaken
  PROVE  StepsLeft' < StepsLeft
<1>. DEFINE Shrinks(T, S) ==
       /\ Cardinality(S) \in Nat /\ Cardinality(T) \in Nat
       /\ Cardinality(T) <= Cardinality(S)
       /\ T # S => Cardinality(T) < Cardinality(S)
<1>1. /\ BeforeStart \in SUBSET Hosts /\ BeforeOverride \in SUBSET Hosts
      /\ BeforeResult \in SUBSET Hosts /\ BeforeEnd \in SUBSET Hosts
      /\ BeforeTaken \in SUBSET Hosts
  BY DEF BeforeStart, BeforeOverride, BeforeResult, BeforeEnd, BeforeTaken, In
<1>2. /\ Shrinks(BeforeStart', BeforeStart) /\ Shrinks(BeforeOverride', BeforeOverride)
      /\ Shrinks(BeforeResult', BeforeResult) /\ Shrinks(BeforeEnd', BeforeEnd)
      /\ Shrinks(BeforeTaken', BeforeTaken)
  BY <1>1, SmallerSets
<1>3. StepsLeft' = Cardinality(BeforeStart') + Cardinality(BeforeOverride')
                    + Cardinality(BeforeResult') + Cardinality(BeforeEnd')
                    + Cardinality(BeforeTaken') + (IF done THEN 0 ELSE 1)
  BY DEF StepsLeft
<1>. QED
  BY <1>2, <1>3 DEF StepsLeft

LEMMA StepsAreUsedUp ==
  ASSUME TypeOK, Next
  PROVE  StepsLeft' < StepsLeft
<1>. USE DEF BeforeStart, BeforeOverride, BeforeResult, BeforeEnd, BeforeTaken, In
<1>1. ASSUME NEW h \in Hosts, TakeUp(h) PROVE StepsLeft' < StepsLeft
  <2>1. future[h] = "queued" /\ future' = [future EXCEPT ![h] = "entering"] /\ done' = done
    BY <1>1 DEF TakeUp
  <2>2. h \in BeforeStart /\ h \notin BeforeStart'
    BY <2>1 DEF TypeOK
  <2>. QED
    BY <2>1, <2>2, PassingAPoint DEF TypeOK
<1>2. ASSUME NEW h \in Hosts, EnterOverride(h) PROVE StepsLeft' < StepsLeft
  <2>1. future[h] = "entering" /\ future' = [future EXCEPT ![h] = "connecting"] /\ done' = done
    BY <1>2 DEF EnterOverride
  <2>2. h \in BeforeOverride /\ h \notin BeforeOverride'
    BY <2>1 DEF TypeOK
  <2>. QED
    BY <2>1, <2>2, PassingAPoint DEF TypeOK
<1>3. ASSUME NEW h \in Hosts, Connect(h) PROVE StepsLeft' < StepsLeft
  <2>1. future[h] = "connecting" /\ future' = [future EXCEPT ![h] = "leaving"] /\ done' = done
    BY <1>3 DEF Connect
  <2>2. h \in BeforeResult /\ h \notin BeforeResult'
    BY <2>1 DEF TypeOK
  <2>. QED
    BY <2>1, <2>2, PassingAPoint DEF TypeOK
<1>4. ASSUME NEW h \in Hosts, LeaveOverride(h) \/ FailToResolve(h) PROVE StepsLeft' < StepsLeft
  <2>1. /\ future[h] \in {"entering", "leaving"} /\ done' = done
        /\ future' = [future EXCEPT ![h] = "finished"]
    BY <1>4 DEF LeaveOverride, FailToResolve
  <2>2. h \in BeforeEnd /\ h \notin BeforeEnd'
    BY <2>1 DEF TypeOK
  <2>. QED
    BY <2>1, <2>2, PassingAPoint DEF TypeOK
<1>5. ASSUME NEW h \in Hosts, Consume(h) \/ ConsumeAndKill(h) PROVE StepsLeft' < StepsLeft
  <2>1. /\ future[h] = "finished" /\ future'[h] = "consumed" /\ done' = done
        /\ \A g \in Hosts : future'[g] \in {future[g], "consumed", "cancelled"}
    BY <1>5 DEF Consume, ConsumeAndKill, TakeResult, TypeOK
  <2>2. h \in BeforeTaken /\ h \notin BeforeTaken'
    BY <2>1
  <2>. QED
    BY <2>1, <2>2, PassingAPoint
<1>6. CASE Finish
  <2>1. future' = future /\ ~done /\ done'
    BY <1>6 DEF Finish
  <2>2. /\ BeforeStart' = BeforeStart /\ BeforeOverride' = BeforeOverride
        /\ BeforeResult' = BeforeResult /\ BeforeEnd' = BeforeEnd
        /\ BeforeTaken' = BeforeTaken
    BY <2>1
  <2>. DEFINE points == Cardinality(BeforeStart) + Cardinality(BeforeOverride)
                          + Cardinality(BeforeResult) + Cardinality(BeforeEnd)
                          + Cardinality(BeforeTaken)
  <2>3. StepsLeft = points + 1 /\ StepsLeft' = points + 0
    BY <2>1, <2>2 DEF StepsLeft
  <2>4. points \in Nat
    <3>1. /\ BeforeStart \in SUBSET Hosts /\ BeforeOverride \in SUBSET Hosts
          /\ BeforeResult \in SUBSET Hosts /\ BeforeEnd \in SUBSET Hosts
          /\ BeforeTaken \in SUBSET Hosts
      OBVIOUS
    <3>. QED
      BY <3>1, HostsAreFinite
  <2>. HIDE DEF points
  <2>. QED
    BY <2>3, <2>4
<1>. QED
  BY <1>1, <1>2, <1>3, <1>4, <1>5, <1>6 DEF Next, Worker

LEMMA FirstHost ==
  ASSUME NEW S \in SUBSET Hosts, S # {}
  PROVE  \E h \in S : \A g \in S : h <= g
<1>. DEFINE R == OpToRel(<, Nat)
<1>1. \E h \in S : \A g \in S : ~(<<g, h>> \in R)
  <2>1. S \in SUBSET Nat
    BY HostsAreOrdered
  <2>. HIDE DEF R
  <2>2. IsWellFoundedOn(R, Nat)
    BY NatLessThanWellFounded, Zenon DEF R
  <2>. QED
    BY <2>1, <2>2, WFMin
<1>2. \A m, n \in Nat : ~(<<n, m>> \in R) => m <= n
  BY DEF OpToRel
<1>. QED
  BY <1>1, <1>2, HostsAreOrdered

LEMMA NobodyWaits ==
  ASSUME TypeOK, ~done
  PROVE  SomethingToDo
<1>1. SUFFICES ASSUME \A h \in Hosts : future[h] \in {"queued", "consumed", "cancelled"},
                      Complete # Hosts
               PROVE  SomethingToDo
  BY DEF SomethingToDo, TypeOK
<1>2. In({"queued"}) \in SUBSET Hosts /\ In({"queued"}) # {}
  BY <1>1 DEF In, Complete
<1>3. PICK h \in In({"queued"}) : \A g \in In({"queued"}) : h <= g
  BY <1>2, FirstHost
<1>4. Working = {}
  BY <1>1 DEF Working, In
<1>5. Cardinality(Working) < Workers
  BY <1>4, FS_EmptySet, PoolIsAPool
<1>. QED
  BY <1>3, <1>5 DEF SomethingToDo, In

(* The tests cannot go on forever, nor stop before they are done, whatever *)
(* is cancelled and in whatever order fetches end: all of TestsFinish but  *)
(* the fairness of the scheduler.                                          *)
THEOREM TestsRunOut ==
  Spec => /\ [](StepsLeft \in Nat) /\ [][StepsLeft' < StepsLeft]_vars
          /\ [](~done => SomethingToDo)
<1>1. TypeOK /\ [Next]_vars => [StepsLeft' < StepsLeft]_vars
  BY StepsAreUsedUp
<1>2. TypeOK => (~done => SomethingToDo)
  BY NobodyWaits
<1>. QED
  BY <1>1, <1>2, StepsAreNumbers, TypeCorrect, PTL DEF Spec
=============================================================================
