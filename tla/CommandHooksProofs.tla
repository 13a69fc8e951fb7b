------------------------- MODULE CommandHooksProofs -------------------------
(***************************************************************************)
(* What a run reports of its hooks is true and complete, and ends where   *)
(* their deadline passes, for every number of commands and every pipe size.     *)
(***************************************************************************)
EXTENDS CommandHooks, FiniteSets, FiniteSetTheorems, TLAPS

LEMMA CountsInOrder ==
  /\ LastOf("before") \in Nat /\ LastOf("after") \in Nat /\ LastOf("changes") \in Nat
  /\ LastOf("before") <= LastOf("after") /\ LastOf("after") <= LastOf("changes")
  /\ Commands = 1 .. LastOf("changes")
BY CountsAreNumbers DEF LastOf, Spawning, Commands

(* While hooks are started, exactly the commands before `next' have been,  *)
(* and `next' does not go past the hook of this stage.                     *)
Starting == Spawning \cup {"tests"}
StageOf == IF pc = "tests" THEN "before" ELSE pc
StartedInOrder ==
  pc \in Starting =>
     /\ next <= LastOf(StageOf) + 1
     /\ \A c \in Commands : status[c] = "off" <=> c >= next
     /\ ~late
     /\ pc = "changes" => changes

(* From the reaping on, the commands that were not started are those of    *)
(* run_after_changes in a run that changed nothing.                        *)
ChangesOnlyIfChanged ==
  pc \in {"reap", "ended"} =>
     \A c \in Commands : status[c] = "off" <=> (c > LastOf("after") /\ ~changes)

(* What is logged of a command, and when.                                  *)
LogFollows ==
  \A c \in Commands :
     /\ status[c] = "off" => report[c] = "none"
     /\ status[c] = "refused" => report[c] = "refused"
     /\ pc = "reap" /\ c < next /\ status[c] # "off" => report[c] # "none"
     /\ pc = "ended" /\ status[c] # "off" => report[c] # "none"
     /\ report[c] = "given_up" => late

(* Before the deadline no command is given up, after it none is collected: *)
(* those the reaping has not come to have no report of their end.          *)
DeadlineSplitsReports ==
  /\ pc \in Starting \cup {"reap"} =>
       \A c \in Commands : (pc = "reap" => c >= next) =>
          report[c] \notin {"ok", "failed", "given_up"}
  /\ ReportsEndAtDeadline

HooksInv ==
  /\ TypeOK /\ StartedInOrder /\ ChangesOnlyIfChanged /\ LogFollows /\ DeadlineSplitsReports
  /\ ReportsAreTrue

LEMMA HooksInvInit == Init => HooksInv
<1>. SUFFICES ASSUME Init PROVE HooksInv
  OBVIOUS
<1>. USE CountsAreNumbers, CountsInOrder DEF Init
<1>1. \A c \in Commands : Pipe(c) \in 0 .. PipeSize
  <2>. SUFFICES ASSUME NEW c \in Commands PROVE written[c] = 0 /\ captured[c] = 0
    BY DEF Pipe
  <2>. QED
    OBVIOUS
<1>2. TypeOK
  <2>1. 0 \in 0 .. MaxOutput /\ 1 \in 1 .. (LastOf("changes") + 1)
    OBVIOUS
  <2>2. /\ next = 1 /\ pc \in Spawning /\ late = FALSE /\ changes = FALSE
    BY DEF Spawning
  <2>3. /\ written \in [Commands -> 0 .. MaxOutput] /\ captured \in [Commands -> 0 .. MaxOutput]
        /\ status \in [Commands -> Over \cup {"running"}]
        /\ report \in [Commands -> {"none", "refused", "given_up", "ok", "failed"}]
    BY <2>1 DEF Over
  <2>. HIDE DEF Init
  <2>. QED
    BY <1>1, <2>1, <2>2, <2>3 DEF TypeOK
<1>3. StartedInOrder
  BY DEF StartedInOrder, Starting, StageOf, Spawning
<1>4. ChangesOnlyIfChanged /\ LogFollows /\ DeadlineSplitsReports /\ ReportsAreTrue
  BY DEF ChangesOnlyIfChanged, LogFollows, DeadlineSplitsReports, ReportsAreTrue,
         ReportsEndAtDeadline
<1>. QED
  BY <1>2, <1>3, <1>4 DEF HooksInv

LEMMA PipesStep ==
  ASSUME TypeOK, [Next]_vars
  PROVE  \A c \in Commands : Pipe(c)' \in 0 .. PipeSize
<1>. USE CountsAreNumbers DEF TypeOK, Pipe, commands, log
<1>1. CASE UNCHANGED <<written, captured>>
  BY <1>1
<1>2. ASSUME NEW c \in Commands, Drain(c) PROVE \A d \in Commands : Pipe(d)' \in 0 .. PipeSize
  BY <1>2 DEF Drain
<1>3. ASSUME NEW c \in Commands, Write(c) PROVE \A d \in Commands : Pipe(d)' \in 0 .. PipeSize
  BY <1>3 DEF Write
<1>. QED
  BY <1>1, <1>2, <1>3
     DEF Next, RunStep, CommandStep, Spawn, BeforeSpawned, Work, AfterSpawned, ChangesSpawned,
         NothingToReap, Deadline, End, Collect, GiveUp, Killed, Finish, vars

LEMMA TypesStep == HooksInv /\ [Next]_vars => TypeOK'
<1>. SUFFICES ASSUME TypeOK, [Next]_vars PROVE TypeOK'
  BY DEF HooksInv
<1>. DEFINE Bounded == \A c \in Commands : Pipe(c)' \in 0 .. PipeSize
<1>0. Bounded
  BY PipesStep
<1>. USE <1>0, CountsInOrder
<1>. USE DEF TypeOK, commands, log
<1>1. CASE Spawn
  <2>1. next' \in 1 .. (LastOf("changes") + 1)
    BY <1>1 DEF Spawn, Spawning
  <2>2. status' \in [Commands -> Over \cup {"running"}]
    BY <1>1 DEF Spawn, Over
  <2>. QED
    BY <1>1, <2>1, <2>2 DEF Spawn
<1>2. CASE BeforeSpawned
  BY <1>2 DEF BeforeSpawned
<1>10. CASE Work
  BY <1>10 DEF Work, Spawning
<1>3. CASE End \/ Killed
  BY <1>3 DEF End, Killed, Gone
<1>4. CASE AfterSpawned \/ ChangesSpawned
  <2>1. next' \in 1 .. (LastOf("changes") + 1)
    <3>1. next' = next \/ next' = 1
      BY <1>4 DEF AfterSpawned, ChangesSpawned, StartReaping
    <3>. QED
      BY <3>1
  <2>2. pc' \in Spawning \cup {"reap"}
    BY <1>4 DEF AfterSpawned, ChangesSpawned, StartReaping, Spawning
  <2>3. UNCHANGED <<changes, status, written, log, late>>
    BY <1>4 DEF AfterSpawned, ChangesSpawned
  <2>. QED
    BY <2>1, <2>2, <2>3
<1>5. CASE NothingToReap
  BY <1>5 DEF NothingToReap
<1>6. CASE Deadline
  BY <1>6 DEF Deadline
<1>7. ASSUME NEW c \in Commands, Drain(c) \/ Collect(c) \/ GiveUp(c)
      PROVE  TypeOK'
  <2>1. next' \in 1 .. (LastOf("changes") + 1)
    BY <1>7 DEF Drain, Collect, GiveUp, Reaping
  <2>2. captured' \in [Commands -> 0 .. MaxOutput]
    BY <1>7 DEF Drain, Collect, GiveUp
  <2>3. report' \in [Commands -> {"none", "refused", "given_up", "ok", "failed"}]
    BY <1>7 DEF Drain, Collect, GiveUp
  <2>. QED
    BY <1>7, <2>1, <2>2, <2>3 DEF Drain, Collect, GiveUp
<1>8. ASSUME NEW c \in Commands, CommandStep(c)
      PROVE  TypeOK'
  <2>1. status' \in [Commands -> Over \cup {"running"}]
    BY <1>8 DEF CommandStep, Write, Finish, Over
  <2>2. written' \in [Commands -> 0 .. MaxOutput]
    <3>1. CASE written' = [written EXCEPT ![c] = @ + 1] /\ written[c] < MaxOutput
      <4>. HIDE DEF TypeOK
      <4>1. written \in [Commands -> 0 .. MaxOutput]
        BY DEF TypeOK
      <4>2. MaxOutput \in Nat
        BY CountsAreNumbers
      <4>. HIDE <1>0, CountsInOrder
      <4>. QED
        BY <3>1, <4>1, <4>2
    <3>2. CASE UNCHANGED written
      BY <3>2
    <3>. QED
      BY <1>8, <3>1, <3>2 DEF CommandStep, Write, Finish
  <2>. QED
    BY <1>8, <2>1, <2>2 DEF CommandStep, Write, Finish
<1>9. CASE UNCHANGED vars
  BY <1>9 DEF vars
<1>. QED
  BY <1>1, <1>2, <1>3, <1>4, <1>5, <1>6, <1>7, <1>8, <1>9, <1>10 DEF Next, RunStep

(* The parts of the invariant beside the types.                            *)
Parts ==
  StartedInOrder /\ ChangesOnlyIfChanged /\ LogFollows /\ DeadlineSplitsReports /\ ReportsAreTrue

LEMMA SpawningStep ==
  ASSUME HooksInv, Spawn \/ BeforeSpawned \/ Work \/ AfterSpawned \/ ChangesSpawned
  PROVE  Parts'
<1>. USE CountsAreNumbers, CountsInOrder
<1>. USE DEF HooksInv, Parts, TypeOK, StartedInOrder, Starting, StageOf,
             ChangesOnlyIfChanged, LogFollows, DeadlineSplitsReports, ReportsAreTrue,
             ReportsEndAtDeadline, Spawning, Gone, commands, log
<1>1. CASE Spawn
  <2>1. /\ pc \in Spawning /\ next \in Commands /\ next' = next + 1 /\ status[next] = "off"
        /\ pc' = pc /\ UNCHANGED <<written, captured, changes, late>>
        /\ ~late
    BY <1>1 DEF Spawn
  <2>2. \A c \in Commands : c # next => status'[c] = status[c] /\ report'[c] = report[c]
    BY <1>1, <2>1 DEF Spawn
  <2>3. \/ status'[next] = "running" /\ report'[next] = report[next]
        \/ status'[next] = "refused" /\ report'[next] = "refused"
    BY <1>1, <2>1 DEF Spawn
  <2>4. next <= LastOf(pc)
    BY <1>1 DEF Spawn
  <2>5. StartedInOrder'
    BY <2>1, <2>2, <2>3, <2>4
  <2>6. ChangesOnlyIfChanged' /\ ReportsAreTrue'
    BY <2>1, <2>2, <2>3
  <2>7. LogFollows'
    BY <2>1, <2>2, <2>3
  <2>8. DeadlineSplitsReports'
    BY <2>1, <2>2, <2>3
  <2>. QED
    BY <2>5, <2>6, <2>7, <2>8
<1>2. CASE BeforeSpawned
  BY <1>2 DEF BeforeSpawned
<1>3. CASE Work
  BY <1>3 DEF Work
<1>4. CASE AfterSpawned
  <2>1. CASE changes
    <3>1. /\ pc = "after" /\ pc' = "changes"
          /\ UNCHANGED <<next, changes, status, written, log, late>>
      BY <1>4, <2>1 DEF AfterSpawned
    <3>. QED
      BY <2>1, <3>1
  <2>2. CASE ~changes
    BY <1>4, <2>2 DEF AfterSpawned, StartReaping
  <2>. QED
    BY <2>1, <2>2
<1>5. CASE ChangesSpawned
  <2>1. /\ pc = "changes" /\ pc' = "reap" /\ next > LastOf("changes") /\ next' = 1
        /\ UNCHANGED <<changes, status, written, log, late>>
    BY <1>5 DEF ChangesSpawned, StartReaping
  <2>2. changes /\ \A c \in Commands : status[c] # "off"
    BY <2>1
  <2>. QED
    BY <2>1, <2>2
<1>. QED
  BY <1>1, <1>2, <1>3, <1>4, <1>5

LEMMA ReapingStep ==
  ASSUME HooksInv,
         NothingToReap \/ Deadline \/ End \/ Killed
           \/ \E c \in Commands : Drain(c) \/ Collect(c) \/ GiveUp(c)
  PROVE  Parts'
<1>. USE CountsAreNumbers, CountsInOrder
<1>. USE DEF HooksInv, Parts, TypeOK, StartedInOrder, Starting, StageOf,
             ChangesOnlyIfChanged, LogFollows, DeadlineSplitsReports, ReportsAreTrue,
             ReportsEndAtDeadline, Spawning, Gone, Reaping, commands, log
<1>1. CASE NothingToReap
  BY <1>1 DEF NothingToReap
<1>2. CASE Deadline
  BY <1>2 DEF Deadline
<1>3. CASE End
  <2>1. \A c \in Commands : c < next
    BY <1>3 DEF End
  <2>. QED
    BY <1>3, <2>1 DEF End
<1>7. CASE Killed
  BY <1>7 DEF Killed
<1>4. ASSUME NEW c \in Commands, Drain(c) PROVE Parts'
  BY <1>4 DEF Drain
<1>5. ASSUME NEW c \in Commands, Collect(c) PROVE Parts'
  <2>. HIDE DEF ReportsEndAtDeadline
  <2>1. /\ pc = "reap" /\ next = c /\ next' = next + 1 /\ ~late
        /\ status[c] \in {"ok", "failed"} /\ written[c] - captured[c] = 0
        /\ report' = [report EXCEPT ![c] = status[c]]
        /\ UNCHANGED <<pc, changes, status, written, captured, late>>
    BY <1>5 DEF Collect, Pipe
  <2>2. captured[c] = written[c]
    <3>1. written[c] \in 0 .. MaxOutput /\ captured[c] \in 0 .. MaxOutput
      OBVIOUS
    <3>. QED
      BY <2>1, <3>1
  <2>3. /\ pc = "reap" /\ next = c /\ next' = next + 1 /\ ~late
        /\ status[c] \in {"ok", "failed"} /\ captured[c] = written[c]
        /\ report'[c] = status[c] /\ \A d \in Commands \ {c} : report'[d] = report[d]
        /\ UNCHANGED <<pc, changes, status, written, captured, late>>
    BY <2>1, <2>2
  <2>4. StartedInOrder' /\ ChangesOnlyIfChanged'
    BY <2>3
  <2>5. LogFollows'
    BY <2>3
  <2>6. ReportsAreTrue'
    BY <2>3
  <2>7. \A d \in Commands : report'[d] # "given_up"
    BY <2>3
  <2>8. ReportsEndAtDeadline'
    BY <2>7 DEF ReportsEndAtDeadline
  <2>9. DeadlineSplitsReports'
    BY <2>3, <2>8
  <2>. QED
    BY <2>4, <2>5, <2>6, <2>9
<1>6. ASSUME NEW c \in Commands, GiveUp(c) PROVE Parts'
  <2>1. /\ pc = "reap" /\ next = c /\ next' = next + 1 /\ late
        /\ status[c] \notin {"off", "refused"}
        /\ report'[c] = "given_up" /\ \A d \in Commands \ {c} : report'[d] = report[d]
        /\ UNCHANGED <<pc, changes, status, written, captured, late>>
    BY <1>6 DEF GiveUp
  <2>. HIDE DEF ReportsEndAtDeadline
  <2>2. StartedInOrder' /\ ChangesOnlyIfChanged'
    BY <2>1
  <2>3. LogFollows'
    BY <2>1
  <2>4. ReportsAreTrue'
    BY <2>1
  <2>5. \A d \in Commands : d >= c => report[d] \notin {"ok", "failed", "given_up"}
    BY <2>1
  <2>6. ReportsEndAtDeadline'
    BY <2>1, <2>5 DEF ReportsEndAtDeadline
  <2>7. DeadlineSplitsReports'
    BY <2>1, <2>6
  <2>. QED
    BY <2>2, <2>3, <2>4, <2>7
<1>. QED
  BY <1>1, <1>2, <1>3, <1>4, <1>5, <1>6, <1>7

LEMMA CommandsStep ==
  ASSUME HooksInv, NEW c \in Commands, CommandStep(c)
  PROVE  Parts'
<1>1. /\ status[c] = "running" /\ status'[c] # "off" /\ status'[c] # "refused"
      /\ \A d \in Commands : d # c => status'[d] = status[d] /\ written'[d] = written[d]
      /\ UNCHANGED <<pc, next, changes, log, late>>
  BY DEF CommandStep, Write, Finish, HooksInv, TypeOK
<1>. QED
  BY <1>1
     DEF HooksInv, Parts, TypeOK, StartedInOrder, Starting, StageOf, ChangesOnlyIfChanged,
         LogFollows, DeadlineSplitsReports, ReportsAreTrue, ReportsEndAtDeadline, log

LEMMA HooksInvStep == HooksInv /\ [Next]_vars => HooksInv'
<1>. SUFFICES ASSUME HooksInv, [Next]_vars PROVE HooksInv'
  OBVIOUS
<1>1. TypeOK'
  BY TypesStep
<1>2. Parts'
  <2>1. CASE UNCHANGED vars
    BY <2>1
       DEF vars, HooksInv, Parts, StartedInOrder, Starting, StageOf, ChangesOnlyIfChanged,
           LogFollows, DeadlineSplitsReports, ReportsAreTrue, ReportsEndAtDeadline
  <2>. QED
    BY <2>1, SpawningStep, ReapingStep, CommandsStep DEF Next, RunStep
<1>. QED
  BY <1>1, <1>2 DEF HooksInv, Parts

LEMMA HooksInvHolds == Spec => []HooksInv
BY HooksInvInit, HooksInvStep, PTL DEF Spec

(* Types, and no pipe holds more than its size (TypeOK).                   *)
THEOREM TypeCorrect == Spec => []TypeOK
BY HooksInvHolds, PTL DEF HooksInv

(* An exit status and an output in the log are the command's own, whole    *)
(* (ReportsAreTrue).                                                       *)
THEOREM ReportsTrue == Spec => []ReportsAreTrue
BY HooksInvHolds, PTL DEF HooksInv

(* The deadline is shared: what is reported of the ends of hooks concerns  *)
(* those before the first that was given up (ReportsEndAtDeadline).        *)
THEOREM DeadlineIsShared == Spec => []ReportsEndAtDeadline
<1>1. HooksInv => ReportsEndAtDeadline
  BY DEF HooksInv, DeadlineSplitsReports
<1>. QED
  BY <1>1, HooksInvHolds, PTL

(* A run that ends has logged every command of its hooks, and no other     *)
(* (EveryCommandReported).                                                 *)
THEOREM ReportsComplete == Spec => []EveryCommandReported
<1>1. HooksInv => EveryCommandReported
  BY DEF HooksInv, LogFollows, ChangesOnlyIfChanged, EveryCommandReported
<1>. QED
  BY <1>1, HooksInvHolds, PTL

-----------------------------------------------------------------------------
(* How many steps a run still has before it: stages, commands to start and *)
(* to reap, its deadline, and output it may have to read.                  *)
All == LastOf("changes")
StagesLeft(stage) ==
  CASE stage = "before" -> 5 [] stage = "tests" -> 4 [] stage = "after" -> 3
    [] stage = "changes" -> 2 [] stage = "reap" -> 1 [] OTHER -> 0
StartsLeft(stage, c) == IF stage \in Starting THEN All + 1 - c ELSE 0
ReapsLeft(stage, c) ==
  IF stage \in Starting THEN All ELSE IF stage = "reap" THEN All + 1 - c ELSE 0
DeadlinesLeft(passed) == IF passed THEN 0 ELSE 1
MovesLeft(stage, c, passed) ==
  StagesLeft(stage) + StartsLeft(stage, c) + ReapsLeft(stage, c) + DeadlinesLeft(passed)
Unmoved == MovesLeft(pc, next, late)
Unread == {p \in Commands \X (1 .. MaxOutput) : captured[p[1]] < p[2]}
StepsLeft == Unmoved + Cardinality(Unread)

(* What a run can do whatever its commands do, in each of its stages.      *)
SomethingToDo ==
  \/ pc \in Starting
  \/ pc = "reap" /\ next \notin Commands
  \/ \E c \in Commands : pc = "reap" /\ next = c /\ status[c] \in {"off", "refused"}
  \/ \E c \in Commands :
       /\ Reaping(c)
       /\ late \/ status[c] = "running" \/ Pipe(c) > 0 \/ status[c] \in {"ok", "failed"}

(* A command dies of its pipe only after the run.                          *)
KilledAfterwards == \A c \in Commands : status[c] = "killed" => pc \in Gone

LEMMA UnreadIsFinite ==
  ASSUME NEW S \in SUBSET (Commands \X (1 .. MaxOutput)), NEW T \in SUBSET S
  PROVE  /\ Cardinality(S) \in Nat /\ Cardinality(T) \in Nat
         /\ Cardinality(T) <= Cardinality(S)
         /\ T # S => Cardinality(T) < Cardinality(S)
<1>1. IsFiniteSet(Commands) /\ IsFiniteSet(1 .. MaxOutput)
  BY CountsInOrder, CountsAreNumbers, FS_Interval
<1>2. IsFiniteSet(Commands \X (1 .. MaxOutput))
  BY <1>1, FS_Product
<1>3. IsFiniteSet(S) /\ IsFiniteSet(T)
  <2>1. T \in SUBSET (Commands \X (1 .. MaxOutput))
    OBVIOUS
  <2>. QED
    BY <1>2, <2>1, FS_Subset
<1>4. Cardinality(S) \in Nat /\ Cardinality(T) \in Nat
  BY <1>3, FS_CardinalityType
<1>5. Cardinality(T) <= Cardinality(S) /\ (Cardinality(S) = Cardinality(T) => S = T)
  BY <1>3, FS_Subset
<1>. QED
  BY <1>4, <1>5

LEMMA StepsAreNumbers ==
  /\ \A stage : StagesLeft(stage) \in Nat
  /\ \A stage, c : c \in 1 .. (All + 1) => StartsLeft(stage, c) \in Nat /\ ReapsLeft(stage, c) \in Nat
  /\ \A passed : DeadlinesLeft(passed) \in Nat
BY CountsInOrder DEF StagesLeft, StartsLeft, ReapsLeft, DeadlinesLeft, All

LEMMA MovesAreNumbers ==
  \A stage, passed : \A c \in 1 .. (All + 1) : MovesLeft(stage, c, passed) \in Nat
BY StepsAreNumbers DEF MovesLeft

(* Each way the run can move from a stage, command and deadline to others. *)
LEMMA MovesRunOut ==
  ASSUME NEW c \in 1 .. (All + 1), NEW passed \in BOOLEAN
  PROVE  /\ \A stage \in Spawning : c <= All =>
              MovesLeft(stage, c + 1, passed) < MovesLeft(stage, c, passed)
         /\ MovesLeft("tests", c, passed) < MovesLeft("before", c, passed)
         /\ MovesLeft("after", c, passed) < MovesLeft("tests", c, passed)
         /\ MovesLeft("changes", c, passed) < MovesLeft("after", c, passed)
         /\ \A stage \in {"after", "changes"} :
              MovesLeft("reap", 1, passed) < MovesLeft(stage, c, passed)
         /\ c <= All => MovesLeft("reap", c + 1, passed) < MovesLeft("reap", c, passed)
         /\ MovesLeft("ended", c, passed) < MovesLeft("reap", c, passed)
         /\ \A stage : MovesLeft("killed", c, passed) <= MovesLeft(stage, c, passed)
         /\ \A stage, was : passed /\ ~was => MovesLeft(stage, c, passed) < MovesLeft(stage, c, was)
<1>0. All \in Nat /\ c \in Nat /\ 1 <= c /\ c <= All + 1 /\ DeadlinesLeft(passed) \in Nat
  BY CountsInOrder, StepsAreNumbers DEF All
<1>1. /\ \A d : \A stage \in Starting : ReapsLeft(stage, d) = All /\ StartsLeft(stage, d) = All + 1 - d
      /\ \A d : ReapsLeft("reap", d) = All + 1 - d /\ StartsLeft("reap", d) = 0
      /\ \A d : \A stage \in Gone : ReapsLeft(stage, d) = 0 /\ StartsLeft(stage, d) = 0
  BY DEF ReapsLeft, StartsLeft, Starting, Spawning, Gone
<1>2. /\ StagesLeft("before") = 5 /\ StagesLeft("tests") = 4 /\ StagesLeft("after") = 3
      /\ StagesLeft("changes") = 2 /\ StagesLeft("reap") = 1
      /\ StagesLeft("ended") = 0 /\ StagesLeft("killed") = 0
  BY DEF StagesLeft
<1>3. ASSUME NEW stage \in Spawning, c <= All
      PROVE  MovesLeft(stage, c + 1, passed) < MovesLeft(stage, c, passed)
  <2>1. stage \in Starting /\ StagesLeft(stage) \in Nat
    BY <1>2 DEF Starting, Spawning
  <2>. QED
    BY <1>0, <1>1, <2>1 DEF MovesLeft
<1>4. /\ MovesLeft("tests", c, passed) < MovesLeft("before", c, passed)
      /\ MovesLeft("after", c, passed) < MovesLeft("tests", c, passed)
      /\ MovesLeft("changes", c, passed) < MovesLeft("after", c, passed)
  BY <1>0, <1>1, <1>2 DEF MovesLeft, Starting, Spawning
<1>5. ASSUME NEW stage \in {"after", "changes"}
      PROVE  MovesLeft("reap", 1, passed) < MovesLeft(stage, c, passed)
  <2>1. stage \in Starting /\ StagesLeft(stage) \in {2, 3}
    BY <1>2 DEF Starting, Spawning
  <2>. QED
    BY <1>0, <1>1, <1>2, <2>1 DEF MovesLeft
<1>6. c <= All => MovesLeft("reap", c + 1, passed) < MovesLeft("reap", c, passed)
  BY <1>0, <1>1, <1>2 DEF MovesLeft
<1>7. MovesLeft("ended", c, passed) < MovesLeft("reap", c, passed)
  BY <1>0, <1>1, <1>2 DEF MovesLeft, Gone
<1>8. ASSUME NEW stage PROVE MovesLeft("killed", c, passed) <= MovesLeft(stage, c, passed)
  <2>1. MovesLeft("killed", c, passed) = DeadlinesLeft(passed)
    BY <1>0, <1>1, <1>2 DEF MovesLeft, Gone
  <2>2. StagesLeft(stage) \in Nat /\ StartsLeft(stage, c) \in Nat /\ ReapsLeft(stage, c) \in Nat
    BY StepsAreNumbers
  <2>. QED
    BY <1>0, <2>1, <2>2 DEF MovesLeft
<1>9. ASSUME NEW stage, NEW was, passed, ~was
      PROVE  MovesLeft(stage, c, passed) < MovesLeft(stage, c, was)
  <2>1. StagesLeft(stage) \in Nat /\ StartsLeft(stage, c) \in Nat /\ ReapsLeft(stage, c) \in Nat
    BY StepsAreNumbers
  <2>2. DeadlinesLeft(passed) = 0 /\ DeadlinesLeft(was) = 1
    BY <1>9 DEF DeadlinesLeft
  <2>. QED
    BY <2>1, <2>2 DEF MovesLeft
<1>. QED
  BY <1>3, <1>4, <1>5, <1>6, <1>7, <1>8, <1>9

LEMMA StepsAreBounded ==
  ASSUME TypeOK
  PROVE  Unmoved \in Nat /\ Cardinality(Unread) \in Nat /\ StepsLeft \in Nat
<1>1. Unmoved \in Nat
  BY MovesAreNumbers DEF TypeOK, Unmoved, All
<1>2. Unread \in SUBSET (Commands \X (1 .. MaxOutput))
  BY DEF Unread
<1>3. Cardinality(Unread) \in Nat
  BY <1>2, UnreadIsFinite
<1>. QED
  BY <1>1, <1>3 DEF StepsLeft

(* Only a Drain reads; what has been read is not read again.               *)
LEMMA ReadingStep ==
  ASSUME TypeOK, TypeOK', Next
  PROVE  /\ Cardinality(Unread') \in Nat /\ Cardinality(Unread') <= Cardinality(Unread)
         /\ \A c \in Commands : Drain(c) => Cardinality(Unread') < Cardinality(Unread)
<1>1. Unread \in SUBSET (Commands \X (1 .. MaxOutput))
  BY DEF Unread
<1>2. \A c \in Commands : captured'[c] >= captured[c]
  <2>1. CASE captured' = captured
    BY <2>1 DEF TypeOK
  <2>2. ASSUME NEW d \in Commands, Drain(d)
        PROVE  \A c \in Commands : captured'[c] >= captured[c]
    BY <2>2, CountsAreNumbers DEF Drain, Pipe, TypeOK
  <2>. QED
    BY <2>1, <2>2
       DEF Next, RunStep, CommandStep, Spawn, BeforeSpawned, Work, AfterSpawned, ChangesSpawned,
           NothingToReap, Deadline, End, Collect, GiveUp, Killed, Write, Finish, log
<1>3. Unread' \in SUBSET Unread
  <2>1. SUFFICES ASSUME NEW c \in Commands, NEW i \in 1 .. MaxOutput, captured'[c] < i
                 PROVE  captured[c] < i
    BY DEF Unread
  <2>2. captured[c] \in Int /\ captured'[c] \in Int
    BY DEF TypeOK
  <2>. QED
    BY <1>2, <2>1, <2>2
<1>4. ASSUME NEW c \in Commands, Drain(c) PROVE Unread' # Unread
  <2>1. captured'[c] = written[c] /\ captured[c] < written[c] /\ written[c] \in 1 .. MaxOutput
    BY <1>4, CountsAreNumbers DEF Drain, Pipe, TypeOK
  <2>2. <<c, written[c]>> \in Unread
    BY <2>1 DEF Unread
  <2>3. <<c, written[c]>> \notin Unread'
    BY <2>1 DEF Unread
  <2>. QED
    BY <2>2, <2>3
<1>. QED
  BY <1>1, <1>3, <1>4, UnreadIsFinite

LEMMA RunGoesOn ==
  ASSUME HooksInv, TypeOK', Next
  PROVE  StepsLeft' <= StepsLeft /\ (RunStep => StepsLeft' < StepsLeft)
<1>1. TypeOK
  BY DEF HooksInv
<1>2. /\ Cardinality(Unread) \in Nat /\ Cardinality(Unread') \in Nat
      /\ Cardinality(Unread') <= Cardinality(Unread)
  BY <1>1, StepsAreBounded, ReadingStep
<1>3. StepsLeft = Unmoved + Cardinality(Unread) /\ StepsLeft' = Unmoved' + Cardinality(Unread')
  BY DEF StepsLeft
<1>4. /\ next \in 1 .. (All + 1) /\ late \in BOOLEAN
      /\ Unmoved \in Nat /\ Unmoved' \in Nat
      /\ Unmoved = MovesLeft(pc, next, late) /\ Unmoved' = MovesLeft(pc', next', late')
  BY <1>1, MovesAreNumbers DEF TypeOK, Unmoved, All
<1>5. ASSUME RunStep, \A c \in Commands : ~Drain(c)
      PROVE  Unmoved' < Unmoved
  <2>1. CASE Spawn
    <3>1. pc \in Spawning /\ next <= All /\ next' = next + 1 /\ UNCHANGED <<pc, late>>
      BY <1>4, <2>1, CountsInOrder DEF Spawn, Spawning, All
    <3>. QED
      BY <1>4, <3>1, MovesRunOut
  <2>2. CASE BeforeSpawned \/ Work
    <3>1. /\ (pc = "before" /\ pc' = "tests") \/ (pc = "tests" /\ pc' = "after")
          /\ UNCHANGED <<next, late>>
      BY <2>2 DEF BeforeSpawned, Work
    <3>. QED
      BY <1>4, <3>1, MovesRunOut
  <2>3. CASE AfterSpawned \/ ChangesSpawned
    <3>1. ASSUME pc = "after", pc' = "changes", UNCHANGED <<next, late>>
          PROVE  Unmoved' < Unmoved
      BY <1>4, <3>1, MovesRunOut
    <3>2. ASSUME pc \in {"after", "changes"}, pc' = "reap", next' = 1, late' = late
          PROVE  Unmoved' < Unmoved
      BY <1>4, <3>2, MovesRunOut
    <3>. QED
      BY <2>3, <3>1, <3>2 DEF AfterSpawned, ChangesSpawned, StartReaping
  <2>4. CASE NothingToReap \/ \E c \in Commands : Collect(c) \/ GiveUp(c)
    <3>1. pc = "reap" /\ next' = next + 1 /\ next <= All /\ UNCHANGED <<pc, late>>
      BY <2>4, CountsInOrder DEF NothingToReap, Collect, GiveUp, Reaping, All
    <3>. QED
      BY <1>4, <3>1, MovesRunOut
  <2>5. CASE Deadline
    <3>1. ~late /\ late' /\ late' \in BOOLEAN /\ UNCHANGED <<pc, next>>
      BY <2>5 DEF Deadline, TypeOK
    <3>. QED
      BY <1>4, <3>1, MovesRunOut
  <2>6. CASE End
    <3>1. pc = "reap" /\ pc' = "ended" /\ UNCHANGED <<next, late>>
      BY <2>6 DEF End
    <3>. QED
      BY <1>4, <3>1, MovesRunOut
  <2>. QED
    BY <1>5, <2>1, <2>2, <2>3, <2>4, <2>5, <2>6 DEF RunStep
<1>6. ASSUME NEW c \in Commands, Drain(c) PROVE StepsLeft' < StepsLeft
  <2>1. Unmoved' = Unmoved
    BY <1>6 DEF Drain, Unmoved
  <2>2. Cardinality(Unread') < Cardinality(Unread)
    BY <1>1, <1>6, ReadingStep
  <2>. QED
    BY <1>2, <1>3, <1>4, <2>1, <2>2
<1>7. CASE RunStep
  <2>1. CASE \E c \in Commands : Drain(c)
    BY <1>3, <1>4, <1>2, <1>6, <2>1
  <2>2. CASE \A c \in Commands : ~Drain(c)
    BY <1>2, <1>3, <1>4, <1>5, <1>7, <2>2
  <2>. QED
    BY <2>1, <2>2
<1>8. CASE Killed /\ ~RunStep
  <2>1. pc' = "killed" /\ UNCHANGED <<next, late>>
    BY <1>8 DEF Killed
  <2>2. Unmoved' <= Unmoved
    BY <1>4, <2>1, MovesRunOut
  <2>. QED
    BY <1>2, <1>3, <1>4, <1>8, <2>2
<1>9. CASE (\E c \in Commands : CommandStep(c)) /\ ~RunStep
  <2>1. UNCHANGED <<pc, next, late>>
    BY <1>9 DEF CommandStep, Write, Finish
  <2>2. Unmoved' = Unmoved
    BY <2>1 DEF Unmoved
  <2>. QED
    BY <1>2, <1>3, <1>4, <1>9, <2>2
<1>. QED
  BY <1>7, <1>8, <1>9 DEF Next

LEMMA KilledAfterwardsStep ==
  ASSUME TypeOK, KilledAfterwards, [Next]_vars
  PROVE  KilledAfterwards'
<1>1. \A c \in Commands : status'[c] = "killed" => status[c] = "killed" \/ pc \in Gone
  BY DEF Next, RunStep, CommandStep, Spawn, BeforeSpawned, Work, AfterSpawned, ChangesSpawned,
         NothingToReap, Deadline, End, Drain, Collect, GiveUp, Killed, Write, Finish, TypeOK,
         vars, commands, PipesOpen
<1>2. pc \in Gone => pc' \in Gone
  BY DEF Next, RunStep, CommandStep, Spawn, BeforeSpawned, Work, AfterSpawned, ChangesSpawned,
         NothingToReap, Deadline, End, Drain, Collect, GiveUp, Killed, Write, Finish,
         vars, Gone, Spawning, Reaping
<1>. QED
  BY <1>1, <1>2 DEF KilledAfterwards

LEMMA NobodyHoldsItUp ==
  ASSUME TypeOK, KilledAfterwards, pc \notin Gone
  PROVE  SomethingToDo
<1>1. CASE pc # "reap"
  BY <1>1 DEF TypeOK, SomethingToDo, Starting
<1>2. CASE pc = "reap" /\ next \in Commands
  <2>1. status[next] \in {"off", "refused", "running", "ok", "failed"}
    BY <1>2 DEF TypeOK, KilledAfterwards, Over, Gone
  <2>. QED
    BY <1>2, <2>1 DEF SomethingToDo, Reaping
<1>. QED
  BY <1>1, <1>2 DEF SomethingToDo

(* A run has a bounded number of steps left at any moment, which no        *)
(* command can add to, and until it has ended there is one that it can     *)
(* take, whatever its commands do or leave undone: all of RunEnds but the  *)
(* fairness of the scheduler.                                              *)
THEOREM RunCannotBeHeldUp ==
  Spec => /\ [](StepsLeft \in Nat)
          /\ [][StepsLeft' <= StepsLeft /\ (RunStep => StepsLeft' < StepsLeft)]_vars
          /\ [](pc \notin Gone => SomethingToDo)
<1>1. Init => KilledAfterwards
  BY DEF Init, KilledAfterwards
<1>2. HooksInv => TypeOK
  BY DEF HooksInv
<1>3. HooksInv /\ HooksInv' /\ [Next]_vars
      => [StepsLeft' <= StepsLeft /\ (RunStep => StepsLeft' < StepsLeft)]_vars
  BY RunGoesOn DEF HooksInv
<1>4. TypeOK => StepsLeft \in Nat
  BY StepsAreBounded
<1>5. TypeOK /\ KilledAfterwards /\ [Next]_vars => KilledAfterwards'
  BY KilledAfterwardsStep
<1>6. TypeOK /\ KilledAfterwards => (pc \notin Gone => SomethingToDo)
  BY NobodyHoldsItUp
<1>. QED
  BY <1>1, <1>2, <1>3, <1>4, <1>5, <1>6, HooksInvHolds, PTL DEF Spec
=============================================================================
