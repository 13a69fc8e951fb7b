---------------------------- MODULE CommandHooks ----------------------------
(***************************************************************************)
(* The commands a run of edge_manage spawns (the hooks run_before,         *)
(* run_after and run_after_changes): run_command_list starts them and      *)
(* waits for none, reap_command_list reports them at the end of the run,   *)
(* in the order they were started and under one deadline for all.          *)
(*                                                                         *)
(* A command writes its output into a pipe of bounded size, which is read  *)
(* while the command is reaped only.  What a command does is up to it.     *)
(*                                                                         *)
(* A definition whose comment starts with "Mutant" is no part of the       *)
(* specification: it is the definition that follows it, with a slip.       *)
(***************************************************************************)
EXTENDS Integers

CONSTANTS
  BeforeCount,  \* how many commands run_before lists
  AfterCount,   \* ... run_after
  ChangesCount, \* ... run_after_changes
  PipeSize,     \* capacity of a pipe
  MaxOutput     \* bound on what a command writes

ASSUME CountsAreNumbers ==
  /\ BeforeCount \in Nat /\ AfterCount \in Nat /\ ChangesCount \in Nat
  /\ PipeSize \in Nat \ {0} /\ MaxOutput \in Nat

(* The commands in the order in which they are started.                    *)
Commands == 1 .. (BeforeCount + AfterCount + ChangesCount)

VARIABLES
  pc,
  next,     \* the next command to start or to reap
  changes,  \* any_changes of the run
  status,   \* what has become of each command
  written,  \* what each command has written into its pipe
  captured, \* what the run has read out of it
  report,   \* what the run has logged of each command (given_up: "still running")
  late      \* has the deadline of the reaping passed?

vars == <<pc, next, changes, status, written, captured, report, late>>
commands == <<status, written>>
log == <<captured, report>>

(* The hook whose commands a stage of the run starts ends at this command. *)
LastOf(stage) ==
  CASE stage = "before"  -> BeforeCount
    [] stage = "after"   -> BeforeCount + AfterCount
    [] stage = "changes" -> BeforeCount + AfterCount + ChangesCount
Spawning == {"before", "after", "changes"}
Over == {"off", "refused", "ok", "failed", "killed"}
Pipe(c) == written[c] - captured[c]
Gone == {"ended", "killed"}
PipesOpen == pc \notin Gone

Init ==
  /\ pc = "before" /\ next = 1 /\ changes = FALSE
  /\ status = [c \in Commands |-> "off"]
  /\ written = [c \in Commands |-> 0] /\ captured = [c \in Commands |-> 0]
  /\ report = [c \in Commands |-> "none"]
  /\ late = FALSE

-----------------------------------------------------------------------------
(* The run. *)

(* Mutant: one command more is started than the hook lists. *)
SpawnOneMore ==
  /\ pc \in Spawning /\ next <= LastOf(pc) + 1
  /\ next' = next + 1
  /\ status' = [status EXCEPT ![next] = "running"]
  /\ UNCHANGED <<pc, changes, written, log, late>>
(* Popen starts the command, or raises and the failure is logged.          *)
Spawn ==
  /\ pc \in Spawning /\ next <= LastOf(pc)
  /\ next' = next + 1
  /\ \/ status' = [status EXCEPT ![next] = "running"] /\ UNCHANGED report
     \/ /\ status' = [status EXCEPT ![next] = "refused"]
        /\ report' = [report EXCEPT ![next] = "refused"]
  /\ UNCHANGED <<pc, changes, written, captured, late>>

BeforeSpawned ==
  /\ pc = "before" /\ next > LastOf("before")
  /\ pc' = "tests"
  /\ UNCHANGED <<next, changes, commands, log, late>>

(* The edges are tested and the zones written.                             *)
Work ==
  /\ pc = "tests"
  /\ pc' = "after"
  /\ changes' \in BOOLEAN
  /\ UNCHANGED <<next, commands, log, late>>

StartReaping == pc' = "reap" /\ next' = 1

AfterSpawned ==
  /\ pc = "after" /\ next > LastOf("after")
  /\ IF changes THEN pc' = "changes" /\ UNCHANGED next ELSE StartReaping
  /\ UNCHANGED <<changes, commands, log, late>>

ChangesSpawned ==
  /\ pc = "changes" /\ next > LastOf("changes")
  /\ StartReaping
  /\ UNCHANGED <<changes, commands, log, late>>

(* A command that was never started has no handle to reap.                 *)
Reaping(c) == pc = "reap" /\ next = c /\ status[c] \notin {"off", "refused"}
NothingToReap ==
  /\ pc = "reap" /\ next \in Commands /\ status[next] \in {"off", "refused"}
  /\ next' = next + 1
  /\ UNCHANGED <<pc, changes, commands, log, late>>

(* communicate reads while there is time ...                               *)
Drain(c) ==
  /\ Reaping(c) /\ ~late /\ Pipe(c) > 0
  /\ captured' = [captured EXCEPT ![c] = written[c]]
  /\ UNCHANGED <<pc, next, changes, commands, report, late>>

(* Mutant: wait() instead of communicate(): the pipe is not read. *)
WaitOnly(c) ==
  /\ Reaping(c) /\ ~late /\ status[c] \in {"ok", "failed"}
  /\ report' = [report EXCEPT ![c] = status[c]]
  /\ next' = next + 1
  /\ UNCHANGED <<pc, changes, commands, captured, late>>
(* ... until the command has ended and all of its output is read.          *)
Collect(c) ==
  /\ Reaping(c) /\ ~late /\ Pipe(c) = 0 /\ status[c] \in {"ok", "failed"}
  /\ report' = [report EXCEPT ![c] = status[c]]
  /\ next' = next + 1
  /\ UNCHANGED <<pc, changes, commands, captured, late>>

(* Mutant: communicate is called without a timeout. *)
NoDeadline == FALSE /\ UNCHANGED vars
(* The deadline is the clock's alone.  It may pass before the first command *)
(* is reaped (command_reap_timeout may be 0), while a running one is waited *)
(* for, and while the output of ended ones is read and logged.             *)
Deadline ==
  /\ pc = "reap" /\ ~late
  /\ late' = TRUE
  /\ UNCHANGED <<pc, next, changes, commands, log>>

(* Mutant: the first command that is given up ends the loop. *)
GiveUpAll(c) ==
  /\ Reaping(c) /\ late
  /\ report' = [report EXCEPT ![c] = "given_up"]
  /\ next' = LastOf("changes") + 1
  /\ UNCHANGED <<pc, changes, commands, captured, late>>
(* Mutant: the timeout is granted to each command anew. *)
TimeoutEach(c) ==
  /\ Reaping(c) /\ late
  /\ report' = [report EXCEPT ![c] = "given_up"]
  /\ next' = next + 1 /\ late' = FALSE
  /\ UNCHANGED <<pc, changes, commands, captured>>
(* With no time left communicate raises TimeoutExpired after its first     *)
(* select, also for a command that ended long ago.                         *)
GiveUp(c) ==
  /\ Reaping(c) /\ late
  /\ report' = [report EXCEPT ![c] = "given_up"]
  /\ next' = next + 1
  /\ UNCHANGED <<pc, changes, commands, captured, late>>

(* The run is over, or is killed; its ends of the pipes are closed.        *)
End ==
  /\ pc = "reap" /\ next \notin Commands
  /\ pc' = "ended"
  /\ UNCHANGED <<next, changes, commands, log, late>>

Killed ==
  /\ pc \notin Gone
  /\ pc' = "killed"
  /\ UNCHANGED <<next, changes, commands, log, late>>

RunStep ==
  \/ Spawn \/ BeforeSpawned \/ Work \/ AfterSpawned \/ ChangesSpawned
  \/ NothingToReap \/ Deadline \/ End
  \/ \E c \in Commands : Drain(c) \/ Collect(c) \/ GiveUp(c)

-----------------------------------------------------------------------------
(* The commands. *)

(* A write waits while the pipe is full.  Without a reader SIGPIPE ends the *)
(* command: Popen restores the default action of that signal.              *)
Write(c) ==
  /\ status[c] = "running" /\ written[c] < MaxOutput
  /\ IF PipesOpen
     THEN /\ Pipe(c) < PipeSize
          /\ written' = [written EXCEPT ![c] = @ + 1]
          /\ UNCHANGED status
     ELSE /\ status' = [status EXCEPT ![c] = "killed"]
          /\ UNCHANGED written
  /\ UNCHANGED <<pc, next, changes, log, late>>

Finish(c, result) ==
  /\ status[c] = "running"
  /\ status' = [status EXCEPT ![c] = result]
  /\ UNCHANGED <<pc, next, changes, written, log, late>>

CommandStep(c) == Write(c) \/ \E result \in {"ok", "failed"} : Finish(c, result)

Next == RunStep \/ Killed \/ \E c \in Commands : CommandStep(c)

(* The run goes on by itself; no command need ever do anything.            *)
Spec == Init /\ [][Next]_vars /\ WF_vars(RunStep)

-----------------------------------------------------------------------------
(* The type of every variable.  A pipe holds no more than its size, and the *)
(* run has read nothing that was not written.                              *)
TypeOK ==
  /\ pc \in Spawning \cup Gone \cup {"tests", "reap"}
  /\ next \in 1 .. (LastOf("changes") + 1)
  /\ changes \in BOOLEAN /\ late \in BOOLEAN
  /\ status \in [Commands -> Over \cup {"running"}]
  /\ written \in [Commands -> 0 .. MaxOutput]
  /\ captured \in [Commands -> 0 .. MaxOutput]
  /\ \A c \in Commands : Pipe(c) \in 0 .. PipeSize
  /\ report \in [Commands -> {"none", "refused", "given_up", "ok", "failed"}]

(* An exit status in the log is the command's own, and the output logged   *)
(* with it is all the command ever wrote (reap_command_list reads the pipe *)
(* to its end before it takes the exit status).                            *)
ReportsAreTrue ==
  \A c \in Commands :
     report[c] \in {"ok", "failed"} =>
        status[c] = report[c] /\ captured[c] = written[c]

(* "The timeout is a deadline shared by every command rather than a        *)
(* per-command wait": once a command has been given up, nothing is waited  *)
(* for and nothing read any more.  All commands after it that have started *)
(* are given up too, those that ended long before as well, so that what a  *)
(* run says of its hooks' ends always concerns the first of them, without  *)
(* a gap.                                                                  *)
ReportsEndAtDeadline ==
  \A c, d \in Commands :
     report[c] = "given_up" /\ c < d => report[d] \notin {"ok", "failed"}

(* A run that was not killed has logged something of every command of its  *)
(* hooks: an exit status, that it did not start, or that it was given up;  *)
(* one command's timeout never hides the commands after it.                *)
EveryCommandReported ==
  pc = "ended" =>
     \A c \in Commands :
        report[c] = "none" <=> (c > LastOf("after") /\ ~changes)

(* No command can hold up the run, whatever it does: a hook may sleep      *)
(* forever, or never stop writing (the deadline of reap_command_list).     *)
RunEnds == <>(pc \in Gone)
=============================================================================
