# edgemanage, verified

TLA+ models of edgemanage, the program that decides which CDN edges the zones
of a "dnet" point at. The models are translated from the source under `src/`;
TLC checks them on small instances and TLAPS proves the main results for every
instance. Paths below are relative to the repository.

Run a check with `tlc -workers 2 -config <run>.cfg <module>.tla`, a proof with
`tlapm <name>Proofs.tla`. `PROJECT.json` lists the runs, the lines every
definition models, the hazards and the theorems.

## The system

| component | state it keeps | operations |
|---|---|---|
| run of `edge_manage` (`edgemanage/edge_manage`, `statefile.py`) | state file (live list, rotation cycle, zone mtimes, canaries, rotations, last run), flat live list | load, check the gap of 30 s, lock, `main`, save |
| edge tests (`do_edge_tests`, `edgetest.py`) | futures, the process-wide `socket.getaddrinfo` | fetch per host on a thread pool, consume results, canary killer |
| judgement (`decisionmaker.py`) | judgement per host | `check_threshold` |
| selection and publication (`make_edges_live`, `edgelist.py`) | live edges of the run, zone files, canaries on record, in/out flags | health-based or timed selection, zone writing, edge states |
| edgestore (`edgestate.py`) | one JSON file per edge: fetch times, averages, mode, state, health | add a value, set mode, state, health; atomic replacement |
| lock (`util.acquire_lock`) | an fcntl lock on one file per host | taken by runs, `edge_conf` and the adapter |
| `edge_conf` | none | sets an edge's mode under the lock |
| adapter (`adapter.py`) | edge list files | lock and unlock, reconcile the edge lists |
| hooks (`util.run_command_list`) | child processes | spawn, reap with one deadline |
| Nagios checks, `edge_query`, `monitor.py`, `scripts/check_versions.py`, docker and tests | none that a decision reads | reports, metrics, harness |

How they interact: cron (or a daemon's loop) starts a run for one dnet. The run
loads the state file, takes the lock, loads the edgestores, tests every edge
and canary, adds the fetch values to the edgestores, judges them, chooses the
live edges, visits the zones, sets the in/out flags, writes the flat live list,
spawns the hooks and writes the state file. Everything is shared through
files: what one run leaves is all that the next one knows. `edge_conf` changes
an edgestore between runs.

What is hard: three kinds of concurrency (threads of one run, processes of one
host, a run against operators' files), a sequence of several non-atomic writes
with no recovery code, decisions that depend on what an earlier run recorded
rather than on what is on disk, randomness in the rotation, and boundaries
(`==` on counts that forced edges can overshoot). `PROJECT.json` lists these as
hazards, at their lines.

What makes each component correct:

- *selection*: the best passing edges serve, healthy ones are not churned, a
  failing or unavailable edge never newly enters, the set never becomes empty;
- *timed rotation*: one edge, of the best tier, moved in time, nobody starved;
- *publication*: zone files, flags, live list and state file agree between runs;
- *tests*: every host is measured once, the killer's verdict is total and does
  not depend on timing, name overrides do not leak;
- *lock*: no two processes past it, no lost update of an edgestore;
- *edgestore*: bounded, newest value last, replaced atomically;
- *hooks*: a finished command is reported as finished; nobody waits for one.

## The modules

### EdgeHealth

The modes and healths of `const.py` and the order of the healths.

### EdgeManage: the runs of one dnet

One behaviour is a sequence of runs. `Begin` starts one: the state file is
loaded and the inputs of the run are chosen from the sets the constants give:
edge list, modes, what the tests say of each edge, averages, canary file,
canaries' healths, templates, options. Then the actions follow
`make_edges_live` and the rest of `main`:

| code | model |
|---|---|
| `StateFile.__init__`, load | `Init`, `Begin` |
| `check_last_live`, force and blindforce loops | `StillHealthy`, `ForcedFirst`, `KeepStillHealthy` |
| "Old edge list is still healthy" | `KeepHealthyList` |
| loop over the tiers, its `break` and its `else` | `StartFilling`, `FillTier` (one iteration), `ReAddLastLive` |
| `select_time_rotation_edge` | `ServeForced`, `Rotate`, `KeepCurrent`, `ServeLastResort`, all by `Serve` |
| loop over the zones, `continue` or write | `SkipZone(z)`, `WriteZone(z)`, both by `Visit(z)` |
| "let's set their states" | `SetEdgeStates` |
| live list, state file, exit | `WriteLiveList`, `SaveState`, `EndDryRun`, `Exit` |
| `time.time()` | `Tick`: `age` counts ticks since the last rotation |
| a kill or an uncaught exception | `Crash`: between two steps, or in the middle of a write |

Variables are grouped as in the code: what is in the state file, the other
files, and the memory of the run. `changed` and `anyChanges` are
`edgelist_changed` and `any_changes`; `live` stands for `edgelist_obj`, in which
every edge is live; `resolved` is its cache of addresses; `todo` holds the
zones `glob` has still to give, in any order.

Abstractions. Edges are numbers, so that "first by name" is the least one; the
order of fetch times is given by `run.average`. A zone file is the set of hosts
whose addresses it lists (none: torn or empty). A template's modification time
is a value that may or may not change. Any mixture of judgements may come out of
any run. `health`, `rotation_history` and the fetch times of the edgestores are
written and never read back by this part, and are left out; so are log and
metrics. Runs exclude each other here; whether they do is RunLock's subject.
Canaries are addresses and edges are names, so that the two never meet. `open(path, "w")` truncates at once, so a kill
within a write leaves an empty file; for the state file this means that no run
starts any more (`stateReadable`).

### MCEdgeManage, MCEdgeTests, MCRotation

Choice sets and canary files for the small instances. MCRotation adds a history variable:
how many others each edge has watched enter service since its own turn.

### EdgeTests: the tests of one run

The main thread submits one fetch per host; workers take them in order, enter
`OverrideDNS`, connect, leave it; the main thread consumes results in any order
and polls the canary killer after each. `getaddrinfo` is the attribute all
threads share; `saved[h]` is `orig_getaddrinfo` of h's override. A result is a
fetch time or FETCH_TIMEOUT. The retries of a refused connection, each with an
override of its own, are one fetch here. `CanaryData` is the canary file, in which
zones may share a canary: it is fetched and judged once, but the killer goes by
the file's entries and gives it a timeout for each (`Entries`).

### RunLock: the processes of a host

`edge_manage` and `edge_conf` processes, one edgestore, the state file's
`last_run`, and the lock. `store[p]` and `state[p]` are what process p has read. `GiveUp` is the gap check, which
`--force` waives; `LockRefused` the exception. `Die` is a kill: the kernel
drops the lock. `DaemonSpec` adds `daemon_setup` and the daemon's loop: an fcntl
lock belongs to the process that took it, and the two forks leave it behind.

### DnetHost: EdgeManage's files under RunLock's processes

DnetHost extends RunLock with what a dnet's runs share: the live list on record
(`recorded`) and the one in the zone files (`served`). Each RunLock action of a
run is joined with what it does to them: `Read` copies the record before the
lock is taken; `Choose`, `WriteSome` and `WriteAll` happen under it; `Save` records
what was chosen. Which zones a run has to write is its `duty`: all if the list is
reported as changed or the update forced, some (those with a new template or canary)
if it is not, none if the list is not established. The duty is chosen beside the
list, not from it: the last resort may have changed the list and report no change
(`edgemanage.py:600`), and `main` records also a list no zone was visited for
(`edgemanage.py:602`, `edge_manage:156`). A live list is a value here, `served` the
lists the zone files hold; EdgeManage has the inside. There are no dry runs: in these
variables one is a run killed before it wrote anything.

### DnetPromise: what a dnet is promised

The abstract specification of EdgeManage. A run learns what it has to work with
(`Judge`), settles on its edges in one step (`Choose`: from those on record and
those fit; never on nothing if something serves), gives zones what it settled on
if that is as many edges as configured (`Publish`), and records it (`Commit`) or
does not (`Abandon`: a dry run or a kill). EdgeManage states the mapping in
`Promise == INSTANCE DnetPromise WITH ...`: `chosen` is `live` once the selection
is over and `None` before, `serving` is `lastLive`, `dns` is `zoneFile`, and what
a run may use is computed from its inputs. `KeepsPromise` is the refinement.

### EdgeStore: one edgestore

The file, a process at a time that loads it (a run or an `edge_conf`), and a
clock that may be set back. `AddValue` is `add_value` with both prunings, `Judge`
is `check_threshold` and `set_health`, `NotJudged` an unavailable edge,
`AddRotation`, `SetState` and `SetMode` the other setters. Each leads through a
dump in two steps, `WriteTemp` and `Rename`, with `Kill` between any two. The
time of a fetch is a tick, a history a function from ticks to fetch times;
whether a tick is in the first minute of an hour is `HourTimes`. `measured`,
`asked`, `behind` and `setBack` are history variables: what was measured, which
modes the operator has set, whether the clock has misbehaved.

### CommandHooks: the hooks of one run

The commands of `run_before`, `run_after` and `run_after_changes` are numbers in
the order in which they start. `Spawn` may fail; a command writes, blocks on a
full pipe, ends, or never ends; the run goes through its tests, and then
`communicate` reads the pipes of one command after another until the shared
deadline has passed (`late`), which any later command meets with no time left
(`GiveUp`). The deadline is the clock's alone: `Deadline` is possible as soon as the
reaping begins (`command_reap_timeout` may be 0), while a command runs and while the
output of ended ones is read and logged. When the run has ended, writing to its pipes ends a command.

### The proof modules

`EdgeManageProofs`, `PublicationProofs` and `RotationProofs` (each extends the one
before) are about EdgeManage and MCRotation; `EdgeTestsProofs`, `RunLockProofs`, `DnetHostProofs`,
`EdgeStoreProofs` and `CommandHooksProofs` about the modules they are named for. See
"What is proved".

## The runs

Passing runs:

| run | question | instance | states |
|---|---|---|---|
| `health_select` | are the right edges chosen, kept and never all lost? | 3 edges, required 1 or 2, two of them equally fast, one edge in any mode or two forced, one edge or all off the list, three healths | 7.2 M |
| `timed_rotation` | is one edge of the best tier served, do zones follow it, is DnetPromise kept? | 3 edges, timer of 2 ticks less 1 of grace, forced edges, dry runs, a template that may be missing, a name that may not resolve | 1.0 M |
| `canary_zones` | do canary records, flags and zone contents agree, is DnetPromise kept? | 3 edges of which 2 serve and one may not resolve, 2 zones, 2 canaries, dry runs | 3.4 M |
| `crash_repair` | is a partial list ever published, what do later runs repair, is DnetPromise kept? | 2 edges, 2 zones, 1 canary, both selections, `--force-update` | 1.3 M |
| `rotation_fair` | does every edge of a healthy pool keep its turn? | 4 edges, always healthy, fair | 4.7 k |
| `host` | do processes exclude each other, is no update lost, do the zones serve what is on record, is the lock given up? | 2 runs, 1 `edge_conf`, 1 tick, 2 values, 2 live lists with any duty, kills | 0.5 M |
| `edge_tests` | is the killer's verdict total and independent of timing, what values does each host get? | 1 edge, 6 zones with 4 canaries, of which 2 are shared (one of them unavailable), 2 workers, killer at 2 | 0.1 M |
| `edge_store` | is the history bounded, in order and judged as it should be, is the mode kept? | history of 2, window of 1 of 4 ticks, 4 fetch times, 2 modes, kills, clock set back | 3.4 M |
| `hooks` | are reports true and complete, what is reported once the deadline has passed, does the run end? | hooks of 2, 1 and 1 commands, pipes of 1, output of 2, a deadline at any moment | 0.4 M |

Runs that find a disagreement with what the repository says:

| run | what it shows |
|---|---|
| `stale_zones` | the last resort (`edgemanage.py:588-600`) sets `edgelist_changed = False` even when re-adding old edges changes and completes the list: a run that "successfully established" its edges writes no zone |
| `daemon_lock` | a daemon runs without the lock it took before it forked |
| `override_dns` | two overlapping `OverrideDNS` leave an override in force after the tests |

### Bounds

Three edges are the least with which a list of two has both an edge to lose and
one to win, tiers between outsiders included; in `health_select` the first two
are equally fast, and two forced edges overfill a list of one; four edges in
`rotation_fair` make a cycle long enough to be cut. Two zones are the least for
partial publication. Two canaries allow a replacement. Number of runs and number
of kills are not bounded: the state spaces are finite because everything a run
leaves is. `age` stops at the interval, beyond which "due" does not change, and
MCRotation's counters stop one beyond the longest wait (`MaxWaited`).
`health_select` leaves `pass_average` and `pass` out, which only lengthen the
tier loop. RunLock bounds the clock (`MaxTime`) and the values an edgestore
gains (`MaxValues`); two complete runs with an `edge_conf` and kills between their
steps fit (one tick is the gap between them), which is what it takes to overtake a
run, or to repair what a killed or silent one left; kills are not counted. In
`edge_store` a history of two is pruned by the third fetch and the clock allows
five; the fetch times are one below GOOD_ENOUGH, one above it whose average with the
first is below, one whose average is not, and the timeout. In `edge_tests` the
shared canary 5 is submitted last, so that it may be killed while queued, and the
shared canary 3 is unavailable. In `hooks` an output of two fills a pipe of one (a
command that writes forever would be read until the deadline, which the model leaves
to fairness and this bound), two commands of one hook compete for the deadline, and
`run_after_changes` may or may not be due.
`canary_zones` and `crash_repair` use the symmetry of zones and canaries; neither
checks a liveness property. Deadlock is not checked where the system may stop:
under kills (an unreadable state file), and in EdgeTests and CommandHooks, which
end.

### Fairness

`RotationSpec` assumes `RunsGoOn`: weak fairness of a run's steps and of the
clock. cron starts runs forever and a step waits for nothing but bounded
timeouts. Nothing is assumed of the random pick: `EveryEdgeGetsATurn` holds for
every sequence of choices, and `NoEdgeStarves` bounds the wait. EdgeTests
assumes that some thread proceeds while one can: fetches end by their timeout.
DnetHost assumes it of the holder of the lock only (`Progress`): its fetches,
lookups and the reaping of hooks have timeouts; nothing is assumed of processes
without the lock, of operators or of the clock. CommandHooks assumes it of the
run and of its deadline, and nothing of the commands.

## What is proved

`EdgeManageProofs`, from the assumptions on the constants alone (finitely many
edges, canaries that are no edges, `None` that is no value, typed choice sets):

- `TypeCorrect`: `TypeOK` for `SpecWithCrash`. `TypeOK` is inductive: one step
  per group of actions; that the selections choose edges only is
  `SelectionsAreEdges`. `CrashFree` carries the results over to `Spec`.
- `LiveListNeverEmptied`: no step empties a live list, kills included. Only a
  save writes `lastLive` (`LiveListSaved`), so the invariant needed is that a
  run that has finished selecting holds a nonempty list if there was one before
  (`LiveSurvives`). It is disturbed by every way out of the selection: the kept
  list has the required number of edges, which is positive; so has a filled
  one; the last resort adds the old ones; a minimum exists of every nonempty
  set of edges (`LeastExists`, from the well-foundedness of the naturals).
- `NewLiveEdgesPass`: every newcomer passed in this run or is blindforced. The
  invariant extends the property to the tier loop, before the selection is done
  (`NewcomersPass`).
- `CanaryRecordsTrue` (without kills, with which it is false): the property
  speaks of idle states only; the invariant says at every moment where the true
  record is: in the memory of a run that writes, in the state file otherwise
  (`CanariesOnRecord`).

The quality of a choice, for `SpecWithCrash` too, so that no kill lets a bad one
through:

- `TimedServesTheBest`: by cases on the four ways a timed run may choose. That the
  current edge is one edge (`CurrentEdgeIsOne`) and exists while a live edge is
  judged (`CurrentEdgeExists`), and that without candidates no newcomer passes
  (`NoCandidate`), is what makes keeping it right.
- `HealthyEdgesStay`, `HealthyListsAreStable`: the loop over the still healthy edges
  keeps all of them or fills the list (`KeptIsAllOrEnough`); a run comes to fill
  tiers only if that list is not complete (`FillsForAReason`), so that a complete
  one passes through unchanged (`CompleteListIsKept`).
- `BestEdgesServe`: the property fails half-way through the tiers. The invariant,
  `TiersInOrder`, says of the tier loop that every better tier is exhausted
  (`TierIsExhausted`) and that what was taken from the last one is its fastest part.

`PublicationProofs`. A run's `Course` is needed everywhere: it has all templated
zones to visit when it comes to publish and none once it goes on with a full list.

- `ZonesStayFull` (while all names resolve; with kills): a run writes only when its
  live list has the length it requires, and a canary replaces an edge, so that a host
  list is as long as the live list (`HostListsAreFull`, `WrittenIsFull`).
- `EdgeStatesFollow` (while the edge list is constant; an edge that leaves the list
  keeps its flag): the flags follow the chosen list from the moment a run that is
  not dry has set them (`InService`).
- `UpdatesDoRepair` (with kills): a run that may skip no zone has rewritten every
  zone it has visited (`VisitedAreRewritten`), whatever stood there.
- `SteadyZonesServe`, `SteadyEdgesAreServed`, `SteadyListIsCurrent` (without kills;
  the last without dry runs): zones and flat live list serve what is on record, and
  a run that has established its edges has every zone serve them. In general this is
  false (`stale_zones`). It holds under `SteadyDemand`, which asks nothing of a dnet
  rotated by time, and of any other that it asks for a constant number of edges,
  forces in no more than that, and always has as many that are not `unavailable` and
  do not fail, or are blindforced. Then no recorded list is longer than the next
  (`ListsFit`), and the tiers are never exhausted before the list is full, since a
  tier exhausted is a tier that is live (`TiersInOrder`, `FillsUp`): so the last
  resort, which hides a change, is never reached (`NoLastResort`), and a run knows
  when its list is not the recorded one (`ChangesShow`). With that a zone not yet
  visited serves the recorded list, a visited one the chosen list (`ZonesInStep`).
- `PromiseKept`: every behaviour of `SpecWithCrash` is one of DnetPromise under the
  mapping. Steps before the end of a selection are `Judge` (`LearningIsJudge`), the
  step that ends it is `Choose` (`SelectingIsChoose`), whichever way out it takes; a
  zone that is written is `Publish`; a save is `Commit`; a dry run's end and a kill
  are `Abandon`; the rest stutters. `LiveSurvives` and `NewcomersPass` make the last
  two conditions of `Choose` true.

`RotationProofs`, for `NoEdgeStarves`: in a pool of N >= 2 edges that are all listed,
available and judged alike (`HealthyPool`) every edge is live again after at most
2N - 3 others, wherever runs are killed (`EveryEdgeComesRound`), hence also in
`RotationSpec` (`NoEdgeIsLeftOut`). By `ChoiceInOrder` a run keeps the live edge, or
takes one new to the cycle, or starts a cycle of the live edge and another. By
`CycleInOrder` an edge used in this cycle has waited for at most the others of the
cycle, one not yet used for at most those and the N - 1 others of the cycle before,
so that the number of edges used measures the wait. A kill only returns to the
recorded cycle.

`EdgeTestsProofs`, for every number of hosts and workers and every limit of the
killer: `TypeCorrect`, `KillsAreTotal`, `EveryHostIsMeasured`, `OrderDoesNotMatter`.
The invariant `Books` is what the main thread has written down at any moment: a
value for each result it has taken (`EdgeBooks`, `CanaryBooks`), a judgement for each
measured canary (`JudgedBooks`), and a kill exactly if the failures among them have
reached the limit (`KillerBooks`). A killed canary has a timeout for each of its
entries and may get one value more, from a fetch that was under way or because it is
unavailable. The entries of one canary are counted in the set of zones, which must be
finite (`EntriesAreCounted`).

- `OneWorkerRestores`: a pool of one worker leaves the system's resolver in force
  after the tests, since it never nests two overrides (`OneAtATime`): the fault that
  `override_dns` shows takes two.
- `TestsRunOut`: every step uses up one of finitely many (`StepsLeft`: a host passes
  five points at most and none twice), and until the tests are done somebody has
  one to take (`SomethingToDo`): a future is never waited for that no worker will
  finish, the cancelled ones included.

`RunLockProofs`, for any number of processes: `TypeCorrect`, `LockExcludes`,
`ModesSurvive`, `ValuesSurvive`. The inductive invariant `IInv` is `TypeOK`,
"who is past the lock owns it" and "a copy read under the lock equals the
file". `TypeOK` alone is not inductive: the bound on an edgestore's values
depends on the copy being current, hence on mutual exclusion.

`DnetHostProofs`: `HostImplementsRunLock` (each step of the host is a step of
RunLock or leaves it alone), from which `HostExcludes` and the other theorems of
RunLock follow; and `ZonesFollowRecord`. Its invariant says of every moment who
vouches for the zones: the run that has written them (`WritersServe`), or the
record, if nobody has (`ZonesAgree`); the word of a run past the lock is the
record unless it was overtaken (`RunsKnow`); a run about to save has written every
zone if that was its duty (`SaversAreDone`). The exceptions are those of `parted`:
overtaken, killed between writing and saving, or saved with a new list and not all
zones written; it ends when a run that has written all zones saves. Mutual exclusion is needed in each. `LockCannotBeKept`:
whoever holds the lock has a step of its own to take (`CanGoOn`), short of the bound on
fetch values, out of at most seven that no other process can add to (`TenureLeft`).

`EdgeStoreProofs`, for every history length, clock and set of fetch times:
`TypeCorrect`, `ModesAreKept`, `HistoriesAreBounded`, `FailuresAreSeen`. What a
process holds is bounded as the file is (`AllShort`), since one entry leaves for
each that enters (`WithValueIsShort`); for the hourly averages the bound is one
more (`WithHourIsShort`). A mode travels with what was loaded (`ModeFollows`). A
failed fetch is seen because a value that is not behind the history enters as its
last and survives the pruning (`NewValueIsLast`), and no judgement is older than
the fetch (`LastIsFetched`); GOOD_ENOUGH must not exceed FETCH_TIMEOUT, otherwise
a timeout is good enough.

- `HistoriesAreNewest`: while the clock only advances, file and memory hold the
  newest of the values measured, in their order (`OrderKept`); a value on its way
  to the file counts for the process already and not for the file (`Carried`), so
  that a kill between the two steps of a dump loses it and nothing else.
- `FasterIsRankedNoWorse`: the order of the tests in `check_threshold` is right. With
  a faster last value each sum is no greater, by a minimal counterexample over the
  ticks summed; a run that judges has a value to judge (`FetchIsKept`).

`CommandHooksProofs`, for every number of commands and pipe size: `TypeCorrect`,
`ReportsTrue`, `DeadlineIsShared`, `ReportsComplete`. The invariant keeps which
commands have been started (`StartedInOrder`, `ChangesOnlyIfChanged`), what the
log says of each (`LogFollows`) and that nobody is given up before the deadline, so
that everybody reaped after one given up is so too (`DeadlineSplitsReports`). `RunCannotBeHeldUp`: until it has ended a run has a
step to take (`SomethingToDo`), whatever its commands do or leave undone, out of a
number (`StepsLeft`: stages, commands to start and to reap, the deadline, output not
yet read) that each of its steps lowers and no command can raise.

Every safety property of the passing runs is proved. Only model-checked is liveness,
since fairness and ENABLED are beyond the prover: `EveryEdgeGetsATurn`,
`LockIsReleased`, `TestsFinish` and `RunEnds`. Of the last three `LockCannotBeKept`,
`TestsRunOut` and `RunCannotBeHeldUp` prove all but that the step there is to take is
taken: each gives the measure that falls with every step and says that somebody has
one. The three disagreements are counterexamples, found by TLC.

## Further observations

Disagreements between code and documents met while modelling, not given a run:

- A dry run writes the flat live list and spawns the hooks (`edge_manage:159-175`);
  README.md:69-71 and 211-213 say that no file is written. `WriteLiveList` models it.
- More blindforced edges than `edge_count` are never "established": no zone
  is written while they stay (`edgemanage.py:602`).
- `unavailable` is documented as "never use an edge" (`const.py:37`); the last
  resort re-adds a last live edge whatever its mode.
- A canary must be in `pass` or `pass_window`; the better `pass_threshold`
  and `pass_average` do not qualify (`edgemanage.py:632`, README.md:187).
- "No edge repeats until the others have had a turn" (`conf/edgemanage.yaml:101`)
  holds within a cycle only: a new one starts from the live edge, so that a, b, a
  may follow each other across its boundary.
- If names do not resolve, a zone can be written without any address, which the
  comment at `edgemanage.py:594-596` means to avoid.
- A run killed between two zone files leaves zones of a timed dnet that serve
  different edges, and a recovery of the old edge keeps them so until the next
  rotation; README.md:126 says that it serves exactly one.
- A run reads the state file before it has the lock (`edge_manage:228`, `310`). If
  another run completes in between, the 30 s gap is not kept, and a list may be
  recorded that the zones do not serve: the run skips them when it chooses the
  list it knows. `ServedIsRecorded` excepts this case and says when it ends.
- A run that does not establish its edges records them as the live list all the same
  (`edge_manage:156`), and so does one whose last resort reports no change: what is
  on record is then served by no zone. `ServedIsRecorded` excepts it; `stale_zones`
  shows the second.
- Once the shared deadline has passed, hooks that ended long before are logged as
  "still running" (`util.py:99`), also if no hook was slow (`command_reap_timeout: 0`);
  README.md:84-88 says that those that have finished are collected.
- A canary that several zones share gets a timeout for each of them when it is killed
  untested (`edgemanage.py:159-162`): its averages worsen with the number of its zones.
- More forced edges than required leave a negative demand for a tier, for which
  `get_fastest_edges_by_state` takes them all; such a list is never established.
- A hook that writes after the run has exited dies of its closed pipe, although
  `util.py:89` says that a hook is never killed.
- With a clock that was set back the value judged is the one with the greatest
  timestamp, not "the most recent fetch" of `decisionmaker.py:129-131`.
- FETCH_TIMEOUT bounds connecting and each read, not a fetch: a slower one that
  completes is no `== FETCH_TIMEOUT` and may pass on its averages.
- `edgestate.py:92-94` says that a broken edgestore prevents a run; loading
  replaces it by the assumed values, mode included.
- `historical_average` holds FETCH_HISTORY + 1 entries; `rotation_history` grows
  without bound.
- `dnschange_maxfreq` (README.md:106) is read by no code.

## What is left

Worth doing next, in this order:

1. The daemon's loop in EdgeManage, whose state object outlives its runs and never
   reaches the file.
2. What the adapter's `dump_dnet_and_edges` reports to its caller while runs read
   the lists it rewrites; so far a truncated list is an input of `health_select`.

## Not modelled

- Nagios checks and `edge_query` read state files and edgestores and print; the
  gauges of `monitor.py` are written and never read. They change nothing that a
  decision depends on.
- The text of a zone (template, serial number, formatting): a zone is the set of
  hosts whose addresses it lists.
- In the adapter, everything but its lock calls and the truncation of edge lists.
- Logging, syslog and the wording of comments.
- `scripts/check_versions.py`, the docker origin server and the tests: no part of
  the running system.
