# automationctl: specifications, model checking and proofs

automationctl runs commands on a schedule through the user's systemd or launchd.
It has no daemon: every `actl` command is a short-lived process, and all that
connects them is files under the config and state directories, `flock`, and the
scheduler. The specifications here model those processes, what they leave on
disk and what the scheduler does with it, one module per group of operations.

## The system

| Part | State | Operations | Interacts through |
|---|---|---|---|
| transient executions (`transient.py`) | `execution.json`, `state.lock`, `history/`, `job.plist` per execution | submit, execute, finish, reconcile, cancel, prune | scheduler units, state lock, SIGTERM |
| wrapper (`wrapper.py`) and locks (`locks.py`) | run directory, run lock, named lock | exec_task and its `_finalize` | `flock`, `last/<task>.json` |
| run records (`records.py`) | `meta.json`, `last/<task>.json`, `activated/<backend>.json` | write, prune | rename, rmtree |
| catch-up (`catchup.py`) | none of its own | plan, then run what is due | `last/<task>.json`, `previous_occurrence` |
| installed definitions (`config.py`, `cli.py`) | `tasks/<name>.toml`, `.manage.lock` | install, add, remove, pause, resume | management lock, backend |
| backends (`backends/`) | unit files or plists | plan, apply, reload, activate, deactivate | `systemctl`, `launchctl`, activation records |
| schedules (`schedule.py`) | none | parsing, lowering to both backends, previous_occurrence | |
| definitions (`spec.py`, `lint.py`, `template.py`, `notify.py`) | none | parse, materialize, lint, dump, load, dispatch | the installed file |
| supervisor (`supervisor.py`) | none | owns the process group of a launchd workload | two pipes to the wrapper, signals |

What is hard, and what makes each part correct:

* **Transient executions** are acted on by up to four kinds of process at once.
  The scheduler may deliver a trigger twice, early or after submit has given it
  up; wrapper, hook, submitter and user manager may die anywhere. Correct means:
  at most one start, never early, a cancellation that holds, a terminal status
  that is true and that only an error of the wrapper replaces, an outcome that
  survives the wrapper, and a directory that is removed only when nothing needs it.
* **Runs of installed tasks** overlap: timer, manual run and catch-up. Correct
  means mutual exclusion, no skip without somebody running, and a summary that
  does not lie to catch-up.
* **Installation** is a sequence of file writes and scheduler calls that can be
  refused or cut short at any point and must be repairable by the same command,
  without touching other tasks, around one shared catch-up artifact.
* **Workloads** are process groups that need not cooperate. Cancel, deadline,
  exit and the death of wrapper or supervisor race each other. Correct means:
  nothing of the group is left when the outcome is recorded, the outcome is
  true, no wait is endless, and a dead wrapper takes a supervised group along.
* **Definitions** are validated once and parsed again by every later run.
  Correct means: what install accepts reads back as the same task and can be run.
  Some definitions get through that cannot; which ones is part of the property.
* **Schedules**: catch-up infers what the schedulers did, so the arithmetic must
  agree with two foreign calendars.

## Modules

| Module | Models | Used by |
|---|---|---|
| `TransientExecution` | one transient execution and everything that acts on it | `MCTransientExecution`, `TransientExecutionProofs`, `TransientRecordProofs` |
| `TaskRuns` | exec_task, locks, records, catch-up, retention | `MCTaskRuns`, `TaskRunsProofs` |
| `Installation` | install, remove, pause, resume over both backends | `MCInstallation`, `InstallationProofs` |
| `OneShot` | what an execution promises, without records, locks or schedulers | `TransientOneShot`, `WorkloadOneShot` |
| `TransientOneShot` | the refinement mapping from TransientExecution to OneShot | `MCTransientExecution`, `TransientRecordProofs` |
| `Workload` | processes and pipes of one workload: wrapper loop, `_terminate`, supervisor | `WorkloadOneShot` |
| `WorkloadOneShot` | the refinement mapping from Workload to OneShot | run directly, `WorkloadProofs` |
| `Schedule` | lowering of calendar schedules and previous_occurrence | `MCAlgorithms`, `ScheduleProofs` |
| `Logs` | tail_lines | `MCAlgorithms`, `LogsProofs` |
| `Definition` | parse_task, materialize, lint_task, dump_task, load_installed | `MCAlgorithms`, `DefinitionProofs` |

TransientExecution and TaskRuns treat a workload as one process that ends in one
step; Workload opens that step. That Workload, too, implements OneShot is what lets
`WStart` and `WEnd` of TransientExecution start and end it once, before the outcome is
recorded.

The `MC` modules add a symmetry set, a calendar or sets of inputs. `PROJECT.json` maps every
definition to source lines. Definitions named for a mistake (`...Always`,
`...Never`, `...Unchecked`, `SweepWantedOwn` and the like) are mutants: variants of the
definition after them that some property must reject. They are used nowhere else.

### TransientExecution

`rec` is `execution.json`; `lock` and `buf` are the `flock` of `state.lock` and
the copies of the record that processes work on. A `with locked(...)` block is
`Enter` (lock, read) and `Commit` (write, unlock): everything in between works on
the private copy. `timer`, `svc` and `inflight` are the scheduler's objects,
modelled from how the code uses them: `timer` counts the triggers left, because
a systemd execution has a calendar and a relative trigger. `hist` is the newest
run under `history/`, `result` the outcome exec_task has and the record does not
have yet. `due` says whether the wall clock has passed the deadline. `starts` and
`alive` describe the workload.

Actions follow the functions: `Submit*` (submit), `W*` (execute, with exec_task
inside), `F*` (finish), `C*` (reconcile, cancel and prune), and scheduler actions
(`Register`, `TimerFire`, `Collect`, ...). `WRaise` is an exception anywhere in the
try statement of execute, after the terminal meta.json too: its handler then
records "error", whatever the history says. It is no fault but always possible.

When the wrapper dies (`WCrash`, `ManagerExit`), systemd kills the control group
before it runs the hook. On launchd the workload lives on (`Orphans`) until its
supervisor sees the pipe closed (`OrphanDies`), while everybody else goes on.
`alive` counts the supervisor, which may be booting when the wrapper dies and still
start the command; Workload has those steps. A workload without its wrapper is
`Doomed`, and that is what CancelStops and TerminalMeansOver leave room for.

Faults are actions of their own, each switched by an element of `Faults`. Two constants admit situations that most
operators never meet: `EarlyControl` (a control command on an ID found while
submit is still running) and `LateRegistration` (the scheduler acts on a request
that submit gave up). Both happen; they are switches because some properties
hold only without them, which is the point of `tx_abandoned` below.

### TaskRuns

Each `i \in Inv` is one `actl exec` or `actl run` and its run directory. It
goes through `Create`, `LockRun`, `LockNamed`, `Launch`, `End`, `WriteMeta`,
`WriteLast`, `Notify` and `Return`, in the order of the code: a skipped or
refused run finalizes outside the locks, a run that had a workload inside. `Die`
may happen anywhere. `Plan`, `SweepRun`, `SweepNext` and `SweepOver` are the
catch-up command, which decides once and then runs one task after the other in
its own process, so that a death of that run ends the sweep. `PruneTask` is the
retention by count. `occ` is the latest calendar occurrence (previous_occurrence).
`Kills` says whether a workload dies with its wrapper: systemd's control group
does that, a run started in a terminal does not.

### Installation

A label stands for the files of one task, or of the shared catch-up artifact;
`trig[l]` is the trigger file and `loaded[l]` what the scheduler acts on. A
definition is its kind: manual, calendar, interval, disabled (with a schedule) or
dormant (disabled without one); a file may also be corrupt at the start. One action per scheduler call, file or record write, so
that a refusal, a crash, or (with `Overlap`) a concurrent pause or resume can
fall between any two. `settled` and `clean` are history variables: what the last
successful command on a task promised, and whether the last locked operation
completed. The order in which apply visits names depends on their spelling, so
any order is allowed.

### OneShot, TransientOneShot and WorkloadOneShot

OneShot has four variables: may the workload start, has it, is any process of it
left, and the outcome. Processes that have lost whoever answers for them are
"doomed": they will die, and an outcome may be declared meanwhile. `started` is mapped to `starts > 0`, the outcome to the
status a reader of the record sees: none until it is terminal, and forgotten
once prune has removed the record. `WriteBack` of OneShot is the control
operation that brings a pruned record back (see Findings). The refinement says in one formula
what AtMostOnce, NeverEarly and TerminalMeansOver say in part, and adds that a
status is replaced by "error" only (`Fail`), that nothing starts once an outcome is known, and that
`ok`, `failed` and `timeout` are outcomes of a workload that ran, `skipped` of one
that did not.

WorkloadOneShot maps the processes of one exec_task to the same specification:
`started` is that Popen has been called, the outcome is the recorded status, and
`alive` is the process group of a transient execution but the command alone of an
installed task, because an installed task that ends by itself may leave descendants
behind. There nothing is doomed: an outcome is recorded by a wrapper that lives. It is always due, since the wrapper has waited before it calls exec_task.

### Workload

`mode` is how exec_task is called: a plain wait (installed task), a polling loop
with a cancel event (transient on systemd), or that loop with a supervisor
(transient on launchd). `pc` is the wrapper's place in `_execute_workload`, and
`why` says whether it is inside `_terminate`. A wait is two actions, it returns or
it expires; for a supervised workload expiry is followed by `Poll`, because
select on the result pipe and `process.poll()` are two steps and the supervisor
may report or die between them. `sup` distinguishes a supervisor without a
handler for SIGTERM ("booting") from one that ignores it. `_terminate` ends with a
wait of five seconds for the leader it has sent SIGKILL; `reap` says whether that
leader is collected at once or the wait expires (`KillExpires`), which the handler of the
task's own timeout catches once, and nobody a second time (pc "raised"). A process that
was sent SIGKILL runs nothing any more, so it counts as dead meanwhile. The command and its
descendants may fork, end or ignore SIGTERM at any time. Descendants that leave
the process group are out of everyone's reach and of the model. `_finalize`,
modelled in TaskRuns, is one step here.

### Schedule, Logs, Definition

Constant-level modules, without behaviour. `MCAlgorithms` makes every input an
initial state and compares what the code computes with a reference.

* Schedule: previous_occurrence is its loops, written as minima over the same
  ranges; the reference is the latest moment at which the patterns of to_systemd
  and to_launchd match. Daylight saving is left out.
* Logs: tail_lines is its loop over chunks; the reference splits the whole file.
* Definition: a TOML table is a function from keys to typed values, a text the
  set of its marks, the characters and traits that some step looks at. `Parses` and
  `Task` are parse_task, `DumpTask` is dump_task, `Readable` what tomllib accepts of
  `_toml_string`'s escapes (of every text the file holds), `Executes` what exec_task and
  dispatch need: the environment that build_env makes (`BuildEnv`), what Popen raises
  ValueError for (`Popen`), a program, a timeout, transports. A duration is dumped in
  seconds and a weekday abbreviated, so dumping is not the inverse of parsing as
  text; the task must be the same. `Faithful` is an equivalence: an accepted definition
  is loaded as the same task and can be run exactly if it has none of the flaws
  `Unwritable` and `Unrunnable` name.

## Runs

| Run | Question | Bounds |
|---|---|---|
| `tx_systemd` | OneShot and all safety properties of a delayed systemd execution | two operators, each any number of cancels and prunes; deaths of wrapper and hook |
| `tx_launchd` | OneShot on launchd, where the wrapper waits, boots itself out and leaves an orphan when it dies | two operators, each any number of cancels and prunes; deaths of submitter, wrapper and GUI domain |
| `tx_live` | an accepted execution nobody cancels gets a terminal status; cancellation with late registration | one operator with every command, deaths of the wrapper |
| `tx_abandoned` | finding | one operator |
| `workload` | OneShot for one exec_task, nothing outlives the outcome, the outcome is true, orphans die, waits end | every mode, two descendants, a leader that may outlive SIGKILL, deaths of wrapper and supervisor |
| `runs_shared` | exclusion, progress under contention, catch-up for calendars | three triggers, two tasks, one named lock, a clock of two instants; prune finds nothing to remove |
| `runs_interval` | the summary against the record it names, catch-up for intervals, a run lock comes free | two triggers, one disabled task, a clock of three; prune keeps one run |
| `inst_systemd` | no orphan triggers, retry converges, catch-up file | one operator, two tasks, refusals and crashes anywhere |
| `inst_launchd` | the same on launchd, catch-up loaded, two operators on one name | two operators, one task, every fault |
| `inst_catchup`, `inst_resume` | findings | two tasks; one task with overlapping commands |
| `algorithms` | previous_occurrence, tail_lines, which accepted definitions read back and run | fifteen months with three times of day; files of five bytes in chunks of two; two changed keys, flawed values among them |

The bounds are enough because the interesting cases need few participants. Two
operators make transient commands overlap, with wrapper, hook and submitter there
besides. `Commands` and `Faults` bound what a run combines: cancel against prune
is in a run of each backend with two operators, all three commands in `tx_live` with
one, and each fault in one of them. The invariants of these
runs, and the refinement, are proved below for every combination. Three triggers give a holder, a contender for each
lock and a latecomer. A locked installation excludes every other, so sequences
of one process with crashes cover what several could do except for the race to
the lock (`inst_launchd`) and unlocked commands (`inst_resume`). Clock bounds
leave room for an occurrence before, during and after a run, and for an interval
that has exactly elapsed. Two descendants give one that outlives the leader and
one forked late. Five bytes in chunks of two put every line end before, on and
after a chunk's edge. Two changed keys reach every check of parse_task and
lint_task and every pair of fields they relate. The runs of TaskRuns switch
deadlock checking off because clock and invocations run out; all others check it.

### Fairness

`FairSpec` of TransientExecution assumes that wrapper, hook, submitter and
scheduler go on when they can, and that the clock reaches the deadline: the code
has no unbounded wait but the workload's own, and that one ends or is killed. An
orphan ends (`OrphanDies`) because its supervisor goes on. Operators need not issue
any command, but a command that is running goes on: each of its calls has a
timeout, and the locks it waits for are released. `FairSpec` of TaskRuns assumes that a started
wrapper goes on and its workload ends; for a task without `timeout` that is the
workload's own promise. `FairSpec` of Workload assumes that wrapper and supervisor go on and
that the deadline comes; the command and its descendants are assumed nothing of,
they may ignore SIGTERM and never end. Deaths are never forced and never
excluded.

### Findings

* `tx_abandoned`: reconcile on an ID still being submitted queries the scheduler
  before the job is registered, then waits for the lock that submit holds. By the
  time it decides, the workload runs, and it is recorded as abandoned. That
  execution is then eligible for prune while it runs: `PruneRemovesDead` fails for
  the same constants.
* `inst_catchup`: on systemd, a remove of the last qualifying task that disables
  the catch-up timer but not the task's own keeps the catch-up timer's
  activation record. Later commands take it for active and never enable it.
  That is why `CatchupArmed` is not among the properties of `inst_systemd`.
* `inst_resume`: resume does not take the management lock and can load a trigger
  that a remove has just taken down and whose file it then deletes. With
  `Overlap = FALSE`, the other runs let pause and resume happen between locked
  operations only.

More disagreements are part of the models but have no run:

* prune removes a directory without the state lock, so a control operation that
  had read the record writes it back (`CRemove` and `Commit`), against the comment
  in `locked` that a missing execution is never recreated.
* resume on launchd loads the file on disk without recording it. A later install
  that is refused once and retried reports success with the older schedule
  loaded; two crashes of an install have the same effect. So `LoadedIsCurrent`
  fails for the constants of `inst_launchd`, and only `inst_systemd` checks it.
* reconcile of an ID still being submitted can write a terminal status that
  submit then overwrites with its own copy; with `EarlyControl`, `AcceptedSettles`
  fails. The other side of `tx_abandoned`.
* The handler of execute (transient.py:247) also catches what is raised after
  exec_task has written its terminal meta.json: by write_last, by a notification, by
  the write of the record itself. It records "error", so an execution whose
  history says "ok" can end as "error"; if a second delivery of the trigger finds a
  terminal record and cannot write it back, its handler does the same to that
  record. OutcomeKept and `Fail` of OneShot say that it is "error" and nothing else.
* If the leader of a workload is not collected within five seconds of SIGKILL,
  `_terminate` raises TimeoutExpired (wrapper.py:199). During a cancellation the
  handler of the task's own timeout catches it: the run is recorded as "timeout"
  although no deadline has passed, and perhaps none was set. In that handler, or in
  the last `_terminate` of a transient execution, nobody catches it, and exec_task
  raises without an outcome. OutcomeTruthful and WaitEnds except exactly this.
* On launchd the supervisor notices its wrapper's death asynchronously, perhaps only
  after it has booted and started the command. reconcile,
  cancel and prune ask launchd, which knows the wrapper only, and may return while the
  orphan is still dying.
* A disabled definition without a schedule passes lint. Installed with --replace over a
  loaded calendar task on launchd, activate calls pause, and pause does nothing
  without a schedule (launchd.py:141-142, 176-177): the install reports success, and
  the calendar job stays loaded although its file has no schedule any more. `InstallHolds` excepts
  this case (`Unattended`); on systemd it holds there too.
* install accepts definitions that cannot be loaded or run, all named in `Unwritable`
  and `Unrunnable`:
  * a DEL (0x7f) in any text: `_toml_string` is `json.dumps`, which leaves it as it is,
    and TOML forbids it, so the task is installed and can never be loaded;
  * a float or a date in a raw schedule, in the other backend's entry or in the tables of its
    own: `_toml_value` raises a TypeError after the unit files have been written,
    which leaves them as a crash at that point would (`Crash` of Installation);
  * a NUL in the command, summary_cmd, env, env_files or cwd, or in a path_prepend that
    becomes part of PATH, and "=" in the name of a variable: subprocess or open raises a
    ValueError, and only OSError is caught (wrapper.py:65 and 539), so an installed task's
    record stays "running" for ever; a cwd with a NUL is reported as missing;
  * an empty program name, which is never found;
  * `timeout = "0s"`, which stops an installed task at once and means no timeout for a
    transient execution (wrapper.py:567 and 569);
  * a notification whose transport name has outer blanks or is empty: lint looks it up
    as written, transport_name strips it and finds nothing.

## Proofs

`TransientExecutionProofs`, for any set of operators, both backends, with early
control, late registration and all faults:

* `TypeCorrect`: `Spec => []TypeOK`. `TypeOK` needs `ResultReady` beside it: a
  wrapper that records an outcome has one.
* `StartedAtMostOnce`: `Spec => []AtMostOnce`. The count of starts alone is not
  inductive. The invariant is `ClaimInv`: whoever is in a locked block holds the
  lock (`LockInv`); before submit has prepared the record nothing else happens
  (`Unsubmitted`); once the wrapper is past its claim, the record on disk is
  claimed or gone, and so is every copy a process may still write back
  (`ClaimDurable`); and the workload has been started only by a wrapper past its
  claim, once (`StartOnce`). `ClaimDurable` is the heart: every process writes
  the whole record, so a stale copy could otherwise undo the claim.
* `StartedOnTime`: `Spec => []NeverEarly`. The invariant `OnTime` says that a
  wrapper leaves the deadline loop before trigger_at only through SIGTERM, and
  that such a wrapper is turned away at the gate.
* `CancellationHolds`: `Spec => CancelClosesGate`, an action property. It needs
  `GateFresh`: while the wrapper holds the record lock, its copy has every request
  that is on record. prune, which takes no lock, can only take the record away.
* `CancelledStaysStopped`: `Spec => []CancelStops`. `SchedInv` ties processes to
  scheduler objects (a wrapper lives exactly in an active or stopping service, the
  hook exactly in one that has stopped), `LockFresh` says that whoever holds the
  record lock has the record as it is, unless prune has removed it, `RequestKept` that no
  write takes a request back, and `StaysStopped` that once a cancel has found the
  service gone no wrapper gets past its gate, not even one that a late
  registration starts. What may be left is an orphan on launchd; on systemd nothing is
  doomed, so there the theorem says that nothing is left at all.

`TransientRecordProofs` assumes `Orderly`: operators use the ID that submit
returned, and the scheduler acts on a request during the call or never. Without
it `TerminalMeansOver` and `PruneRemovesDead` are false; `tx_abandoned` is the
counterexample. Operators, backend and faults are still any.

* `WrittenOffIsOver` (`TerminalMeansOver`), `CollectedIsGone`
  (`CollectedMeansGone`), `HistoryOutcomeKept` (`OutcomeKept`, with "error" as the one
  outcome that may replace the history's) and `PrunedIsDead`
  (the action property `PruneRemovesDead`), all from `OrderlyInv`. Its parts:
  while submit runs nobody else has written the record (`Submitting`); what a query
  did not find stays away until reconcile acts on it (`QueriesHold`); nothing is left of
  a collected or removed execution but perhaps a copy with its outcome
  (`NothingLeft`); from its claim to its last locked block the wrapper has an open
  record and nobody is about to write it off (`ClaimRespected`); record and
  history agree (`Agreement`); an outcome fits what was started (`OutcomeTrue`).
  `QueriesHold` is the hard one. reconcile asks the scheduler outside the lock and
  decides inside it; its answers stay true because triggers only run out and a
  service, once gone, has no timer to start it again. That argument fails as soon
  as a registration may still come.
* `RefinesOneShot`: `Spec => ImplementsOneShot` under `Orderly`. `RecordSteps`
  shows that a step of the record opens it, settles it, removes it or writes it
  back; each of these and each step of the workload is a step of OneShot, and all
  others leave its variables alone. A wrapper's death is `Doom` on launchd and `End` on
  systemd, a handler that overwrites a terminal record is `Fail`.

`WorkloadProofs`, for any set of descendants, in every mode, with wrapper and
supervisor killed at any step:

* `WorkloadTypeCorrect`: `Spec => []TypeOK`.
* `NothingOutlivesOutcome`: `Spec => []RecordedMeansOver`, and `OutcomeIsTrue`:
  `Spec => []OutcomeTruthful`. Both follow from `WorkloadInv`: which processes exist
  at which stage (`Started`), what result pipe and exit code say of the command
  (`Known`), why the wrapper stops (`Decided`) and what is on record (`Recorded`).
  `Known` carries the argument: the command is killed only after the outcome is
  decided, and a supervisor that is dead although nobody killed it never started
  the command. An outcome "timeout" without a deadline needs a cancellation and a
  leader that outlived SIGKILL, and the statement says so.
* `WorkloadRefinesOneShot`: `Spec => WorkloadIsOneShot`. Only the wrapper's Popen makes a
  process appear where there was none (`ProcessSteps`), a status is recorded in a
  step that leaves the processes alone (`StatusSteps`), and `ShotInv` adds to
  `WorkloadInv` what an installed task needs: its command has ended when it is closed.

`TaskRunsProofs`, for any tasks, invocations, schedules and bounds:

* `RunTypeCorrect`: `Spec => []TypeOK`, with `Concluded` (whoever records an
  outcome has one).
* `LocksExclude`: `Spec => []Exclusive` if workloads die with their wrappers. The
  invariant adds `Held` (between its locks and its workload's end a wrapper holds
  them) and `Attended` (a live workload has a wrapper that waits for it);
  `Attended` is where the assumption enters.
* `LastNeverAhead`: `Spec => []LastTruthful`, with `Recorded` (meta.json is written
  before the summary) and `Summarised` (the run a summary names is past the
  point where its record changes).
* `CatchupSkipsOnlyCovered`: `Spec => NotDueIsCovered`, an action property: what
  catch-up leaves out has been covered by a run that the summary names. It rests
  on `Summarised`, which also says that this run has started and how it ended.
* `ContentionLeavesOne`: `Spec => []SomeoneRuns`. A skip is justified by another
  process, which may change before the skip is recorded. `SkipsJustified` names
  that process by `Went`: it is on its way with the run lock, ended with another
  outcome, or died. One step undoes `Went`: giving up for the named lock. Then the
  holder of the named lock takes its place (`HoldersWent`).

`InstallationProofs`, for any tasks, control processes, commands and faults, on
both backends:

* `InstallTypeCorrect`: `Spec => []TypeOK`. `NameNotClobbered`: `Spec => NoClobber`,
  an action property, and `CatchupMatches`: `Spec => []CatchupKept`. Both from
  `LockInv`: what a process in each place of the code is doing (`CommandInv`); until
  the holder of the management lock writes the definition its plan is still true
  (`Planned`), and from then on the files are as it wanted them (`Written`); after a
  completed operation the catch-up file is there if a task qualifies
  (`CleanCatchup`). Only the look at the name under the lock is used, never the one
  before it.
* `NoOrphans` (`NoOrphanTrigger`) and `CompletedHolds` (`InstallHolds`), if pause and
  resume do not overlap a locked operation (`~Overlap`; `inst_resume` shows that
  this is needed). `SerialInv` adds what the scheduler holds: every loaded trigger
  has its file and definition (`Sound`), deletions are unloaded before files go
  (`TakenDown`), a task is dealt with before catch-up is (`Activated`), and a
  settled task is as its last command promised (`Holds`), through every later
  crash or refusal of a command on another task. What launchd has loaded for a
  dormant task is promised by no code and excepted (`Unattended`).
* `LoadedFromDisk` (`LoadedIsCurrent`) for systemd, where a reload brings
  every active timer up to date before the activation, and `CatchupLoaded`
  (`CatchupArmed`) for launchd, which is asked whether catch-up is loaded before
  its activation record is consulted. Each is false on the other backend; see
  Findings.

The last three proof modules extend `MCAlgorithms`, whose properties they prove for
every value of its constants, from a theorem about the operators alone.

`ScheduleProofs`, for every calendar and every resolution of the time of day:

* `OccurrenceAgrees`: for every schedule that parse builds and every moment,
  previous_occurrence is the latest moment at which the patterns of both backends
  fire (`Agrees`). It combines `DailyAgrees`, `WeeklyAgrees` and `MonthlyAgrees`, and
  `OccurrenceAlways` carries it to `Spec => []OccurrenceIsFiring`.
  The weekly loop probes eight days; each weekday is among the last seven, today's
  also a week ago, which is the one that counts before today's time. `SameName`
  compares the two weekday tables. The monthly loop skips months without the
  day. That months follow each other and every day is in one of them is an
  induction over the calendar; of two consecutive months one has 31 days, so
  the loop over fourteen months finds one. `ConstantsAssumption` says just that of a
  calendar, which is true of the Gregorian one, and puts two months before the
  first moment asked about.

`LogsProofs`, for every file, chunk size, number of lines and byte limit:

* `TailAgrees`: tail_lines gives the last lines of the bytes it may read, and
  `TailAlways`: `Spec => []TailIsTail`. The loop ends at the limit, at the beginning of
  the file or with enough newlines (`LoopExists`, `ConsumedFacts`). If it has read
  less than it might, it has more newlines than lines were asked for, and so more
  line ends (`NewlinesEnd`). The line ends of what was read are those of the file, moved
  (`SuffixEnds`, `SuffixRanks`); a cut may fall inside the first of its lines or
  between CR and LF, but every line after the first is whole (`SuffixLine`), and the first
  is not shown.

`DefinitionProofs`, for every source file, whatever keys it has and of whatever types:

* `AcceptedRuns`: what install accepts reads back as the same task and can be run
  exactly if it has none of the flaws `Faithful` names; `AcceptedAlways`:
  `Spec => []AcceptedIsFaithful`. Neither has a hypothesis on the inputs. `Parsed` shows
  that a parsed task is `WellFormed`: each schedule, transport and optional field survives
  being written (`ScheduleBack`, `TransportBack`, `DurationBack`). `Image` says
  for each key what dump_task writes, and from it alone `TaskBack` rebuilds the task
  and `ParsesBack` finds every check of parse_task satisfied. `WritableBack` reduces
  being dumped and loaded to the absence of `Unwritable`. `EnvironmentOk` and
  `SystemTakes` do the same for what Popen takes, through build_env, and `LintedRuns` for the
  whole run, given what lint has checked. What a transport's table
  holds is taken as one value per key; `SourceFile` is the shape of the rest.

Recursive functions (the calendar's months, the loop over chunks, the parts of a
duration) are shown to be well defined, and facts about them proved, by induction
over sets: `Least` takes the smallest counterexample, and `Induction` is its
contrapositive.

The assumptions on constants are the named `ConstantsAssumption` of each module.

Only model checked is liveness, which needs fairness and ENABLED: `AcceptedSettles`,
`RunLockComesFree`, `OrphansDie`, `WaitEnds`. Every invariant and action property of a
passing run has its theorem.

## Not modelled

* The text of units and plists (a trigger is its content's kind), the content of
  environment files and the copying of output: I/O without decisions.
* Delivery of notifications: that it is attempted between two writes of
  meta.json and which transport is found are modelled, not its result.
* list, status, doctor and the choice of the file in logs: read-only. `submit NAME` of an installed task is
  one scheduler call without state of its own.
* Daylight saving, reboots, edits of files by hand (but for corrupt definitions).
* The inode of `state.lock`: prune's rmtree removes the file under a process that waits for
  it, and a later one locks a new file; `Enter` has one lock per execution ID. With the
  directory gone the waiter's read fails, unless a late writer has brought it back.
* The moment at which a queued `--no-block` stop takes effect: `FStopTimer` takes the timer
  down at once or leaves it.
* Exceptions where the code has no handler: a thread that cannot be started between
  Popen and the wait loop, a failing write in an operator's command, in the hook or in
  the handler of execute itself. For a wrapper that is a death (`WCrash`), for a hook
  `FCrash`; an operator's command that fails so is not modelled.
* The death of a workload and the release of its wrapper's locks are one step of TaskRuns
  with `Kills`.
* What the host lacks (programs, directories, environment files), magnitudes of numbers,
  schedule expressions that the scheduler rejects or that make to_launchd raise.

## Plan

Composition is left: transient executions and installed tasks that share a named lock,
in one specification.
