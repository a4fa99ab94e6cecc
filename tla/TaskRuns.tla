------------------------------ MODULE TaskRuns ------------------------------
(***************************************************************************)
(* Runs of installed tasks: wrapper.exec_task with the run lock and the    *)
(* named lock (locks.py), the records it leaves (records.py), and the      *)
(* catch-up sweep that decides from those records which missed occurrences *)
(* to run (catchup.py, cli.catch_up).  Each invocation i \in Inv is one    *)
(* `actl exec' or `actl run' process and one run directory.                *)
(***************************************************************************)
EXTENDS Integers, FiniteSets

CONSTANTS
    Task,         \* the installed tasks
    Shared,       \* the tasks whose spec declares the one named lock
    Disabled,     \* the disabled tasks
    Persistent,   \* the tasks catch-up answers for (effective_persistent)
    Inv,          \* the invocations
    MaxTime,      \* bound on the clock
    Schedule,     \* "calendar" or "interval": the kind of every task's schedule
    Interval,     \* interval_seconds
    KeepRuns,     \* --keep-runs
    Kills         \* does the death of a wrapper take its workload along?

ASSUME ConstantsAssumption ==
    /\ Shared \subseteq Task /\ Disabled \subseteq Task
    /\ Persistent \subseteq Task
    /\ Inv \cap {"free", "off", "next", "none"} = {}
    /\ MaxTime \in Nat /\ Interval \in Nat /\ KeepRuns \in Nat
    /\ Schedule \in {"calendar", "interval"}
    /\ Kills \in BOOLEAN

VARIABLES
    now,        \* the wall clock
    occ,        \* the latest calendar occurrence (previous_occurrence)
    pc,         \* pc[i]: where invocation i is
    task,       \* task[i]
    started,    \* started_at of run i
    result,     \* outcome of run i, not yet recorded
    alive,      \* is the workload of i running?
    runLock,    \* runLock[t]: holder of the run lock of t, or "free"
    namedLock,  \* holder of the named lock, or "free"
    meta,       \* status in meta.json of run i; "gone" without a directory
    last,       \* last[t]: last/<t>.json
    sweep,      \* the catch-up process: "off", "next" or the invocation it runs
    due         \* the tasks its plan found due and it has not run yet

inv   == <<pc, task, started, result, alive>>
locks == <<runLock, namedLock>>
vars  == <<now, occ, inv, locks, meta, last, sweep, due>>

Outcome == {"ok", "failed"}   \* a timeout counts as failed here
Status  == Outcome \cup {"skipped", "error"}
NoLast  == [run |-> "none", status |-> "none", started |-> 0]

Init ==
    /\ now = 1 /\ occ = 0
    /\ pc = [i \in Inv |-> "idle"]
    /\ task \in [Inv -> Task]
    /\ started = [i \in Inv |-> 0]
    /\ result = [i \in Inv |-> "none"]
    /\ alive = [i \in Inv |-> FALSE]
    /\ runLock = [t \in Task |-> "free"] /\ namedLock = "free"
    /\ meta = [i \in Inv |-> "gone"]
    /\ last = [t \in Task |-> NoLast]
    /\ sweep = "off" /\ due = {}

-----------------------------------------------------------------------------
(* exec_task.                                                              *)

Goto(i, l) == pc' = [pc EXCEPT ![i] = l]

\* Run directory, started_at and meta.json `running', before any lock.
Create(i) ==
    /\ pc[i] = "idle"
    /\ started' = [started EXCEPT ![i] = now]
    /\ meta' = [meta EXCEPT ![i] = "running"]
    /\ IF task[i] \in Disabled
       THEN result' = [result EXCEPT ![i] = "skipped"] /\ Goto(i, "meta")
       ELSE Goto(i, "lock") /\ UNCHANGED result
    /\ UNCHANGED <<now, occ, task, alive, locks, last>>

Begin(i) == Create(i) /\ UNCHANGED <<sweep, due>>

Conclude(i, s) == result' = [result EXCEPT ![i] = s] /\ Goto(i, "meta")

\* The run lock's descriptor leaks into the workload.
ReleaseNamedOnly(i) ==
    /\ UNCHANGED runLock
    /\ namedLock' = IF namedLock = i THEN "free" ELSE namedLock

\* What remains locked when i has left both with-blocks.
Release(i) ==
    /\ runLock' = [t \in Task |-> IF runLock[t] = i THEN "free" ELSE runLock[t]]
    /\ namedLock' = IF namedLock = i THEN "free" ELSE namedLock

RunFree(i) == runLock[task[i]] = "free"

\* run_lock, after the jitter: taken, or LockBusy.
LockRun(i) ==
    /\ pc[i] = "lock"
    /\ IF RunFree(i)
       THEN /\ runLock' = [runLock EXCEPT ![task[i]] = i]
            /\ Goto(i, "named")
            /\ UNCHANGED result
       ELSE Conclude(i, "skipped") /\ UNCHANGED runLock
    /\ UNCHANGED <<now, occ, task, started, alive, namedLock, meta, last, sweep, due>>

NamedFreeAlways(i) == TRUE

\* The named lock on the file of a run lock.
NamedFreeCollides(i) ==
    task[i] \notin Shared \/ (namedLock = "free" /\ \A t \in Shared : runLock[t] = "free")

NamedFree(i) == task[i] \notin Shared \/ namedLock = "free"

\* named_lock inside it; LockBusy gives the run lock back.
LockNamed(i) ==
    /\ pc[i] = "named"
    /\ IF NamedFree(i)
       THEN /\ namedLock' = IF task[i] \in Shared THEN i ELSE namedLock
            /\ Goto(i, "launch")
            /\ UNCHANGED <<runLock, result>>
       ELSE Release(i) /\ Conclude(i, "skipped")
    /\ UNCHANGED <<now, occ, task, started, alive, meta, last, sweep, due>>

\* _execute_workload up to Popen; an AutomationctlError leaves the locks.
Launch(i) ==
    /\ pc[i] = "launch"
    /\ \/ /\ alive' = [alive EXCEPT ![i] = TRUE]
          /\ Goto(i, "running")
          /\ UNCHANGED <<result, locks>>
       \/ Release(i) /\ Conclude(i, "error") /\ UNCHANGED alive
    /\ UNCHANGED <<now, occ, task, started, meta, last, sweep, due>>

\* The outcome is forgotten.
EndUnrecorded(i) ==
    /\ pc[i] = "running"
    /\ alive' = [alive EXCEPT ![i] = FALSE]
    /\ Goto(i, "meta")
    /\ UNCHANGED <<now, occ, task, started, result, locks, meta, last, sweep, due>>

\* The workload ends, or its timeout ends it (_terminate); summary and version
\* probe follow, all inside the locks.
End(i) ==
    /\ pc[i] = "running"
    /\ alive' = [alive EXCEPT ![i] = FALSE]
    /\ \E s \in Outcome : Conclude(i, s)
    /\ UNCHANGED <<now, occ, task, started, locks, meta, last, sweep, due>>

-----------------------------------------------------------------------------
(* _finalize: meta.json, last/<task>.json, notifications, meta.json again. *)

LastRecord(i) == [run |-> i, status |-> result[i], started |-> started[i]]

\* The summary before the run's own record.
WriteLastFirst(i) ==
    /\ pc[i] = "meta"
    /\ last' = [last EXCEPT ![task[i]] = LastRecord(i)]
    /\ Goto(i, "last")
    /\ UNCHANGED <<now, occ, task, started, result, alive, locks, meta, sweep, due>>

WriteMeta(i) ==
    /\ pc[i] = "meta"
    /\ meta' = [meta EXCEPT ![i] = result[i]]
    /\ Goto(i, "last")
    /\ UNCHANGED <<now, occ, task, started, result, alive, locks, last, sweep, due>>

WriteLast(i) ==
    /\ pc[i] = "last"
    /\ last' = [last EXCEPT ![task[i]] = LastRecord(i)]
    /\ Goto(i, IF result[i] = "skipped" THEN "return" ELSE "notify")
    /\ UNCHANGED <<now, occ, task, started, result, alive, locks, meta, sweep, due>>

\* Deliveries are attempted and their outcomes recorded; write_json recreates
\* a run directory that was pruned meanwhile.  A task without transports for
\* this outcome skips the second write.
Notify(i) ==
    /\ pc[i] = "notify"
    /\ meta' \in {meta, [meta EXCEPT ![i] = result[i]]}
    /\ Goto(i, "return")
    /\ UNCHANGED <<now, occ, task, started, result, alive, locks, last, sweep, due>>

Return(i) ==
    /\ pc[i] = "return"
    /\ Release(i)
    /\ Goto(i, "done")
    /\ UNCHANGED <<now, occ, task, started, result, alive, meta, last, sweep, due>>

\* The process dies: flock ends with it, the workload perhaps not, and a
\* catch-up sweep that ran i in-process does.
Die(i) ==
    /\ pc[i] \notin {"idle", "done", "dead"}
    /\ Release(i)
    /\ Goto(i, "dead")
    /\ alive' = IF Kills THEN [alive EXCEPT ![i] = FALSE] ELSE alive
    /\ IF sweep = i THEN sweep' = "off" /\ due' = {} ELSE UNCHANGED <<sweep, due>>
    /\ UNCHANGED <<now, occ, task, started, result, meta, last>>

-----------------------------------------------------------------------------
(* catch-up.                                                               *)

CoversSkippedToo(t) == last[t] # NoLast

\* _coverage: the start of the last run, unless it was skipped.
Covers(t) == last[t] # NoLast /\ last[t].status # "skipped"

Due(t) ==
    /\ t \in Persistent \ Disabled
    /\ CASE Schedule = "calendar" -> occ > 0 /\ (Covers(t) => last[t].started < occ)
         [] Schedule = "interval" -> Covers(t) => now - last[t].started > Interval

\* plan: every decision is taken now, from the records as they are.
Plan ==
    /\ sweep = "off"
    /\ due' = {t \in Task : Due(t)}
    /\ sweep' = "next"
    /\ UNCHANGED <<now, occ, inv, locks, meta, last>>

\* The due tasks are run one after the other, without looking again.
SweepRun(i) ==
    /\ sweep = "next" /\ task[i] \in due
    /\ Create(i)
    /\ sweep' = i
    /\ due' = due \ {task[i]}

SweepNext ==
    /\ sweep \in Inv /\ pc[sweep] = "done"
    /\ sweep' = "next"
    /\ UNCHANGED <<now, occ, inv, locks, meta, last, due>>

SweepOver ==
    /\ sweep = "next" /\ due = {}
    /\ sweep' = "off"
    /\ UNCHANGED <<now, occ, inv, locks, meta, last, due>>

-----------------------------------------------------------------------------
(* prune of installed-task history, and time.                              *)

Runs(t) == {i \in Inv : task[i] = t /\ meta[i] # "gone"}

\* All but the KeepRuns newest run directories go, finished or not; their
\* names begin with the start time and end in a random suffix.
PruneTask(t) ==
    /\ \E surplus \in SUBSET Runs(t) :
          /\ Cardinality(Runs(t) \ surplus) = KeepRuns /\ surplus # {}
          /\ \A i \in surplus, j \in Runs(t) \ surplus : started[i] <= started[j]
          /\ meta' = [i \in Inv |-> IF i \in surplus THEN "gone" ELSE meta[i]]
    /\ UNCHANGED <<now, occ, inv, locks, last, sweep, due>>

\* Time passes; a calendar occurrence may fall on the new instant.
Tick ==
    /\ now < MaxTime
    /\ now' = now + 1
    /\ occ' \in {occ, now'}
    /\ UNCHANGED <<inv, locks, meta, last, sweep, due>>

-----------------------------------------------------------------------------
Step(i) == \/ LockRun(i) \/ LockNamed(i) \/ Launch(i) \/ End(i)
           \/ WriteMeta(i) \/ WriteLast(i) \/ Notify(i) \/ Return(i)

Next ==
    \/ \E i \in Inv : Begin(i) \/ SweepRun(i) \/ Step(i) \/ Die(i)
    \/ Plan \/ SweepNext \/ SweepOver
    \/ \E t \in Task : PruneTask(t)
    \/ Tick

Spec == Init /\ [][Next]_vars

\* A started process goes on; a workload ends because its timeout kills it.
FairSpec == Spec /\ \A i \in Inv : WF_vars(Step(i))

-----------------------------------------------------------------------------
TypeOK ==
    /\ now \in Nat /\ occ \in Nat
    /\ pc \in [Inv -> {"idle", "lock", "named", "launch", "running", "meta",
                       "last", "notify", "return", "done", "dead"}]
    /\ task \in [Inv -> Task]
    /\ started \in [Inv -> Nat]
    /\ result \in [Inv -> Status \cup {"none"}]
    /\ alive \in [Inv -> BOOLEAN]
    /\ runLock \in [Task -> Inv \cup {"free"}]
    /\ namedLock \in Inv \cup {"free"}
    /\ meta \in [Inv -> Status \cup {"running", "gone"}]
    /\ last \in [Task -> [run : Inv \cup {"none"}, status : Status \cup {"none"},
                          started : Nat]]
    /\ sweep \in Inv \cup {"off", "next"}
    /\ due \subseteq Task

\* Two workloads run together only if they belong to different tasks that do
\* not declare the same lock: what run_lock and named_lock promise, whatever
\* the triggers and deaths, while the workload dies with its wrapper.
Exclusive ==
    \A i, j \in Inv : i # j /\ alive[i] /\ alive[j] =>
        /\ task[i] # task[j]
        /\ ~ {task[i], task[j]} \subseteq Shared

\* The competitors of t: its own invocations, or all that want its named lock.
Rivals(t) == {i \in Inv : task[i] = t \/ {t, task[i]} \subseteq Shared}

\* Contention never skips everyone: when all competitors have come and gone
\* and none died, one of them was not skipped (locks.run_lock: overlapping
\* triggers converge on one run and one skip).
SomeoneRuns ==
    \A t \in Task \ Disabled :
        /\ \A i \in Rivals(t) : pc[i] \in {"idle", "done"}
        /\ \E i \in Rivals(t) : pc[i] = "done" /\ task[i] = t
        => \E i \in Rivals(t) : pc[i] = "done" /\ result[i] # "skipped"

\* last/<task>.json never runs ahead of the run it names: that run's own
\* meta.json, if prune has left it, has the same final status.
LastTruthful ==
    \A t \in Task : last[t] # NoLast =>
        /\ task[last[t].run] = t
        /\ meta[last[t].run] \in {last[t].status, "gone"}

\* A run of t that was not skipped and covers the latest occurrence.
CoveringRun(t) ==
    \E i \in Inv :
        /\ task[i] = t /\ result[i] \notin {"none", "skipped"}
        /\ IF Schedule = "calendar" THEN started[i] >= occ
                                    ELSE now - started[i] <= Interval

\* catch-up leaves a task alone only if a run has really covered its latest
\* occurrence, in whatever order overlapping runs have written last/<task>.json
\* (catchup.decide).
NotDueIsCovered ==
    [][Plan => \A t \in Persistent \ Disabled :
         t \in due' \/ (Schedule = "calendar" /\ occ = 0) \/ CoveringRun(t)]_vars

\* A held run lock comes free, so a task is never locked out for good.
RunLockComesFree == \A t \in Task : runLock[t] # "free" ~> runLock[t] = "free"
=============================================================================
