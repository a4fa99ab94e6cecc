--------------------------- MODULE TaskRunsProofs ---------------------------
(***************************************************************************)
(* Proofs about TaskRuns, for any number of tasks and invocations: mutual  *)
(* exclusion of workloads, agreement of last/<task>.json with the run it   *)
(* names and of catch-up with the runs there were, and no contention that  *)
(* skips everyone.                                                         *)
(***************************************************************************)
EXTENDS TaskRuns, TLAPS

\* A wrapper between its locks and its workload's end holds them.
Held ==
    \A i \in Inv :
        /\ pc[i] \in {"named", "launch", "running"} => runLock[task[i]] = i
        /\ pc[i] \in {"launch", "running"} /\ task[i] \in Shared => namedLock = i

\* A workload runs only under a wrapper that waits for it.
Attended == \A i \in Inv : alive[i] => pc[i] = "running"

\* An invocation that has written its meta.json still agrees with it.
Recorded ==
    \A i \in Inv : pc[i] = "last" => meta[i] \in {result[i], "gone"}

\* The run a summary names has passed the point where its record could change.
Summarised ==
    \A t \in Task : last[t] # NoLast =>
        /\ last[t].run \in Inv
        /\ task[last[t].run] = t
        /\ pc[last[t].run] \in {"notify", "return", "done", "dead"}
        /\ result[last[t].run] = last[t].status /\ last[t].status \in Status
        /\ started[last[t].run] = last[t].started
        /\ meta[last[t].run] \in {last[t].status, "gone"}

\* An outcome is known from the moment there is something to record.
Concluded ==
    \A i \in Inv : pc[i] \in {"meta", "last", "notify"} => result[i] \in Status

-----------------------------------------------------------------------------
USE ConstantsAssumption DEF inv, locks

\* The initial states are well typed (exec_task has not been called).
LEMMA TypeInit == Init => TypeOK
  BY DEF Init, TypeOK, NoLast

\* Every step keeps the types: meta.json and last/<task>.json only ever hold
\* statuses exec_task can write.
LEMMA TypeNext ==
    ASSUME TypeOK, Concluded, [Next]_vars PROVE TypeOK'
  <1> USE DEF TypeOK, Status, Outcome
  <1>1. ASSUME NEW i \in Inv, Create(i) PROVE
            /\ now' \in Nat /\ occ' \in Nat /\ pc' \in [Inv -> {"idle", "lock",
                  "named", "launch", "running", "meta", "last", "notify",
                  "return", "done", "dead"}]
            /\ task' \in [Inv -> Task] /\ started' \in [Inv -> Nat]
            /\ result' \in [Inv -> Status \cup {"none"}]
            /\ alive' \in [Inv -> BOOLEAN]
            /\ runLock' \in [Task -> Inv \cup {"free"}]
            /\ namedLock' \in Inv \cup {"free"}
            /\ meta' \in [Inv -> Status \cup {"running", "gone"}]
            /\ last' = last
    BY <1>1 DEF Create, Goto
  <1>2. ASSUME NEW i \in Inv, Begin(i) PROVE TypeOK'
    BY <1>1, <1>2 DEF Begin
  <1>3. ASSUME NEW i \in Inv, SweepRun(i) PROVE TypeOK'
    BY <1>1, <1>3 DEF SweepRun
  <1>4. ASSUME NEW i \in Inv, Release(i)
        PROVE /\ runLock' \in [Task -> Inv \cup {"free"}]
              /\ namedLock' \in Inv \cup {"free"}
    BY <1>4 DEF Release
  <1>5. ASSUME NEW i \in Inv, LockRun(i) PROVE TypeOK'
    <2>1. CASE RunFree(i)
      <3>1. runLock' = [runLock EXCEPT ![task[i]] = i] /\ task[i] \in Task
        BY <1>5, <2>1 DEF LockRun
      <3>2. runLock' \in [Task -> Inv \cup {"free"}]
        BY <3>1
      <3> QED BY <1>5, <2>1, <3>2 DEF LockRun, Goto
    <2>2. CASE ~ RunFree(i)
      BY <1>5, <2>2 DEF LockRun, Conclude, Goto
    <2> QED BY <2>1, <2>2
  <1>6. ASSUME NEW i \in Inv, LockNamed(i) PROVE TypeOK'
    <2>1. CASE NamedFree(i)
      BY <1>6, <2>1 DEF LockNamed, Goto
    <2>2. CASE ~ NamedFree(i)
      BY <1>4, <1>6, <2>2 DEF LockNamed, Conclude, Goto
    <2> QED BY <2>1, <2>2
  <1>7. ASSUME NEW i \in Inv, Launch(i) PROVE TypeOK'
    <2>1. CASE Release(i) /\ Conclude(i, "error") /\ UNCHANGED alive
      BY <1>4, <1>7, <2>1 DEF Launch, Conclude, Goto
    <2>2. CASE UNCHANGED <<result, locks>>
      BY <1>7, <2>2 DEF Launch, Goto, Conclude
    <2> QED BY <1>7, <2>1, <2>2 DEF Launch
  <1>8. ASSUME NEW i \in Inv, End(i) PROVE TypeOK'
    BY <1>8 DEF End, Conclude, Goto
  <1>9. ASSUME NEW i \in Inv, WriteMeta(i) PROVE TypeOK'
    BY <1>9 DEF WriteMeta, Goto, Concluded
  <1>10. ASSUME NEW i \in Inv, WriteLast(i) PROVE TypeOK'
    BY <1>10 DEF WriteLast, LastRecord, Goto
  <1>11. ASSUME NEW i \in Inv, Notify(i) PROVE TypeOK'
    <2>1. result[i] \in Status
      BY <1>11 DEF Notify, Concluded
    <2> QED BY <1>11, <2>1 DEF Notify, Goto
  <1>12. ASSUME NEW i \in Inv, Return(i) PROVE TypeOK'
    BY <1>4, <1>12 DEF Return, Goto
  <1>13. ASSUME NEW i \in Inv, Die(i) PROVE TypeOK'
    BY <1>4, <1>13 DEF Die, Goto
  <1>14. CASE Plan \/ SweepNext \/ SweepOver
    BY <1>14 DEF Plan, SweepNext, SweepOver
  <1>15. ASSUME NEW t \in Task, PruneTask(t) PROVE TypeOK'
    BY <1>15 DEF PruneTask
  <1>16. CASE Tick
    BY <1>16 DEF Tick
  <1>17. CASE UNCHANGED vars
    BY <1>17 DEF vars
  <1> QED
    BY <1>2, <1>3, <1>5, <1>6, <1>7, <1>8, <1>9, <1>10, <1>11, <1>12, <1>13,
       <1>14, <1>15, <1>16, <1>17 DEF Next, Step

\* Whoever is about to record an outcome has one.
LEMMA ConcludedNext ==
    ASSUME TypeOK, Concluded, [Next]_vars PROVE Concluded'
  <1> USE DEF TypeOK, Concluded
  <1>1. ASSUME NEW i \in Inv, Create(i) PROVE Concluded'
    BY <1>1 DEF Create, Goto, Status
  <1>2. ASSUME NEW i \in Inv, LockRun(i) \/ LockNamed(i) PROVE Concluded'
    BY <1>2 DEF LockRun, LockNamed, Conclude, Goto, Status
  <1>3. ASSUME NEW i \in Inv, Launch(i) \/ End(i) PROVE Concluded'
    BY <1>3 DEF Launch, End, Conclude, Goto, Status, Outcome
  <1>4. ASSUME NEW i \in Inv,
               WriteMeta(i) \/ WriteLast(i) \/ Notify(i) \/ Return(i) \/ Die(i)
        PROVE  Concluded'
    BY <1>4 DEF WriteMeta, WriteLast, Notify, Return, Die, Goto
  <1>5. CASE \/ Plan \/ SweepNext \/ SweepOver \/ Tick \/ UNCHANGED vars
             \/ \E t \in Task : PruneTask(t)
    BY <1>5 DEF Plan, SweepNext, SweepOver, Tick, PruneTask, vars
  <1> QED BY <1>1, <1>2, <1>3, <1>4, <1>5 DEF Next, Step, Begin, SweepRun

\* Every status in a record is one exec_task writes, in any order of triggers,
\* deaths and prunes (wrapper.exec_task, wrapper._finalize).
THEOREM RunTypeCorrect == Spec => []TypeOK
  <1>1. Init => TypeOK /\ Concluded
    BY TypeInit DEF Init, Concluded
  <1>2. TypeOK /\ Concluded /\ [Next]_vars => (TypeOK /\ Concluded)'
    BY TypeNext, ConcludedNext
  <1> QED BY <1>1, <1>2, PTL DEF Spec

-----------------------------------------------------------------------------
\* Leaving the with-blocks gives back the locks of i and no others.
LEMMA ReleaseFacts ==
    ASSUME TypeOK, NEW i \in Inv, Release(i)
    PROVE  /\ \A t \in Task : runLock[t] # i => runLock'[t] = runLock[t]
           /\ namedLock # i => namedLock' = namedLock
  BY DEF TypeOK, Release

\* A step of i that leaves its locked region cannot disturb a holder.
LEMMA LeaveHeld ==
    ASSUME TypeOK, Held, NEW i \in Inv, Release(i), task' = task,
           pc'[i] \notin {"named", "launch", "running"},
           \A j \in Inv \ {i} : pc'[j] = pc[j]
    PROVE  Held'
  <1> SUFFICES ASSUME NEW j \in Inv
               PROVE  /\ pc'[j] \in {"named", "launch", "running"} => runLock'[task[j]] = j
                      /\ pc'[j] \in {"launch", "running"} /\ task[j] \in Shared
                            => namedLock' = j
    BY DEF Held
  <1>1. CASE j = i
    BY <1>1
  <1>2. CASE j # i
    BY <1>2, ReleaseFacts DEF Held, TypeOK
  <1> QED BY <1>1, <1>2

\* No step takes a lock from the wrapper that holds it.
LEMMA HeldNext ==
    ASSUME TypeOK, Held, [Next]_vars PROVE Held'
  <1> USE DEF TypeOK
  <1>1. ASSUME NEW i \in Inv, Create(i) PROVE Held'
    BY <1>1 DEF Create, Goto, Held
  <1>2. ASSUME NEW i \in Inv, LockRun(i) PROVE Held'
    <2>1. CASE RunFree(i)
      <3> SUFFICES ASSUME NEW j \in Inv
                   PROVE  /\ pc'[j] \in {"named", "launch", "running"}
                                => runLock'[task[j]] = j
                          /\ pc'[j] \in {"launch", "running"} /\ task[j] \in Shared
                                => namedLock' = j
        BY <1>2 DEF LockRun, Held
      <3>1. runLock' = [runLock EXCEPT ![task[i]] = i] /\ namedLock' = namedLock
            /\ pc' = [pc EXCEPT ![i] = "named"] /\ task[i] \in Task
        BY <1>2, <2>1 DEF LockRun, Goto
      <3>2. CASE j = i
        BY <3>1, <3>2
      <3>3. CASE j # i
        <4>1. pc[j] \in {"named", "launch", "running"} => task[j] # task[i]
          BY <2>1, <3>3 DEF RunFree, Held
        <4> QED BY <3>1, <3>3, <4>1 DEF Held
      <3> QED BY <3>2, <3>3
    <2>2. CASE ~ RunFree(i)
      BY <1>2, <2>2 DEF LockRun, Conclude, Goto, Held
    <2> QED BY <2>1, <2>2
  <1>3. ASSUME NEW i \in Inv, LockNamed(i) PROVE Held'
    <2>1. CASE NamedFree(i)
      <3>1. /\ namedLock' = IF task[i] \in Shared THEN i ELSE namedLock
            /\ pc' = [pc EXCEPT ![i] = "launch"] /\ runLock' = runLock
            /\ task' = task /\ pc[i] = "named"
        BY <1>3, <2>1 DEF LockNamed, Goto
      <3>2. task[i] \in Shared => \A j \in Inv :
               ~ (pc[j] \in {"launch", "running"} /\ task[j] \in Shared)
        BY <2>1 DEF NamedFree, Held
      <3> QED BY <3>1, <3>2 DEF Held
    <2>2. CASE ~ NamedFree(i)
      BY <1>3, <2>2, LeaveHeld DEF LockNamed, Conclude, Goto
    <2> QED BY <2>1, <2>2
  <1>4. ASSUME NEW i \in Inv, Launch(i) PROVE Held'
    <2>1. CASE Release(i) /\ Conclude(i, "error")
      BY <1>4, <2>1, LeaveHeld DEF Launch, Conclude, Goto
    <2>2. CASE Goto(i, "running") /\ UNCHANGED locks
      BY <1>4, <2>2 DEF Launch, Goto, Held
    <2> QED BY <1>4, <2>1, <2>2 DEF Launch
  <1>5. ASSUME NEW i \in Inv, End(i) \/ WriteMeta(i) \/ WriteLast(i) \/ Notify(i)
        PROVE  Held'
    BY <1>5 DEF End, WriteMeta, WriteLast, Notify, Conclude, Goto, Held
  <1>6. ASSUME NEW i \in Inv, Return(i) PROVE Held'
    BY <1>6, LeaveHeld DEF Return, Goto
  <1>7. ASSUME NEW i \in Inv, Die(i) PROVE Held'
    BY <1>7, LeaveHeld DEF Die, Goto
  <1>8. CASE \/ Plan \/ SweepNext \/ SweepOver \/ Tick \/ UNCHANGED vars
             \/ \E t \in Task : PruneTask(t)
    BY <1>8 DEF Plan, SweepNext, SweepOver, Tick, PruneTask, vars, Held
  <1> QED
    BY <1>1, <1>2, <1>3, <1>4, <1>5, <1>6, <1>7, <1>8 DEF Next, Step, Begin, SweepRun

\* If workloads die with their wrappers, none is left unattended.
LEMMA AttendedNext ==
    ASSUME Kills, TypeOK, Attended, [Next]_vars PROVE Attended'
  <1> USE DEF TypeOK, Attended
  <1>1. ASSUME NEW i \in Inv, Create(i) \/ LockRun(i) \/ LockNamed(i) PROVE Attended'
    BY <1>1 DEF Create, LockRun, LockNamed, Conclude, Goto
  <1>2. ASSUME NEW i \in Inv, Launch(i) PROVE Attended'
    BY <1>2 DEF Launch, Conclude, Goto
  <1>3. ASSUME NEW i \in Inv, End(i) PROVE Attended'
    BY <1>3 DEF End, Conclude, Goto
  <1>4. ASSUME NEW i \in Inv, WriteMeta(i) \/ WriteLast(i) \/ Notify(i) \/ Return(i)
        PROVE  Attended'
    BY <1>4 DEF WriteMeta, WriteLast, Notify, Return, Goto
  <1>5. ASSUME NEW i \in Inv, Die(i) PROVE Attended'
    BY <1>5 DEF Die, Goto
  <1>6. CASE \/ Plan \/ SweepNext \/ SweepOver \/ Tick \/ UNCHANGED vars
             \/ \E t \in Task : PruneTask(t)
    BY <1>6 DEF Plan, SweepNext, SweepOver, Tick, PruneTask, vars
  <1> QED BY <1>1, <1>2, <1>3, <1>4, <1>5, <1>6 DEF Next, Step, Begin, SweepRun

\* run_lock and named_lock exclude: no two live workloads of one task or of one
\* lock, for any tasks, triggers and deaths, if a workload dies with its
\* wrapper (as systemd's control group and the launchd supervisor arrange).
THEOREM LocksExclude ==
    ASSUME Kills PROVE Spec => []Exclusive
  <1> DEFINE IInv == TypeOK /\ Concluded /\ Held /\ Attended
  <1>1. Init => IInv
    BY TypeInit DEF Init, Concluded, Held, Attended
  <1>2. IInv /\ [Next]_vars => IInv'
    BY TypeNext, ConcludedNext, HeldNext, AttendedNext
  <1>3. IInv => Exclusive
    BY DEF TypeOK, Held, Attended, Exclusive
  <1> QED BY <1>1, <1>2, <1>3, PTL DEF Spec
-----------------------------------------------------------------------------
\* An invocation past its first record changes neither its result nor, but for
\* prune, its meta.json: what _finalize wrote stays.
LEMMA RecordedNext ==
    ASSUME TypeOK, Recorded, [Next]_vars PROVE Recorded'
  <1> USE DEF TypeOK, Recorded
  <1>1. ASSUME NEW i \in Inv, Create(i) \/ LockRun(i) \/ LockNamed(i) PROVE Recorded'
    BY <1>1 DEF Create, LockRun, LockNamed, Conclude, Goto
  <1>2. ASSUME NEW i \in Inv, Launch(i) \/ End(i) PROVE Recorded'
    BY <1>2 DEF Launch, End, Conclude, Goto
  <1>3. ASSUME NEW i \in Inv, WriteMeta(i) PROVE Recorded'
    BY <1>3 DEF WriteMeta, Goto
  <1>4. ASSUME NEW i \in Inv, WriteLast(i) \/ Notify(i) \/ Return(i) \/ Die(i)
        PROVE  Recorded'
    BY <1>4 DEF WriteLast, Notify, Return, Die, Goto
  <1>5. ASSUME NEW t \in Task, PruneTask(t) PROVE Recorded'
    BY <1>5 DEF PruneTask
  <1>6. CASE Plan \/ SweepNext \/ SweepOver \/ Tick \/ UNCHANGED vars
    BY <1>6 DEF Plan, SweepNext, SweepOver, Tick, vars
  <1> QED BY <1>1, <1>2, <1>3, <1>4, <1>5, <1>6 DEF Next, Step, Begin, SweepRun

\* A step that writes no summary and leaves finished runs alone.
LEMMA SummaryKept ==
    ASSUME TypeOK, Summarised, last' = last, task' = task,
           \A i \in Inv : pc[i] \in {"notify", "return", "done", "dead"} =>
               /\ pc'[i] \in {"notify", "return", "done", "dead"}
               /\ result'[i] = result[i] /\ started'[i] = started[i]
               /\ meta'[i] \in {meta[i], result[i], "gone"}
    PROVE  Summarised'
  BY DEF Summarised

\* Only WriteLast changes a summary, and it names a run already recorded.
LEMMA SummarisedNext ==
    ASSUME TypeOK, Concluded, Recorded, Summarised, [Next]_vars PROVE Summarised'
  <1> USE DEF TypeOK
  <1>1. ASSUME NEW i \in Inv, Create(i) \/ LockRun(i) \/ LockNamed(i) PROVE Summarised'
    BY <1>1, SummaryKept DEF Create, LockRun, LockNamed, Conclude, Goto
  <1>2. ASSUME NEW i \in Inv, Launch(i) \/ End(i) \/ WriteMeta(i) PROVE Summarised'
    BY <1>2, SummaryKept DEF Launch, End, WriteMeta, Conclude, Goto
  <1>3. ASSUME NEW i \in Inv, WriteLast(i) PROVE Summarised'
    <2> SUFFICES ASSUME NEW t \in Task, last'[t] # NoLast
                 PROVE  /\ last'[t].run \in Inv
                        /\ task[last'[t].run] = t
                        /\ pc'[last'[t].run] \in {"notify", "return", "done", "dead"}
                        /\ result[last'[t].run] = last'[t].status /\ last'[t].status \in Status
                        /\ started[last'[t].run] = last'[t].started
                        /\ meta[last'[t].run] \in {last'[t].status, "gone"}
      BY <1>3 DEF WriteLast, Summarised
    <2>1. CASE t = task[i]
      <3>1. last'[t] = LastRecord(i)
        BY <1>3, <2>1 DEF WriteLast
      <3> QED BY <1>3, <2>1, <3>1 DEF WriteLast, LastRecord, Recorded, Concluded, Goto
    <2>2. CASE t # task[i]
      <3>1. last'[t] = last[t]
        BY <1>3, <2>2 DEF WriteLast
      <3> QED BY <1>3, <3>1 DEF WriteLast, Summarised, Goto
    <2> QED BY <2>1, <2>2
  <1>4. ASSUME NEW i \in Inv, Notify(i) \/ Return(i) \/ Die(i) PROVE Summarised'
    BY <1>4, SummaryKept DEF Notify, Return, Die, Goto
  <1>5. ASSUME NEW t \in Task, PruneTask(t) PROVE Summarised'
    BY <1>5, SummaryKept DEF PruneTask
  <1>6. CASE Plan \/ SweepNext \/ SweepOver \/ Tick \/ UNCHANGED vars
    BY <1>6, SummaryKept DEF Plan, SweepNext, SweepOver, Tick, vars
  <1> QED BY <1>1, <1>2, <1>3, <1>4, <1>5, <1>6 DEF Next, Step, Begin, SweepRun

\* last/<task>.json never announces an outcome the named run's meta.json
\* contradicts, whatever overlaps, dies or is pruned (wrapper._finalize).
THEOREM LastNeverAhead == Spec => []LastTruthful
  <1> DEFINE IInv == TypeOK /\ Concluded /\ Recorded /\ Summarised
  <1>1. Init => IInv
    BY TypeInit DEF Init, Concluded, Recorded, Summarised
  <1>2. IInv /\ [Next]_vars => IInv'
    BY TypeNext, ConcludedNext, RecordedNext, SummarisedNext
  <1>3. IInv => LastTruthful
    BY DEF Summarised, LastTruthful
  <1> QED BY <1>1, <1>2, <1>3, PTL DEF Spec

\* catch-up leaves a task alone only if a run that was not skipped really
\* covers its latest occurrence: the summary it decides from names a run that
\* started when it says and ended as it says, whichever of several overlapping
\* runs wrote it last (catchup.decide).
THEOREM CatchupSkipsOnlyCovered == Spec => NotDueIsCovered
  <1> DEFINE IInv == TypeOK /\ Concluded /\ Recorded /\ Summarised
  <1>1. Init => IInv
    BY TypeInit DEF Init, Concluded, Recorded, Summarised
  <1>2. IInv /\ [Next]_vars => IInv'
    BY TypeNext, ConcludedNext, RecordedNext, SummarisedNext
  <1>3. IInv => [Plan => \A t \in Persistent \ Disabled :
                   t \in due' \/ (Schedule = "calendar" /\ occ = 0) \/ CoveringRun(t)]_vars
    <2> SUFFICES ASSUME IInv, Plan, NEW t \in Persistent \ Disabled,
                        t \notin due', ~ (Schedule = "calendar" /\ occ = 0)
                 PROVE  CoveringRun(t)
      OBVIOUS
    <2>1. t \in Task /\ ~ Due(t)
      BY DEF Plan
    <2>2. /\ last[t] # NoLast /\ last[t].status # "skipped"
          /\ Schedule = "calendar" => last[t].started >= occ
          /\ Schedule # "calendar" => now - last[t].started <= Interval
      <3>1. occ \in Nat /\ now \in Nat /\ last[t].started \in Nat /\ Interval \in Nat
        BY <2>1 DEF TypeOK
      <3>2. CASE Schedule = "calendar"
        <4>1. ~ (occ > 0 /\ (Covers(t) => last[t].started < occ))
          BY <2>1, <3>2 DEF Due
        <4> QED BY <3>1, <3>2, <4>1 DEF Covers
      <3>3. CASE Schedule = "interval"
        <4>1. ~ (Covers(t) => now - last[t].started > Interval)
          BY <2>1, <3>3 DEF Due
        <4> QED BY <3>1, <3>3, <4>1 DEF Covers
      <3> QED BY <3>2, <3>3
    <2>3. /\ last[t].run \in Inv /\ task[last[t].run] = t
          /\ result[last[t].run] \notin {"none", "skipped"}
          /\ started[last[t].run] = last[t].started
      BY <2>1, <2>2 DEF Summarised, Status, Outcome
    <2> QED BY <2>2, <2>3 DEF CoveringRun
  <1> QED BY <1>1, <1>2, <1>3, PTL DEF Spec, NotDueIsCovered

-----------------------------------------------------------------------------
\* j is on its way with the run lock, has an outcome that is no skip, or died.
Went(j) ==
    \/ pc[j] \in {"named", "launch", "running", "dead"}
    \/ pc[j] \in {"meta", "last", "notify", "return", "done"} /\ result[j] # "skipped"

\* Whoever holds a lock is such a process, and is entitled to the lock.
HoldersWent ==
    /\ \A t \in Task : runLock[t] # "free" => Went(runLock[t]) /\ task[runLock[t]] = t
    /\ namedLock # "free" => Went(namedLock) /\ task[namedLock] \in Shared /\ pc[namedLock] # "named"

\* Every skip is owed to such a process.
SkipsJustified ==
    \A i \in Inv :
        /\ pc[i] \in {"meta", "last", "notify", "return", "done"} /\ result[i] = "skipped"
        /\ task[i] \notin Disabled
        => \E j \in Rivals(task[i]) : Went(j)

\* Only a run that finds the named lock busy turns from such a process into a
\* skipped one, and it gives its run lock back.
LEMMA WentKept ==
    ASSUME TypeOK, [Next]_vars, NEW j \in Inv, Went(j)
    PROVE  Went(j)' \/ (LockNamed(j) /\ ~ NamedFree(j))
  <1> USE DEF TypeOK, Went
  <1>1. ASSUME NEW i \in Inv, Create(i) PROVE Went(j)'
    BY <1>1 DEF Create, Goto
  <1>2. ASSUME NEW i \in Inv, LockRun(i) PROVE Went(j)'
    BY <1>2 DEF LockRun, Conclude, Goto
  <1>3. ASSUME NEW i \in Inv, LockNamed(i), ~ (LockNamed(j) /\ ~ NamedFree(j)) PROVE Went(j)'
    <2>1. CASE NamedFree(i)
      BY <1>3, <2>1 DEF LockNamed, Goto
    <2>2. CASE ~ NamedFree(i)
      <3>1. i # j
        BY <1>3, <2>2
      <3> QED BY <1>3, <2>2, <3>1 DEF LockNamed, Conclude, Goto
    <2> QED BY <2>1, <2>2
  <1>4. ASSUME NEW i \in Inv, Launch(i) \/ End(i) PROVE Went(j)'
    BY <1>4 DEF Launch, End, Conclude, Goto, Outcome
  <1>5. ASSUME NEW i \in Inv, WriteMeta(i) \/ WriteLast(i) \/ Notify(i) \/ Return(i) \/ Die(i)
        PROVE  Went(j)'
    BY <1>5 DEF WriteMeta, WriteLast, Notify, Return, Die, Goto
  <1>6. CASE \/ Plan \/ SweepNext \/ SweepOver \/ Tick \/ UNCHANGED vars
             \/ \E t \in Task : PruneTask(t)
    BY <1>6 DEF Plan, SweepNext, SweepOver, Tick, PruneTask, vars
  <1> QED BY <1>1, <1>2, <1>3, <1>4, <1>5, <1>6 DEF Next, Step, Begin, SweepRun

\* The locks change hands only by LockRun and LockNamed; otherwise they are
\* kept or come free.
LEMMA LockSteps ==
    ASSUME TypeOK, [Next]_vars
    PROVE  /\ task' = task
           /\ \A t \in Task : \/ runLock'[t] \in {runLock[t], "free"}
                              \/ \E i \in Inv : /\ LockRun(i) /\ RunFree(i) /\ task[i] = t
                                                /\ runLock'[t] = i /\ pc'[i] = "named"
           /\ \/ namedLock' \in {namedLock, "free"}
              \/ \E i \in Inv : /\ LockNamed(i) /\ NamedFree(i) /\ task[i] \in Shared
                                /\ namedLock' = i /\ pc'[i] = "launch"
  <1> USE DEF TypeOK, Goto
  <1>1. ASSUME NEW i \in Inv, Create(i) PROVE task' = task /\ UNCHANGED <<runLock, namedLock>>
    BY <1>1 DEF Create
  <1>2. CASE \E i \in Inv : LockRun(i)
    <2>1. PICK i \in Inv : LockRun(i)
      BY <1>2
    <2>2. task' = task /\ namedLock' = namedLock
      BY <2>1 DEF LockRun
    <2>3. CASE RunFree(i)
      <3>1. runLock' = [runLock EXCEPT ![task[i]] = i] /\ pc'[i] = "named"
        BY <2>1, <2>3 DEF LockRun
      <3> QED BY <2>1, <2>2, <2>3, <3>1
    <2>4. CASE ~ RunFree(i)
      BY <2>1, <2>2, <2>4 DEF LockRun
    <2> QED BY <2>3, <2>4
  <1>3. CASE \E i \in Inv : LockNamed(i)
    <2>1. PICK i \in Inv : LockNamed(i)
      BY <1>3
    <2>2. task' = task
      BY <2>1 DEF LockNamed
    <2>3. CASE NamedFree(i)
      <3>1. runLock' = runLock /\ pc'[i] = "launch"
            /\ namedLock' = IF task[i] \in Shared THEN i ELSE namedLock
        BY <2>1, <2>3 DEF LockNamed
      <3> QED BY <2>1, <2>2, <2>3, <3>1
    <2>4. CASE ~ NamedFree(i)
      BY <2>1, <2>2, <2>4 DEF LockNamed, Release
    <2> QED BY <2>3, <2>4
  <1>4. ASSUME NEW i \in Inv, Launch(i) \/ Return(i) \/ Die(i)
        PROVE  task' = task /\ (Release(i) \/ UNCHANGED <<runLock, namedLock>>)
    BY <1>4 DEF Launch, Return, Die
  <1>5. ASSUME NEW i \in Inv, Release(i)
        PROVE  /\ \A t \in Task : runLock'[t] \in {runLock[t], "free"}
               /\ namedLock' \in {namedLock, "free"}
    BY <1>5 DEF Release
  <1>6. ASSUME NEW i \in Inv, End(i) \/ WriteMeta(i) \/ WriteLast(i) \/ Notify(i)
        PROVE  task' = task /\ UNCHANGED <<runLock, namedLock>>
    BY <1>6 DEF End, WriteMeta, WriteLast, Notify
  <1>7. CASE \/ Plan \/ SweepNext \/ SweepOver \/ Tick \/ UNCHANGED vars
             \/ \E t \in Task : PruneTask(t)
    BY <1>7 DEF Plan, SweepNext, SweepOver, Tick, PruneTask, vars
  <1> QED BY <1>1, <1>2, <1>3, <1>4, <1>5, <1>6, <1>7 DEF Next, Step, Begin, SweepRun

\* A process does not come back to where it asks for its locks.
LEMMA NotBack ==
    ASSUME TypeOK, [Next]_vars, NEW j \in Inv, pc[j] \notin {"lock", "named"}
    PROVE  pc'[j] # "named"
  <1> USE DEF TypeOK, Goto
  <1>1. ASSUME NEW i \in Inv, Create(i) \/ LockRun(i) \/ LockNamed(i)
        PROVE  \/ pc' = pc
               \/ \E l \in {"lock", "launch", "meta"} : pc' = [pc EXCEPT ![i] = l]
               \/ pc[i] = "lock" /\ pc' = [pc EXCEPT ![i] = "named"]
    BY <1>1 DEF Create, LockRun, LockNamed, Conclude
  <1>2. ASSUME NEW i \in Inv, Launch(i) \/ End(i) \/ WriteMeta(i) \/ WriteLast(i) \/ Notify(i)
                              \/ Return(i) \/ Die(i)
        PROVE  \E l \in {"running", "meta", "last", "notify", "return", "done", "dead"} :
                  pc' = [pc EXCEPT ![i] = l]
    BY <1>2 DEF Launch, End, WriteMeta, WriteLast, Notify, Return, Die, Conclude
  <1>3. CASE \/ Plan \/ SweepNext \/ SweepOver \/ Tick \/ UNCHANGED vars
             \/ \E t \in Task : PruneTask(t)
    BY <1>3 DEF Plan, SweepNext, SweepOver, Tick, PruneTask, vars
  <1> QED BY <1>1, <1>2, <1>3 DEF Next, Step, Begin, SweepRun

\* Locks are always held by someone who justifies a skip.
LEMMA HoldersNext ==
    ASSUME TypeOK, HoldersWent, [Next]_vars PROVE HoldersWent'
  <1>k. ASSUME NEW j \in Inv, Went(j),
               \/ \E t \in Task : runLock'[t] = j
               \/ namedLock' = j
        PROVE  Went(j)'
    <2>1. ASSUME LockNamed(j), ~ NamedFree(j) PROVE FALSE
      BY <1>k, <2>1 DEF LockNamed, Release, TypeOK
    <2> QED BY <1>k, <2>1, WentKept
  <1>1. ASSUME NEW t \in Task, runLock'[t] # "free"
        PROVE  Went(runLock[t])' /\ task'[runLock'[t]] = t
    <2>1. CASE runLock'[t] = runLock[t]
      <3>1. PICK j \in Inv : j = runLock[t]
        BY <1>1, <2>1 DEF TypeOK
      <3>2. Went(j)' /\ task[j] = t
        BY <1>1, <1>k, <2>1, <3>1 DEF HoldersWent
      <3> QED BY <2>1, <3>1, <3>2, LockSteps DEF Went
    <2>2. CASE \E i \in Inv : task[i] = t /\ runLock'[t] = i /\ pc'[i] = "named"
      BY <2>2, LockSteps DEF Went
    <2> QED BY <1>1, <2>1, <2>2, LockSteps
  <1>2. ASSUME namedLock' # "free"
        PROVE  Went(namedLock)' /\ task'[namedLock'] \in Shared /\ pc'[namedLock'] # "named"
    <2>1. CASE namedLock' = namedLock
      <3>1. PICK j \in Inv : j = namedLock
        BY <1>2, <2>1 DEF TypeOK
      <3>2. Went(j)' /\ task[j] \in Shared /\ pc[j] \notin {"named", "lock", "idle"}
        BY <1>2, <1>k, <2>1, <3>1 DEF HoldersWent, Went
      <3>3. pc'[j] # "named"
        BY <3>2, NotBack
      <3> QED BY <2>1, <3>1, <3>2, <3>3, LockSteps DEF Went
    <2>2. CASE \E i \in Inv : task[i] \in Shared /\ namedLock' = i /\ pc'[i] = "launch"
      BY <2>2, LockSteps DEF Went
    <2> QED BY <1>2, <2>1, <2>2, LockSteps
  <1> QED BY <1>1, <1>2 DEF HoldersWent

\* A skip for want of a lock is owed to its holder, and a justification is lost
\* only to the holder of the named lock.
LEMMA SkipsNext ==
    ASSUME TypeOK, HoldersWent, SkipsJustified, [Next]_vars PROVE SkipsJustified'
  <1> DEFINE Over == {"meta", "last", "notify", "return", "done"}
  <1>0. task' = task
    BY LockSteps
  <1>1. ASSUME NEW t \in Task, \E j \in Rivals(t) : Went(j)
        PROVE  \E j \in Rivals(t) : Went(j)'
    <2>1. PICK j \in Rivals(t) : Went(j)
      BY <1>1
    <2>2. j \in Inv
      BY DEF Rivals
    <2>3. CASE Went(j)'
      BY <2>3
    <2>4. CASE LockNamed(j) /\ ~ NamedFree(j)
      <3>1. PICK k \in Inv : k = namedLock /\ task[j] \in Shared
        BY <2>4 DEF NamedFree, TypeOK
      <3>2. Went(k) /\ task[k] \in Shared /\ pc[k] # "named"
        BY <3>1, <2>4 DEF HoldersWent, NamedFree
      <3>3. ~ LockNamed(k)
        BY <3>2 DEF LockNamed
      <3>4. Went(k)'
        BY <3>2, <3>3, WentKept
      <3>5. k \in Rivals(t)
        BY <3>1, <3>2, <2>1 DEF Rivals
      <3> QED BY <3>4, <3>5
    <2> QED BY <2>1, <2>2, <2>3, <2>4, WentKept
  <1>2. ASSUME NEW i \in Inv, pc'[i] \in Over, result'[i] = "skipped", task[i] \notin Disabled,
               ~ (pc[i] \in Over /\ result[i] = "skipped")
        PROVE  \E j \in Rivals(task[i]) : Went(j)
    <2>1. \/ LockRun(i) /\ ~ RunFree(i)
          \/ LockNamed(i) /\ ~ NamedFree(i)
      <3> USE DEF TypeOK, Goto, Conclude
      <3>1. ASSUME NEW k \in Inv, Create(k) PROVE FALSE
        BY <1>2, <3>1 DEF Create
      <3>2. ASSUME NEW k \in Inv, LockRun(k) PROVE k = i /\ ~ RunFree(i)
        BY <1>2, <3>2 DEF LockRun
      <3>3. ASSUME NEW k \in Inv, LockNamed(k) PROVE k = i /\ ~ NamedFree(i)
        BY <1>2, <3>3 DEF LockNamed
      <3>4. ASSUME NEW k \in Inv, Launch(k) \/ End(k) PROVE FALSE
        BY <1>2, <3>4 DEF Launch, End, Outcome
      <3>5. ASSUME NEW k \in Inv, \/ WriteMeta(k) \/ WriteLast(k) \/ Notify(k) \/ Return(k)
                                  \/ Die(k)
            PROVE  FALSE
        BY <1>2, <3>5 DEF WriteMeta, WriteLast, Notify, Return, Die
      <3>6. CASE \/ Plan \/ SweepNext \/ SweepOver \/ Tick \/ UNCHANGED vars
                 \/ \E t \in Task : PruneTask(t)
        BY <1>2, <3>6 DEF Plan, SweepNext, SweepOver, Tick, PruneTask, vars
      <3> QED BY <3>1, <3>2, <3>3, <3>4, <3>5, <3>6 DEF Next, Step, Begin, SweepRun
    <2>2. CASE LockRun(i) /\ ~ RunFree(i)
      <3>1. PICK j \in Inv : j = runLock[task[i]] /\ task[i] \in Task
        BY <2>2 DEF RunFree, TypeOK
      <3>2. Went(j) /\ task[j] = task[i]
        BY <2>2, <3>1 DEF HoldersWent, RunFree
      <3> QED BY <3>2 DEF Rivals
    <2>3. CASE LockNamed(i) /\ ~ NamedFree(i)
      <3>1. pc[i] = "named"
        BY <2>3 DEF LockNamed
      <3> QED BY <3>1 DEF Went, Rivals
    <2> QED BY <2>1, <2>2, <2>3
  <1> SUFFICES ASSUME NEW i \in Inv, pc'[i] \in Over, result'[i] = "skipped",
                      task[i] \notin Disabled
               PROVE  \E j \in Rivals(task[i]) : Went(j)'
    BY <1>0 DEF SkipsJustified, Rivals
  <1>3. task[i] \in Task
    BY DEF TypeOK
  <1>4. \E j \in Rivals(task[i]) : Went(j)
    BY <1>2 DEF SkipsJustified
  <1> QED BY <1>1, <1>3, <1>4

\* Contention never skips everyone: whenever all competitors for a task's
\* locks have come and gone and none died, one of them was not skipped, for any
\* number of overlapping triggers (locks.run_lock, locks.named_lock).
THEOREM ContentionLeavesOne == Spec => []SomeoneRuns
  <1> DEFINE IInv == TypeOK /\ Concluded /\ HoldersWent /\ SkipsJustified
  <1>1. Init => IInv
    BY TypeInit DEF Init, Concluded, HoldersWent, SkipsJustified
  <1>2. IInv /\ [Next]_vars => IInv'
    BY TypeNext, ConcludedNext, HoldersNext, SkipsNext
  <1>3. IInv => SomeoneRuns
    <2> SUFFICES ASSUME IInv, NEW t \in Task \ Disabled,
                        \A i \in Rivals(t) : pc[i] \in {"idle", "done"},
                        NEW i \in Rivals(t), pc[i] = "done", task[i] = t
                 PROVE  \E j \in Rivals(t) : pc[j] = "done" /\ result[j] # "skipped"
      BY DEF SomeoneRuns
    <2>1. CASE result[i] = "skipped"
      <3>1. i \in Inv
        BY DEF Rivals
      <3>2. PICK j \in Rivals(t) : Went(j)
        BY <2>1, <3>1 DEF SkipsJustified
      <3> QED BY <3>2 DEF Went
    <2> QED BY <2>1
  <1> QED BY <1>1, <1>2, <1>3, PTL DEF Spec
=============================================================================
