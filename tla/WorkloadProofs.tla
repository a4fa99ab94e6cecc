--------------------------- MODULE WorkloadProofs ---------------------------
(***************************************************************************)
(* For any set of descendants, in every mode, with wrapper and supervisor  *)
(* killed at any step: the recorded outcome is true, and nothing of the    *)
(* process group is left when it is recorded; and the processes of one     *)
(* exec_task implement OneShot.                                            *)
(***************************************************************************)
EXTENDS WorkloadOneShot, TLAPS

\* Inside the wait loop or _terminate.
Waiting == pc \in {"top", "wait", "poll", "term", "kill"}

Gone == ~GroupAlive

\* Which processes exist at which stage.
Started ==
    /\ pc \in {"gate", "popen"} => sup = "none" /\ cmd = "unborn" /\ Gone
    /\ ~Supervised => sup = "none"
    /\ sup \in {"booting", "deaf"} => cmd = "unborn"
    /\ Waiting => IF Supervised THEN sup # "none" ELSE cmd # "unborn"

\* What result pipe and exit code say of the command.  The third and fourth
\* conjuncts are the supervisor's own failure to start it, the fifth says that
\* nothing is killed before the outcome is decided, the last two that SIGKILL
\* leaves nothing, also when the leader cannot be collected in time.
Known ==
    /\ (pipe = "zero" => cmd = "zero") /\ (pipe = "nonzero" => cmd = "nonzero")
    /\ code = "zero" => cmd = "zero"
    /\ sup = "dead" /\ ~killed /\ why = "none" /\ Waiting => cmd = "unborn"
    /\ code = "nonzero" /\ why = "none" /\ ~killed =>
          cmd = "nonzero" \/ (cmd = "unborn" /\ sup = "dead")
    /\ cmd = "killed" => pc \in {"cleanup", "close", "done", "dead", "raised"} \/ reap # "prompt"
    /\ cmd = "killed" \/ reap # "prompt" => Gone
    /\ Waiting /\ reap # "prompt" => why # "none"

\* Why the wrapper stops, and what it has decided when it is through.
Decided ==
    /\ why = "timeout" => late \/ (cancel /\ reap # "prompt")
    /\ why = "cancelled" => cancel
    /\ pc \in {"gate", "popen"} => why = "none" /\ code = "none" /\ reap = "prompt"
    /\ pc \in {"term", "kill"} => why # "none"
    /\ pc = "cleanup" => mode # "plain"
    /\ pc \in {"cleanup", "close"} /\ why = "none" => code # "none"
    /\ pc = "close" /\ (mode # "plain" \/ why # "none") => Gone

\* What is on record.
Recorded ==
    /\ status # "running" => pc = "done"
    /\ pc = "done" /\ (mode # "plain" \/ status = "timeout") => Gone
    /\ status = "ok" => code = "zero"
    /\ status = "failed" => code = "nonzero" /\ why = "none"
    /\ status = "timeout" => late \/ (cancel /\ reap # "prompt")
    /\ status = "cancelled" => cancel

\* The inductive invariant.
WorkloadInv == TypeOK /\ Started /\ Known /\ Decided /\ Recorded

-----------------------------------------------------------------------------
\* No step of the wrapper breaks the invariant: Kill and Cleanup are the steps
\* that make Gone true, Spawn the only one that makes it false.
LEMMA InvWrapper == WorkloadInv /\ Wrapper => WorkloadInv'
<1> SUFFICES ASSUME WorkloadInv, Wrapper PROVE WorkloadInv'
  OBVIOUS
<1> USE DEF WorkloadInv
<1>1. CASE Gate
  <2> USE <1>1 DEF Gate, Record, history, fixed, signals, group
  <2>1. TypeOK'
    BY DEF TypeOK
  <2>2. Started'
    BY DEF TypeOK, Started, Waiting, Gone, GroupAlive, SupAlive, Supervised
  <2>3. Known'
    BY DEF TypeOK, Started, Known, Decided, Waiting, Gone, GroupAlive, SupAlive, Supervised
  <2>4. Decided'
    BY DEF TypeOK, Started, Decided, Gone, GroupAlive, SupAlive, Supervised
  <2>5. Recorded'
    BY DEF TypeOK, Started, Decided, Recorded, Gone, GroupAlive, SupAlive
  <2> QED
    BY <2>1, <2>2, <2>3, <2>4, <2>5 DEF WorkloadInv
<1>2. CASE Spawn
  <2> USE <1>2 DEF Spawn, Record, history, fixed, signals
  <2>1. TypeOK'
    BY DEF TypeOK
  <2>2. Started'
    BY DEF TypeOK, Started, Waiting, Gone, GroupAlive, SupAlive, Supervised
  <2>3. Known'
    BY DEF TypeOK, Started, Known, Decided, Waiting, Gone, GroupAlive, SupAlive, Supervised
  <2>4. Decided'
    BY DEF TypeOK, Started, Decided, Gone, GroupAlive, SupAlive, Supervised
  <2>5. Recorded'
    BY DEF TypeOK, Started, Decided, Recorded, Gone, GroupAlive, SupAlive
  <2> QED
    BY <2>1, <2>2, <2>3, <2>4, <2>5 DEF WorkloadInv
<1>3. CASE Top
  <2> USE <1>3 DEF Top, Stop, history, fixed, signals, group
  <2>1. TypeOK'
    BY DEF TypeOK
  <2>2. Started'
    BY DEF TypeOK, Started, Waiting, Gone, GroupAlive, SupAlive, Supervised
  <2>3. Known'
    BY DEF TypeOK, Started, Known, Decided, Waiting, Gone, GroupAlive, SupAlive, Supervised
  <2>4. Decided'
    BY DEF TypeOK, Started, Decided, Gone, GroupAlive, SupAlive, Supervised
  <2>5. Recorded'
    BY DEF TypeOK, Started, Decided, Recorded, Gone, GroupAlive, SupAlive
  <2> QED
    BY <2>1, <2>2, <2>3, <2>4, <2>5 DEF WorkloadInv
<1>4. CASE WaitReturns
  <2> USE <1>4 DEF WaitReturns, AfterWait, AfterWorkload, Ready, ReturnCode, LeaderGone,
                   history, fixed, signals, group
  <2>1. TypeOK'
    BY DEF TypeOK
  <2>2. Started'
    BY DEF TypeOK, Started, Waiting, Gone, GroupAlive, SupAlive, Supervised
  <2>3. Known'
    BY DEF TypeOK, Started, Known, Decided, Waiting, Gone, GroupAlive, SupAlive, Supervised
  <2>4. Decided'
    BY DEF TypeOK, Started, Decided, Gone, GroupAlive, SupAlive, Supervised
  <2>5. Recorded'
    BY DEF TypeOK, Started, Decided, Recorded, Gone, GroupAlive, SupAlive
  <2> QED
    BY <2>1, <2>2, <2>3, <2>4, <2>5 DEF WorkloadInv
<1>5. CASE WaitExpires
  <2> USE <1>5 DEF WaitExpires, Stop, history, fixed, signals, group
  <2>1. TypeOK'
    BY DEF TypeOK
  <2>2. Started'
    BY DEF TypeOK, Started, Waiting, Gone, GroupAlive, SupAlive, Supervised
  <2>3. Known'
    BY DEF TypeOK, Started, Known, Decided, Waiting, Gone, GroupAlive, SupAlive, Supervised
  <2>4. Decided'
    BY DEF TypeOK, Started, Decided, Gone, GroupAlive, SupAlive, Supervised
  <2>5. Recorded'
    BY DEF TypeOK, Started, Decided, Recorded, Gone, GroupAlive, SupAlive
  <2> QED
    BY <2>1, <2>2, <2>3, <2>4, <2>5 DEF WorkloadInv
<1>6. CASE Poll
  <2> USE <1>6 DEF Poll, AfterWait, AfterWorkload, ReturnCode, LeaderGone, history, fixed, signals, group
  <2>1. TypeOK'
    BY DEF TypeOK
  <2>2. Started'
    BY DEF TypeOK, Started, Waiting, Gone, GroupAlive, SupAlive, Supervised
  <2>3. Known'
    BY DEF TypeOK, Started, Known, Decided, Waiting, Gone, GroupAlive, SupAlive, Supervised
  <2>4. Decided'
    BY DEF TypeOK, Started, Decided, Gone, GroupAlive, SupAlive, Supervised
  <2>5. Recorded'
    BY DEF TypeOK, Started, Decided, Recorded, Gone, GroupAlive, SupAlive
  <2> QED
    BY <2>1, <2>2, <2>3, <2>4, <2>5 DEF WorkloadInv
<1>7. CASE Term
  <2> USE <1>7 DEF Term, TermSupervisor, history, fixed, signals
  <2>1. TypeOK'
    BY DEF TypeOK
  <2>2. Started'
    BY DEF TypeOK, Started, Waiting, Gone, GroupAlive, SupAlive, Supervised
  <2>3. Known'
    BY DEF TypeOK, Started, Known, Decided, Waiting, Gone, GroupAlive, SupAlive, Supervised
  <2>4. Decided'
    BY DEF TypeOK, Started, Decided, Gone, GroupAlive, SupAlive, Supervised
  <2>5. Recorded'
    BY DEF TypeOK, Started, Decided, Recorded, Gone, GroupAlive, SupAlive
  <2> QED
    BY <2>1, <2>2, <2>3, <2>4, <2>5 DEF WorkloadInv
<1>8. CASE Kill
  <2> USE <1>8 DEF Kill, KillExpires, Collected, Expired, Stop, LeaderGone, KillGroup, AfterWorkload,
                   ReturnCode, history, fixed, signals
  <2>1. TypeOK'
    BY DEF TypeOK
  <2>2. Started'
    BY DEF TypeOK, Started, Waiting, Gone, GroupAlive, SupAlive, Supervised
  <2>3. Known'
    BY DEF TypeOK, Started, Known, Decided, Waiting, Gone, GroupAlive, SupAlive, Supervised
  <2>4. Decided'
    BY DEF TypeOK, Started, Decided, Gone, GroupAlive, SupAlive, Supervised
  <2>5. Recorded'
    BY DEF TypeOK, Started, Decided, Recorded, Gone, GroupAlive, SupAlive
  <2> QED
    BY <2>1, <2>2, <2>3, <2>4, <2>5 DEF WorkloadInv
<1>9. CASE Cleanup
  <2> USE <1>9 DEF Cleanup, Collected, Expired, LeaderGone, KillGroup, history, fixed, signals
  <2>1. TypeOK'
    BY DEF TypeOK
  <2>2. Started'
    BY DEF TypeOK, Started, Waiting, Gone, GroupAlive, SupAlive, Supervised
  <2>3. Known'
    BY DEF TypeOK, Started, Known, Decided, Waiting, Gone, GroupAlive, SupAlive, Supervised
  <2>4. Decided'
    BY DEF TypeOK, Started, Decided, Gone, GroupAlive, SupAlive, Supervised
  <2>5. Recorded'
    BY DEF TypeOK, Started, Decided, Recorded, Gone, GroupAlive, SupAlive
  <2> QED
    BY <2>1, <2>2, <2>3, <2>4, <2>5 DEF WorkloadInv
<1>10. CASE Close
  <2> USE <1>10 DEF Close, Record, history, fixed, signals, group
  <2>1. TypeOK'
    BY DEF TypeOK
  <2>2. Started'
    BY DEF TypeOK, Started, Waiting, Gone, GroupAlive, SupAlive, Supervised
  <2>3. Known'
    BY DEF TypeOK, Started, Known, Decided, Waiting, Gone, GroupAlive, SupAlive, Supervised
  <2>4. Decided'
    BY DEF TypeOK, Started, Decided, Gone, GroupAlive, SupAlive, Supervised
  <2>5. Recorded'
    BY DEF TypeOK, Started, Decided, Recorded, Gone, GroupAlive, SupAlive
  <2> QED
    BY <2>1, <2>2, <2>3, <2>4, <2>5 DEF WorkloadInv
<1> QED
  BY <1>1, <1>2, <1>3, <1>4, <1>5, <1>6, <1>7, <1>8, <1>9, <1>10 DEF Wrapper

\* No step of the supervisor does: it kills the group only when the wrapper is
\* through or gone, or before there is a command.
LEMMA InvSupervisor == WorkloadInv /\ Supervisor => WorkloadInv'
<1> SUFFICES ASSUME WorkloadInv, Supervisor PROVE WorkloadInv'
  OBVIOUS
<1> USE DEF WorkloadInv
<1>1. CASE SupInstall
  <2> USE <1>1 DEF SupInstall, history, fixed, wrapper, signals
  <2>1. TypeOK'
    BY DEF TypeOK
  <2>2. Started'
    BY DEF TypeOK, Started, Waiting, Gone, GroupAlive, SupAlive, Supervised
  <2>3. Known'
    BY DEF TypeOK, Started, Known, Decided, Waiting, Gone, GroupAlive, SupAlive, Supervised
  <2>4. Decided'
    BY DEF TypeOK, Started, Decided, Gone, GroupAlive, SupAlive, Supervised
  <2>5. Recorded'
    BY DEF TypeOK, Started, Decided, Recorded, Gone, GroupAlive, SupAlive
  <2> QED
    BY <2>1, <2>2, <2>3, <2>4, <2>5 DEF WorkloadInv
<1>2. CASE SupStart
  <2> USE <1>2 DEF SupStart, KillGroup, history, fixed, wrapper, signals
  <2>1. TypeOK'
    BY DEF TypeOK
  <2>2. Started'
    BY DEF TypeOK, Started, Waiting, Gone, GroupAlive, SupAlive, Supervised
  <2>3. Known'
    BY DEF TypeOK, Started, Known, Decided, Waiting, Gone, GroupAlive, SupAlive, Supervised
  <2>4. Decided'
    BY DEF TypeOK, Started, Decided, Gone, GroupAlive, SupAlive, Supervised
  <2>5. Recorded'
    BY DEF TypeOK, Started, Decided, Recorded, Gone, GroupAlive, SupAlive
  <2> QED
    BY <2>1, <2>2, <2>3, <2>4, <2>5 DEF WorkloadInv
<1>3. CASE SupReport
  <2> USE <1>3 DEF SupReport, history, fixed, wrapper, signals, group
  <2>1. TypeOK'
    BY DEF TypeOK
  <2>2. Started'
    BY DEF TypeOK, Started, Waiting, Gone, GroupAlive, SupAlive, Supervised
  <2>3. Known'
    BY DEF TypeOK, Started, Known, Decided, Waiting, Gone, GroupAlive, SupAlive, Supervised
  <2>4. Decided'
    BY DEF TypeOK, Started, Decided, Gone, GroupAlive, SupAlive, Supervised
  <2>5. Recorded'
    BY DEF TypeOK, Started, Decided, Recorded, Gone, GroupAlive, SupAlive
  <2> QED
    BY <2>1, <2>2, <2>3, <2>4, <2>5 DEF WorkloadInv
<1>4. CASE SupBreak
  <2> USE <1>4 DEF SupBreak, Eof, Ended, Holders, KillGroup, history, fixed, wrapper, signals
  <2>1. TypeOK'
    BY DEF TypeOK
  <2>2. Started'
    BY DEF TypeOK, Started, Waiting, Gone, GroupAlive, SupAlive, Supervised
  <2>3. Known'
    BY DEF TypeOK, Started, Known, Decided, Waiting, Gone, GroupAlive, SupAlive, Supervised
  <2>4. Decided'
    BY DEF TypeOK, Started, Decided, Gone, GroupAlive, SupAlive, Supervised
  <2>5. Recorded'
    BY DEF TypeOK, Started, Decided, Recorded, Gone, GroupAlive, SupAlive
  <2> QED
    BY <2>1, <2>2, <2>3, <2>4, <2>5 DEF WorkloadInv
<1> QED
  BY <1>1, <1>2, <1>3, <1>4 DEF Supervisor

\* Nor do deaths, the clock, a cancellation or what the command's own processes
\* do: where the group is gone nobody is left to fork.
LEMMA InvRest ==
    ASSUME WorkloadInv,
           \/ WrapperDies \/ Cancel \/ DeadlinePasses \/ SupervisorDies \/ CommandEnds \/ Reap
           \/ \E k \in Child : Fork(k) \/ ChildEnds(k)
    PROVE  WorkloadInv'
<1> USE DEF WorkloadInv
<1>1. CASE WrapperDies
  <2> USE <1>1 DEF WrapperDies, Ended, history, fixed, signals, group
  <2>1. TypeOK'
    BY DEF TypeOK
  <2>2. Started'
    BY DEF TypeOK, Started, Waiting, Gone, GroupAlive, SupAlive, Supervised
  <2>3. Known'
    BY DEF TypeOK, Started, Known, Decided, Waiting, Gone, GroupAlive, SupAlive, Supervised
  <2>4. Decided'
    BY DEF TypeOK, Started, Decided, Gone, GroupAlive, SupAlive, Supervised
  <2>5. Recorded'
    BY DEF TypeOK, Started, Decided, Recorded, Gone, GroupAlive, SupAlive
  <2> QED
    BY <2>1, <2>2, <2>3, <2>4, <2>5 DEF WorkloadInv
<1>2. CASE Cancel
  <2> USE <1>2 DEF Cancel, Ended, history, fixed, wrapper, group
  <2>1. TypeOK'
    BY DEF TypeOK
  <2>2. Started'
    BY DEF TypeOK, Started, Waiting, Gone, GroupAlive, SupAlive, Supervised
  <2>3. Known'
    BY DEF TypeOK, Started, Known, Decided, Waiting, Gone, GroupAlive, SupAlive, Supervised
  <2>4. Decided'
    BY DEF TypeOK, Started, Decided, Gone, GroupAlive, SupAlive, Supervised
  <2>5. Recorded'
    BY DEF TypeOK, Started, Decided, Recorded, Gone, GroupAlive, SupAlive
  <2> QED
    BY <2>1, <2>2, <2>3, <2>4, <2>5 DEF WorkloadInv
<1>3. CASE DeadlinePasses
  <2> USE <1>3 DEF DeadlinePasses, history, fixed, wrapper, group
  <2>1. TypeOK'
    BY DEF TypeOK
  <2>2. Started'
    BY DEF TypeOK, Started, Waiting, Gone, GroupAlive, SupAlive, Supervised
  <2>3. Known'
    BY DEF TypeOK, Started, Known, Decided, Waiting, Gone, GroupAlive, SupAlive, Supervised
  <2>4. Decided'
    BY DEF TypeOK, Started, Decided, Gone, GroupAlive, SupAlive, Supervised
  <2>5. Recorded'
    BY DEF TypeOK, Started, Decided, Recorded, Gone, GroupAlive, SupAlive
  <2> QED
    BY <2>1, <2>2, <2>3, <2>4, <2>5 DEF WorkloadInv
<1>4. CASE SupervisorDies
  <2> USE <1>4 DEF SupervisorDies, history, fixed, wrapper, signals
  <2>1. TypeOK'
    BY DEF TypeOK
  <2>2. Started'
    BY DEF TypeOK, Started, Waiting, Gone, GroupAlive, SupAlive, Supervised
  <2>3. Known'
    BY DEF TypeOK, Started, Known, Decided, Waiting, Gone, GroupAlive, SupAlive, Supervised
  <2>4. Decided'
    BY DEF TypeOK, Started, Decided, Gone, GroupAlive, SupAlive, Supervised
  <2>5. Recorded'
    BY DEF TypeOK, Started, Decided, Recorded, Gone, GroupAlive, SupAlive
  <2> QED
    BY <2>1, <2>2, <2>3, <2>4, <2>5 DEF WorkloadInv
<1>5. CASE CommandEnds
  <2> USE <1>5 DEF CommandEnds, history, fixed, wrapper, signals
  <2>1. TypeOK'
    BY DEF TypeOK
  <2>2. Started'
    BY DEF TypeOK, Started, Waiting, Gone, GroupAlive, SupAlive, Supervised
  <2>3. Known'
    BY DEF TypeOK, Started, Known, Decided, Waiting, Gone, GroupAlive, SupAlive, Supervised
  <2>4. Decided'
    BY DEF TypeOK, Started, Decided, Gone, GroupAlive, SupAlive, Supervised
  <2>5. Recorded'
    BY DEF TypeOK, Started, Decided, Recorded, Gone, GroupAlive, SupAlive
  <2> QED
    BY <2>1, <2>2, <2>3, <2>4, <2>5 DEF WorkloadInv
<1>6. CASE \E k \in Child : Fork(k)
  <2> USE <1>6 DEF Fork, history, fixed, wrapper, signals
  <2>1. TypeOK'
    BY DEF TypeOK
  <2>2. Started'
    BY DEF TypeOK, Started, Waiting, Gone, GroupAlive, SupAlive, Supervised
  <2>3. Known'
    BY DEF TypeOK, Started, Known, Decided, Waiting, Gone, GroupAlive, SupAlive, Supervised
  <2>4. Decided'
    BY DEF TypeOK, Started, Decided, Gone, GroupAlive, SupAlive, Supervised
  <2>5. Recorded'
    BY DEF TypeOK, Started, Decided, Recorded, Gone, GroupAlive, SupAlive
  <2> QED
    BY <2>1, <2>2, <2>3, <2>4, <2>5 DEF WorkloadInv
<1>7. CASE \E k \in Child : ChildEnds(k)
  <2> USE <1>7 DEF ChildEnds, history, fixed, wrapper, signals
  <2>1. TypeOK'
    BY DEF TypeOK
  <2>2. Started'
    BY DEF TypeOK, Started, Waiting, Gone, GroupAlive, SupAlive, Supervised
  <2>3. Known'
    BY DEF TypeOK, Started, Known, Decided, Waiting, Gone, GroupAlive, SupAlive, Supervised
  <2>4. Decided'
    BY DEF TypeOK, Started, Decided, Gone, GroupAlive, SupAlive, Supervised
  <2>5. Recorded'
    BY DEF TypeOK, Started, Decided, Recorded, Gone, GroupAlive, SupAlive
  <2> QED
    BY <2>1, <2>2, <2>3, <2>4, <2>5 DEF WorkloadInv
<1>8. CASE Reap
  <2> USE <1>8 DEF Reap, fixed, wrapper, signals, group
  <2>1. TypeOK'
    BY DEF TypeOK
  <2>2. Started'
    BY DEF TypeOK, Started, Waiting, Gone, GroupAlive, SupAlive, Supervised
  <2>3. Known'
    BY DEF TypeOK, Started, Known, Decided, Waiting, Gone, GroupAlive, SupAlive, Supervised
  <2>4. Decided'
    BY DEF TypeOK, Started, Decided, Gone, GroupAlive, SupAlive, Supervised
  <2>5. Recorded'
    BY DEF TypeOK, Started, Decided, Recorded, Gone, GroupAlive, SupAlive
  <2> QED
    BY <2>1, <2>2, <2>3, <2>4, <2>5 DEF WorkloadInv
<1> QED
  BY <1>1, <1>2, <1>3, <1>4, <1>5, <1>6, <1>7, <1>8

\* The invariant holds before the gate, where there are no processes.
LEMMA InvInit == Init => WorkloadInv
  BY DEF Init, WorkloadInv, TypeOK, Started, Known, Decided, Recorded, Waiting, Gone,
         GroupAlive, SupAlive, Supervised

\* Steps that change nothing keep it.
LEMMA InvStutter == WorkloadInv /\ UNCHANGED vars => WorkloadInv'
  BY DEF vars, fixed, wrapper, signals, group, history, WorkloadInv, TypeOK, Started, Known, Decided,
         Recorded, Waiting, Gone, GroupAlive, SupAlive, Supervised

\* The invariant of every behaviour.
LEMMA InvHolds == Spec => []WorkloadInv
<1>1. WorkloadInv /\ [Next]_vars => WorkloadInv'
  <2> SUFFICES ASSUME WorkloadInv, [Next]_vars PROVE WorkloadInv'
    OBVIOUS
  <2>1. CASE Wrapper
    BY <2>1, InvWrapper
  <2>2. CASE Supervisor
    BY <2>2, InvSupervisor
  <2>3. CASE \/ WrapperDies \/ Cancel \/ DeadlinePasses \/ SupervisorDies \/ CommandEnds \/ Reap
             \/ \E k \in Child : Fork(k) \/ ChildEnds(k)
    BY <2>3, InvRest
  <2>4. CASE UNCHANGED vars
    BY <2>4, InvStutter
  <2>5. Over => UNCHANGED vars
    BY DEF Over
  <2> QED
    BY <2>1, <2>2, <2>3, <2>4, <2>5 DEF Next
<1> QED
  BY <1>1, InvInit, PTL DEF Spec

-----------------------------------------------------------------------------
\* Every variable of Workload keeps its type; the recorded status is one the
\* wrapper writes.
THEOREM WorkloadTypeCorrect == Spec => []TypeOK
<1>1. WorkloadInv => TypeOK
  BY DEF WorkloadInv
<1> QED
  BY <1>1, InvHolds, PTL

\* When the outcome of a transient execution or of a timed-out task is on
\* record, no process of its group is left (_terminate and supervisor.main),
\* however many descendants there are and whatever they ignore.
THEOREM NothingOutlivesOutcome == Spec => []RecordedMeansOver
<1>1. WorkloadInv => RecordedMeansOver
  BY DEF WorkloadInv, Recorded, Gone, RecordedMeansOver
<1> QED
  BY <1>1, InvHolds, PTL

\* The recorded status is what happened to the command, for every race of its
\* exit with a cancellation, the deadline and the supervisor's death.
THEOREM OutcomeIsTrue == Spec => []OutcomeTruthful
<1>1. WorkloadInv => OutcomeTruthful
  BY DEF WorkloadInv, Known, Recorded, OutcomeTruthful
<1> QED
  BY <1>1, InvHolds, PTL

-----------------------------------------------------------------------------
(* The refinement.                                                         *)

\* Only the start of the workload makes a process of it appear: descendants
\* need one that is alive, and so does the supervisor's command.
Launch ==
    /\ pc = "popen" /\ pc' \in {"wait", "top"} /\ UNCHANGED status
    /\ HasStarted' /\ Running'

\* Every other step starts nothing, and brings nothing back.
LEMMA ProcessSteps ==
    ASSUME WorkloadInv, [Next]_vars
    PROVE  mode' = mode /\ (Launch \/ (UNCHANGED HasStarted /\ (Running' => Running)))
<1> USE DEF WorkloadInv, TypeOK, HasStarted, Running, GroupAlive, SupAlive, Supervised, fixed
<1>1. CASE Spawn
  <2>1. CASE Record("error")
    BY <1>1, <2>1 DEF Spawn, Record
  <2>2. CASE ~Record("error")
    BY <1>1, <2>2 DEF Spawn, Launch
  <2> QED
    BY <2>1, <2>2
<1>2. CASE UNCHANGED <<mode, sup, cmd, kids>>
  BY <1>2
<1>3. Gate \/ Top \/ WaitReturns \/ WaitExpires \/ Poll \/ Close \/ WrapperDies \/ Cancel
      \/ DeadlinePasses \/ SupReport \/ Reap \/ Over \/ UNCHANGED vars
        => UNCHANGED <<mode, sup, cmd, kids>>
  BY DEF Gate, Top, WaitReturns, WaitExpires, Poll, Close, WrapperDies, Cancel, DeadlinePasses,
         SupReport, Reap, Over, vars, group
<1>4. CASE Term \/ SupInstall \/ SupervisorDies
  BY <1>4 DEF Term, TermSupervisor, SupInstall, SupervisorDies
<1>5. ASSUME KillGroup, mode' = mode PROVE UNCHANGED HasStarted /\ (Running' => Running)
  BY <1>5 DEF KillGroup
<1>6. CASE Kill \/ Cleanup \/ SupBreak
  BY <1>5, <1>6 DEF Kill, Cleanup, SupBreak
<1>7. CASE SupStart
  <2>1. ~(mode = "plain") /\ sup = "deaf" /\ mode' = mode
    BY <1>7 DEF SupStart, Started
  <2> QED
    BY <1>5, <1>7, <2>1 DEF SupStart
<1>8. CASE CommandEnds
  BY <1>8 DEF CommandEnds
<1>9. ASSUME NEW k \in Child, Fork(k) \/ ChildEnds(k)
      PROVE  mode' = mode /\ UNCHANGED HasStarted /\ (Running' => Running)
  BY <1>9 DEF Fork, ChildEnds
<1> QED
  BY <1>1, <1>2, <1>3, <1>4, <1>6, <1>7, <1>8, <1>9 DEF Next, Wrapper, Supervisor

\* A status is recorded once, by a wrapper that has not got past Popen or has
\* closed the workload, and no process changes in that step.
LEMMA StatusSteps ==
    ASSUME WorkloadInv, [Next]_vars, status' # status
    PROVE  /\ UNCHANGED <<mode, sup, cmd, kids>> /\ status = "running"
           /\ \/ pc \in {"gate", "popen"} /\ status' \in {"cancelled", "error"}
              \/ pc = "close" /\ status' \in {"ok", "failed", "timeout", "cancelled"}
<1>1. Gate \/ Spawn \/ Close
  BY DEF Next, Wrapper, Supervisor, Top, WaitReturns, WaitExpires, Poll, Term, Kill, Cleanup,
         WrapperDies, Cancel, DeadlinePasses, SupInstall, SupStart, SupReport, SupBreak,
         SupervisorDies, CommandEnds, Fork, ChildEnds, Reap, Over, vars, wrapper
<1>2. status = "running"
  BY <1>1 DEF WorkloadInv, Recorded, Gate, Spawn, Close
<1> QED
  BY <1>1, <1>2 DEF WorkloadInv, TypeOK, Gate, Spawn, Close, Record, fixed, group

\* Past Popen there has been a start, and when an installed task is closed its
\* command has ended.
ShotInv ==
    /\ pc \notin {"gate", "popen", "done", "dead"} => HasStarted
    /\ mode = "plain" /\ pc = "close" => cmd # "alive"

\* Every step keeps that.
LEMMA ShotInvNext == ASSUME WorkloadInv, ShotInv, [Next]_vars PROVE ShotInv'
<1>1. pc' = pc \/ pc' \in {"done", "dead"} \/ Wrapper
  BY DEF Next, Supervisor, WrapperDies, Cancel, DeadlinePasses, SupInstall, SupStart, SupReport,
         SupBreak, SupervisorDies, CommandEnds, Fork, ChildEnds, Reap, Over, vars, wrapper
<1>2. (pc \notin {"gate", "popen", "done", "dead"} => HasStarted)'
  <2>1. Wrapper => pc \notin {"gate", "popen", "done", "dead"} \/ Gate \/ Spawn
    BY DEF Wrapper, Top, WaitReturns, WaitExpires, Poll, Term, Kill, Cleanup, Close
  <2>2. Gate => pc' \in {"popen", "done"}
    BY DEF Gate, Record
  <2>3. Spawn => pc' = "done" \/ Launch
    <3> SUFFICES ASSUME Spawn, pc' # "done" PROVE HasStarted' /\ Running' /\ UNCHANGED status
                        /\ pc = "popen" /\ pc' \in {"wait", "top"}
      BY DEF Launch
    <3> QED
      BY DEF Spawn, Record, HasStarted, Running, GroupAlive, SupAlive, Supervised, fixed
  <2> QED
    BY <1>1, <2>1, <2>2, <2>3, ProcessSteps DEF ShotInv, Launch
<1>3. (mode = "plain" /\ pc = "close" => cmd # "alive")'
  <2> SUFFICES ASSUME mode' = "plain", pc' = "close" PROVE cmd' # "alive"
    OBVIOUS
  <2>1. mode = "plain"
    BY ProcessSteps
  <2>2. CASE Wrapper
    <3>1. WaitReturns \/ Poll \/ Kill \/ Cleanup
      BY <2>2 DEF Wrapper, Gate, Record, Spawn, Top, Stop, WaitExpires, Term, Close
    <3>2. CASE WaitReturns
      BY <2>1, <3>2 DEF WaitReturns, Ready, LeaderGone, Supervised, group
    <3>3. CASE Poll
      BY <2>1, <3>3 DEF Poll, LeaderGone, Supervised, group
    <3>4. CASE Kill \/ Cleanup
      BY <3>4 DEF Kill, Cleanup, KillGroup
    <3> QED
      BY <3>1, <3>2, <3>3, <3>4
  <2>3. CASE pc' = pc
    <3>1. cmd # "alive" /\ pc # "popen"
      BY <2>1, <2>3 DEF ShotInv
    <3>2. Running' => Running
      BY <3>1, ProcessSteps DEF Launch
    <3> QED
      BY <2>1, <3>1, <3>2 DEF Running
  <2> QED
    BY <1>1, <2>2, <2>3
<1> QED
  BY <1>2, <1>3 DEF ShotInv

\* Every step of the processes is a step of OneShot or changes nothing it
\* speaks of.
LEMMA WorkloadShotStep ==
    ASSUME WorkloadInv, ShotInv, [Next]_vars PROVE [Shot!Next]_(Shot!shot)
<1>t. /\ HasStarted \in BOOLEAN /\ HasStarted' \in BOOLEAN
      /\ Running \in BOOLEAN /\ Running' \in BOOLEAN
  BY DEF HasStarted, Running, GroupAlive
<1>1. CASE status' # status
  <2>1. UNCHANGED <<HasStarted, Running>> /\ MappedStatus = "none" /\ MappedStatus' = status'
    BY <1>1, StatusSteps DEF HasStarted, Running, GroupAlive, SupAlive, MappedStatus
  <2>2. ~Running
    <3>1. CASE pc = "close"
      BY <3>1 DEF WorkloadInv, Decided, Gone, ShotInv, Running
    <3>2. CASE pc \in {"gate", "popen"}
      BY <3>2 DEF WorkloadInv, Started, Gone, Running
    <3> QED
      BY <1>1, <3>1, <3>2, StatusSteps
  <2>3. status' \in Shot!Outcome /\ Shot!Possible(status')
    <3>1. status' \in {"ok", "failed", "timeout"} => HasStarted
      BY <1>1, StatusSteps DEF ShotInv
    <3> QED
      BY <1>1, <3>1, StatusSteps
         DEF Shot!Outcome, Shot!Possible, Shot!Ran, Shot!NeverRan, Shot!Other
  <2>4. Shot!Settle
    BY <2>1, <2>2, <2>3 DEF Shot!Settle, MappedAlive
  <2> QED
    BY <2>4 DEF Shot!Next
<1>2. CASE status' = status /\ Launch
  <2>1. status = "running" /\ ~HasStarted /\ UNCHANGED MappedStatus /\ MappedStatus = "none"
    BY <1>2 DEF Launch, WorkloadInv, Recorded, Started, HasStarted, MappedStatus
  <2>2. MappedAlive' = "yes"
    BY <1>2 DEF Launch, MappedAlive
  <2>3. Shot!Start
    BY <1>2, <2>1, <2>2 DEF Launch, Shot!Start
  <2> QED
    BY <2>3 DEF Shot!Next
<1>3. CASE status' = status /\ UNCHANGED HasStarted /\ (Running' => Running)
  <2>1. UNCHANGED MappedStatus
    BY <1>3 DEF MappedStatus
  <2>2. CASE Running' = Running
    BY <1>3, <2>1, <2>2 DEF Shot!shot, MappedAlive
  <2>3. CASE Running' # Running
    <3>1. MappedAlive = "yes" /\ MappedAlive' = "no"
      BY <1>t, <1>3, <2>3 DEF MappedAlive
    <3>2. Shot!End
      BY <1>3, <2>1, <3>1 DEF Shot!End
    <3> QED
      BY <3>2 DEF Shot!Next
  <2> QED
    BY <2>2, <2>3
<1> QED
  BY <1>1, <1>2, <1>3, ProcessSteps

\* One exec_task is a OneShot: its processes start once and do not come back,
\* and the outcome is recorded once, when they are gone, and fits them.
THEOREM WorkloadRefinesOneShot == Spec => WorkloadIsOneShot
<1>1. Init => ShotInv /\ Shot!Init
  <2> SUFFICES ASSUME Init PROVE ShotInv /\ Shot!Init
    OBVIOUS
  <2>1. ~HasStarted /\ MappedAlive = "no" /\ MappedStatus = "none"
    BY DEF Init, HasStarted, MappedAlive, Running, GroupAlive, SupAlive, MappedStatus
  <2> QED
    BY <2>1 DEF Init, ShotInv, Shot!Init
<1>2. WorkloadInv /\ ShotInv /\ [Next]_vars => ShotInv' /\ [Shot!Next]_(Shot!shot)
  BY ShotInvNext, WorkloadShotStep
<1> QED
  BY <1>1, <1>2, InvHolds, PTL DEF Spec, WorkloadIsOneShot, Shot!Spec
=============================================================================
