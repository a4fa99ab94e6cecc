------------------------------ MODULE Workload ------------------------------
(***************************************************************************)
(* The processes of one workload: _execute_workload, _wait_workload and    *)
(* _terminate of wrapper.py, and supervisor.main.                          *)
(*                                                                         *)
(*   "plain"        an installed task: no cancel event, no supervisor      *)
(*   "cancellable"  a transient execution on systemd: a cancel event       *)
(*   "supervised"   a transient execution on launchd: a cancel event, and  *)
(*                  a supervisor that leads the process group              *)
(*                                                                         *)
(* The group is the supervisor, the command and its descendants (Child).   *)
(* Descendants that leave the group are outside every promise made here.   *)
(* A process that was sent SIGKILL runs nothing any more and counts as     *)
(* dead, but the leader may take its time until wait() can collect it.     *)
(***************************************************************************)

CONSTANTS
    Modes,   \* the modes a behaviour may have
    Child,   \* descendants the command may fork
    Faults   \* whose death from outside may happen

ASSUME ConstantsAssumption ==
    /\ Modes \subseteq {"plain", "cancellable", "supervised"}
    /\ Faults \subseteq {"wrapper", "supervisor"}

VARIABLES
    mode,      \* how the workload is run
    timed,     \* does the task have a timeout?
    pc,        \* where the wrapper is
    why,       \* why it stops the workload: "none", "cancelled" or "timeout"
    cancel,    \* the cancel event, set by the wrapper's SIGTERM handler
    late,      \* has the timeout passed?
    code,      \* exit_code and workload_code
    status,    \* the recorded status
    sup,       \* the supervisor
    reported,  \* its variable `reported'
    pipe,      \* what is in the result pipe
    cmd,       \* the command: "unborn", "alive", or how it ended
    kids,      \* its descendants
    reap,      \* the leader after SIGKILL: "prompt", or once the five seconds
               \* of _terminate have expired, "pending" and then "late"
    killed     \* has the supervisor been killed from outside? (history)

wrapper == <<pc, why, code, status>>
signals == <<cancel, late>>
group   == <<sup, cmd, kids>>
history == <<reap, killed>>
fixed   == <<mode, timed>>
vars    == <<fixed, wrapper, signals, reported, pipe, group, history>>

Supervised == mode = "supervised"

SupAlive   == sup \in {"booting", "deaf", "watching"}
GroupAlive == SupAlive \/ cmd = "alive" \/ \E k \in Child : kids[k] = "alive"

\* process.poll(): Popen's child is the supervisor or the command itself.
LeaderGone == reap # "pending" /\ IF Supervised THEN ~SupAlive ELSE cmd # "alive"

ReturnCodeRaw == IF Supervised THEN "nonzero" ELSE cmd

\* A supervisor dies only of signals, so its return code is never 0.
ReturnCode == IF ~Supervised /\ cmd = "zero" THEN "zero" ELSE "nonzero"

Init ==
    /\ mode \in Modes /\ timed \in BOOLEAN
    /\ pc = "gate" /\ why = "none" /\ code = "none" /\ status = "running"
    /\ cancel = FALSE /\ late = FALSE
    /\ sup = "none" /\ reported = FALSE /\ pipe = "none"
    /\ cmd = "unborn" /\ kids = [k \in Child |-> "unborn"]
    /\ reap = "prompt" /\ killed = FALSE

-----------------------------------------------------------------------------
(* Signals to the group.                                                   *)

KillLeaderOnly ==
    /\ sup' = IF SupAlive THEN "dead" ELSE sup
    /\ cmd' = IF cmd = "alive" /\ ~Supervised THEN "killed" ELSE cmd
    /\ UNCHANGED kids

\* killpg(SIGKILL).
KillGroup ==
    /\ sup' = IF SupAlive THEN "dead" ELSE sup
    /\ cmd' = IF cmd = "alive" THEN "killed" ELSE cmd
    /\ kids' = [k \in Child |-> IF kids[k] = "alive" THEN "dead" ELSE kids[k]]

\* killpg(SIGTERM) ends a supervisor that has no handler yet.  A command or a
\* descendant may end or not, which it may do at any time anyway.
TermSupervisor == sup' = IF sup = "booting" THEN "dead" ELSE sup

-----------------------------------------------------------------------------
(* The wrapper.                                                            *)

Record(s) == status' = s /\ pc' = "done"

\* The cancel event is looked at once before the start.
Gate ==
    /\ pc = "gate"
    /\ IF cancel THEN Record("cancelled") ELSE pc' = "popen" /\ UNCHANGED status
    /\ UNCHANGED <<fixed, why, code, signals, reported, pipe, group, history>>

\* Popen, or the ConfigError that reports why it failed.
Spawn ==
    /\ pc = "popen"
    /\ \/ /\ pc' = IF mode = "plain" THEN "wait" ELSE "top"
          /\ IF Supervised THEN sup' = "booting" /\ UNCHANGED cmd
                           ELSE cmd' = "alive" /\ UNCHANGED sup
          /\ UNCHANGED status
       \/ Record("error") /\ UNCHANGED <<sup, cmd>>
    /\ UNCHANGED <<fixed, why, code, signals, reported, pipe, kids, history>>

Stop(reason) == why' = reason /\ pc' = "term"

\* One turn of the polling loop: the cancel event first, then the deadline.
Top ==
    /\ pc = "top"
    /\ IF cancel THEN Stop("cancelled")
       ELSE IF late THEN Stop("timeout")
       ELSE pc' = "wait" /\ UNCHANGED why
    /\ UNCHANGED <<fixed, code, status, signals, reported, pipe, group, history>>

AfterWorkloadAlways == "close"

\* Every transient execution ends in the second, unconditional _terminate.
AfterWorkload == IF mode = "plain" THEN "close" ELSE "cleanup"

\* Where _wait_workload returns to: the loop, or the grace period of _terminate.
AfterWait == IF why = "none" THEN AfterWorkload ELSE "kill"

Ready == IF Supervised THEN pipe # "none" ELSE LeaderGone

WaitReturns ==
    /\ pc = "wait"
    /\ Ready
    /\ code' = IF Supervised THEN pipe ELSE ReturnCode
    /\ pipe' = "none"
    /\ pc' = AfterWait
    /\ UNCHANGED <<fixed, why, status, signals, reported, group, history>>

\* 0.2 s, the whole timeout of an installed task, or the grace period is over.
WaitExpires ==
    /\ pc = "wait"
    /\ ~Ready
    /\ \/ why = "none" /\ mode = "plain" /\ late /\ Stop("timeout")
       \/ ~Supervised /\ why # "none" /\ pc' = "kill" /\ UNCHANGED why
       \/ ~Supervised /\ why = "none" /\ mode # "plain" /\ pc' = "top" /\ UNCHANGED why
       \/ Supervised /\ pc' = "poll" /\ UNCHANGED why
    /\ UNCHANGED <<fixed, code, status, signals, reported, pipe, group, history>>

PollForgotten ==
    /\ pc = "poll"
    /\ pc' = IF why = "none" THEN "top" ELSE "kill"
    /\ UNCHANGED <<fixed, why, code, status, signals, reported, pipe, group, history>>

PollOr0 ==
    /\ pc = "poll"
    /\ IF LeaderGone
       THEN code' = "zero" /\ pc' = AfterWait
       ELSE pc' = (IF why = "none" THEN "top" ELSE "kill") /\ UNCHANGED code
    /\ UNCHANGED <<fixed, why, status, signals, reported, pipe, group, history>>

\* Nothing in the result pipe: is the supervisor still there?
Poll ==
    /\ pc = "poll"
    /\ IF LeaderGone
       THEN code' = ReturnCode /\ pc' = AfterWait
       ELSE pc' = (IF why = "none" THEN "top" ELSE "kill") /\ UNCHANGED code
    /\ UNCHANGED <<fixed, why, status, signals, reported, pipe, group, history>>

\* _terminate: SIGTERM, a bounded wait, then SIGKILL in any case.
Term ==
    /\ pc = "term"
    /\ TermSupervisor
    /\ pc' = "wait"
    /\ UNCHANGED <<fixed, why, code, status, signals, reported, pipe, cmd, kids, history>>

\* The last wait of _terminate: the leader is collected, or its five seconds
\* expire, which they cannot if it had gone before the SIGKILL.
Collected == reap # "pending" /\ UNCHANGED reap
Expired   == ~LeaderGone /\ reap' = "pending"

\* The wait after SIGKILL expires.  In the cancelled branch of the loop the
\* handler of the task's own timeout catches that and terminates once more;
\* in that handler nothing does, and exec_task raises.
KillExpires ==
    /\ Expired
    /\ code' = "none"
    /\ IF why = "cancelled" THEN Stop("timeout") ELSE pc' = "raised" /\ UNCHANGED why

Kill ==
    /\ pc = "kill"
    /\ KillGroup
    /\ \/ /\ Collected
          /\ code' = IF code = "none" THEN ReturnCode ELSE code
          /\ pc' = AfterWorkload
          /\ UNCHANGED why
       \/ KillExpires
    /\ UNCHANGED <<fixed, status, signals, reported, pipe, killed>>

\* _terminate(completed=True) waits for nothing between the two signals.
Cleanup ==
    /\ pc = "cleanup"
    /\ KillGroup
    /\ \/ Collected /\ pc' = "close"
       \/ Expired /\ pc' = "raised"
    /\ UNCHANGED <<fixed, why, code, status, signals, reported, pipe, killed>>

\* Join the pumps, summarise, finalize.
Close ==
    /\ pc = "close"
    /\ Record(IF why # "none" THEN why ELSE IF code = "zero" THEN "ok" ELSE "failed")
    /\ UNCHANGED <<fixed, why, code, signals, reported, pipe, group, history>>

Wrapper == Gate \/ Spawn \/ Top \/ WaitReturns \/ WaitExpires \/ Poll \/ Term \/ Kill
           \/ Cleanup \/ Close

\* exec_task has recorded an outcome, has been killed, or has raised.
Ended == pc \in {"done", "dead", "raised"}

WrapperDies ==
    /\ "wrapper" \in Faults
    /\ ~Ended
    /\ pc' = "dead"
    /\ UNCHANGED <<fixed, why, code, status, signals, reported, pipe, group, history>>

\* SIGTERM reaches the wrapper; an installed task's wrapper has no handler.
Cancel ==
    /\ mode # "plain" /\ ~cancel /\ ~Ended
    /\ cancel' = TRUE
    /\ UNCHANGED <<fixed, wrapper, late, reported, pipe, group, history>>

DeadlinePasses ==
    /\ timed /\ ~late
    /\ pc \in {"top", "wait", "poll"} /\ why = "none"
    /\ late' = TRUE
    /\ UNCHANGED <<fixed, wrapper, cancel, reported, pipe, group, history>>

-----------------------------------------------------------------------------
(* The supervisor.                                                         *)

\* From here on SIGTERM is caught and ignored.
SupInstall ==
    /\ sup = "booting"
    /\ sup' = "deaf"
    /\ UNCHANGED <<fixed, wrapper, signals, reported, pipe, cmd, kids, history>>

\* Popen; if it raises, the finally clause kills the group.
SupStart ==
    /\ sup = "deaf"
    /\ \/ sup' = "watching" /\ cmd' = "alive" /\ UNCHANGED kids
       \/ KillGroup
    /\ UNCHANGED <<fixed, wrapper, signals, reported, pipe, history>>

HoldersInherited == {"wrapper", "supervisor"}

\* Who has the write end of the liveness pipe: pass_fds leaves it out.
Holders == {"wrapper"}

Eof == /\ "wrapper" \in Holders => Ended
       /\ "supervisor" \in Holders => ~SupAlive

SupReport ==
    /\ sup = "watching" /\ ~reported
    /\ cmd \notin {"unborn", "alive"}
    /\ pipe' = IF cmd = "zero" THEN "zero" ELSE "nonzero"
    /\ reported' = TRUE
    /\ UNCHANGED <<fixed, wrapper, signals, group, history>>

SupBreak ==
    /\ sup = "watching"
    /\ Eof
    /\ KillGroup
    /\ UNCHANGED <<fixed, wrapper, signals, reported, pipe, history>>

Supervisor == SupInstall \/ SupStart \/ SupReport \/ SupBreak

SupervisorDies ==
    /\ "supervisor" \in Faults
    /\ SupAlive
    /\ sup' = "dead" /\ killed' = TRUE
    /\ UNCHANGED <<fixed, wrapper, signals, reported, pipe, cmd, kids, reap>>

-----------------------------------------------------------------------------
(* The command and its descendants do as they like.                        *)

CommandEnds ==
    /\ cmd = "alive"
    /\ cmd' \in {"zero", "nonzero"}
    /\ UNCHANGED <<fixed, wrapper, signals, reported, pipe, sup, kids, history>>

Fork(k) ==
    /\ cmd = "alive" \/ \E j \in Child : kids[j] = "alive"
    /\ kids[k] = "unborn"
    /\ kids' = [kids EXCEPT ![k] = "alive"]
    /\ UNCHANGED <<fixed, wrapper, signals, reported, pipe, sup, cmd, history>>

ChildEnds(k) ==
    /\ kids[k] = "alive"
    /\ kids' = [kids EXCEPT ![k] = "dead"]
    /\ UNCHANGED <<fixed, wrapper, signals, reported, pipe, sup, cmd, history>>

\* The leader that was sent SIGKILL can be collected at last.
Reap ==
    /\ reap = "pending"
    /\ reap' = "late"
    /\ UNCHANGED <<fixed, wrapper, signals, reported, pipe, group, killed>>

Over == Ended /\ reap # "pending" /\ ~GroupAlive /\ UNCHANGED vars

Next ==
    \/ Wrapper \/ WrapperDies \/ Cancel \/ DeadlinePasses
    \/ Supervisor \/ SupervisorDies
    \/ CommandEnds \/ \E k \in Child : Fork(k) \/ ChildEnds(k)
    \/ Reap \/ Over

Spec == Init /\ [][Next]_vars

\* Wrapper and supervisor go on and time passes.  Nothing is assumed of the
\* command: it may ignore SIGTERM and run for ever, and so may its children.
FairSpec == Spec /\ WF_vars(Wrapper) /\ WF_vars(Supervisor) /\ WF_vars(DeadlinePasses)

-----------------------------------------------------------------------------
(* Properties.                                                             *)

\* The values every variable ranges over.
TypeOK ==
    /\ mode \in Modes
    /\ timed \in BOOLEAN /\ cancel \in BOOLEAN /\ late \in BOOLEAN
    /\ reported \in BOOLEAN /\ killed \in BOOLEAN
    /\ pc \in {"gate", "popen", "top", "wait", "poll", "term", "kill", "cleanup", "close",
               "done", "dead", "raised"}
    /\ why \in {"none", "cancelled", "timeout"}
    /\ code \in {"none", "zero", "nonzero"} /\ pipe \in {"none", "zero", "nonzero"}
    /\ status \in {"running", "ok", "failed", "timeout", "cancelled", "error"}
    /\ sup \in {"none", "booting", "deaf", "watching", "dead"}
    /\ cmd \in {"unborn", "alive", "zero", "nonzero", "killed"}
    /\ kids \in [Child -> {"unborn", "alive", "dead"}]
    /\ reap \in {"prompt", "pending", "late"}

\* When the outcome of a transient execution, or of a task that timed out, is
\* recorded, nothing of its process group is left, whatever ignored SIGTERM,
\* was forked late or had lost its supervisor: _terminate ends in SIGKILL.
RecordedMeansOver ==
    status # "running" /\ (mode # "plain" \/ status = "timeout") => ~GroupAlive

\* The recorded status is what happened: ok only if the command itself exited
\* 0; failed only if it exited otherwise or could not be started, unless the
\* supervisor was killed; timeout and cancelled only after the event, except
\* that a cancellation whose leader outlives SIGKILL by five seconds is
\* recorded as timeout: the wait of _terminate raises the exception by which
\* the loop reports the task's own timeout.
OutcomeTruthful ==
    /\ status = "ok" => cmd = "zero"
    /\ status = "failed" /\ ~killed => cmd \in {"nonzero", "unborn"}
    /\ status = "timeout" => late \/ (cancel /\ reap # "prompt")
    /\ status = "cancelled" => cancel

\* When the wrapper of a supervised workload dies, at any moment, the group
\* dies too: the supervisor sees the pipe close, even in the grace period.
OrphansDie == Supervised /\ pc = "dead" ~> ~GroupAlive \/ killed

\* A cancellation, a timeout or the loss of the supervisor ends the wait and
\* leads to the end of exec_task, even if the command never ends; exec_task
\* ends without an outcome only if a leader outlived SIGKILL by five seconds.
WaitEnds ==
    cancel \/ late \/ sup = "dead" ~>
        pc \in {"done", "dead"} \/ (pc = "raised" /\ reap # "prompt")
=============================================================================
