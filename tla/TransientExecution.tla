------------------------- MODULE TransientExecution -------------------------
(***************************************************************************)
(* One transient execution (transient.py): its durable record, the state   *)
(* lock that serialises the record's transitions, the scheduler objects    *)
(* that carry it, and the processes that act on it:                        *)
(*                                                                         *)
(*   "submit"   `actl submit --transient'          transient.submit        *)
(*   "wrapper"  the process the scheduler starts   transient.execute       *)
(*   "finish"   systemd's ExecStopPost hook        transient.finish        *)
(*   c \in Ctl  an operator's shell: one reconcile, cancel or prune after  *)
(*              another                            reconcile, prune        *)
(*                                                                         *)
(* A `with locked(...)' block is two steps: Enter (flock and read) and     *)
(* Commit (write_json and unlock).  Everything between them works on the   *)
(* copy in buf[p], and the only state change that ignores the lock is      *)
(* prune's rmtree, so nothing finer can be observed.                       *)
(***************************************************************************)
EXTENDS Integers

CONSTANTS
    Backend,           \* "systemd" or "launchd"
    Delayed,           \* TRUE for --after and --at: the execution has a deadline
    Ctl,               \* the operator processes
    EarlyControl,      \* may operators find the ID in `list' while submit runs?
    LateRegistration,  \* may the scheduler act on a request after submit gave up?
    Commands,          \* the commands operators issue
    Faults             \* which of FaultKinds may happen

FaultKinds == {"submit", "wrapper", "hook", "manager"}

Owners == {"submit", "wrapper", "finish"}

ASSUME ConstantsAssumption ==
    /\ Backend \in {"systemd", "launchd"}
    /\ Delayed \in BOOLEAN
    /\ EarlyControl \in BOOLEAN
    /\ LateRegistration \in BOOLEAN
    /\ Commands \subseteq {"reconcile", "cancel", "prune"}
    /\ Faults \subseteq FaultKinds
    /\ Ctl \cap (Owners \cup {"free"}) = {}

Proc == Owners \cup Ctl

VARIABLES
    rec,       \* execution.json; Absent when the directory does not exist
    lock,      \* holder of the flock on state.lock, or "free"
    buf,       \* buf[p]: the copy of the record p works on, Absent without one
    pc,        \* pc[p]: where p is
    op,        \* op[c]: the command operator c is running, or "none"
    gone,      \* gone[c]: the scheduler queries of c's reconcile found nothing
    hist,      \* status of the newest run under history/, "none" without one
    plist,     \* does job.plist exist? (launchd)
    inflight,  \* a registration request the scheduler has not acted on
    timer,     \* triggers left in the transient timer; 0: no timer unit (systemd)
    svc,       \* the transient service or launchd job
    due,       \* has the wall clock passed trigger_at?
    term,      \* has the wrapper received SIGTERM? (its `cancelled' event)
    result,    \* outcome of exec_task, not yet in the record
    starts,    \* how many times the workload has been started
    alive      \* is a process of the workload left? (its supervisor counts)

store == <<rec, lock, buf>>
ctl   == <<op, gone>>
sched == <<inflight, timer, svc>>
run   == <<hist, term, result, starts, alive>>
vars  == <<store, pc, ctl, plist, sched, due, run>>

-----------------------------------------------------------------------------
(* The record.                                                             *)

Finished == {"ok", "failed", "timeout", "skipped", "error"}
TERMINAL == Finished \cup {"cancelled", "abandoned"}
Status   == TERMINAL \cup
            {"absent", "prepared", "scheduled", "submission-unknown", "running"}

Record == [status           : Status,
           acceptance       : {"pending", "accepted", "unknown"},
           cleanup          : {"pending", "delegated", "failed", "collected"},
           claimed          : BOOLEAN,
           cancel_requested : BOOLEAN]

Prepared == [status |-> "prepared", acceptance |-> "pending", cleanup |-> "pending",
             claimed |-> FALSE, cancel_requested |-> FALSE]

Absent == [Prepared EXCEPT !.status = "absent"]

Exists      == rec.status # "absent"
Terminal(d) == d.status \in TERMINAL

HistoryTerminal == hist \in TERMINAL

RecoverIgnoringHistory(d, cancel) ==
    IF Terminal(d) THEN d
    ELSE [d EXCEPT !.status = IF cancel THEN "cancelled" ELSE "abandoned"]
RecoverOverwriting(d, cancel) ==
    [d EXCEPT !.status = IF HistoryTerminal THEN hist
                         ELSE IF cancel THEN "cancelled" ELSE "abandoned"]
RecoverNothing(d, cancel) == d
RecoverUnchecked(d, cancel) ==
    IF Terminal(d) THEN d ELSE [d EXCEPT !.status = hist]

\* _recover_outcome: a recorded outcome is kept; otherwise the outcome in the
\* run history counts, and only without one is the execution written off.
Recover(d, cancel) ==
    IF Terminal(d) THEN d
    ELSE [d EXCEPT !.status = IF HistoryTerminal THEN hist
                              ELSE IF cancel THEN "cancelled" ELSE "abandoned"]

-----------------------------------------------------------------------------
(* The state lock.  pc[p] \in Locked and lock = p: p is inside a locked    *)
(* block; pc[p] \in Locked and lock # p: p is about to enter it.           *)

Locked == {"enter", "claim", "gate", "record", "raise", "delegate", "mark", "recover",
           "request", "rescue", "settle", "fail"}

Goto(p, l) == pc' = [pc EXCEPT ![p] = l]

\* flock and read.
Enter(p) ==
    /\ pc[p] \in Locked
    /\ Exists /\ lock = "free"
    /\ lock' = p
    /\ buf' = [buf EXCEPT ![p] = rec]
    /\ UNCHANGED <<rec, pc, ctl, plist, sched, due, run>>

Holding(p, l) == pc[p] = l /\ lock = p

\* write_json and unlock.  write_json recreates the directory it writes to,
\* so a commit whose directory was removed after Enter brings the record back.
Commit(p, d) ==
    /\ rec' = d
    /\ buf' = [buf EXCEPT ![p] = Absent]
    /\ lock' = "free"

\* A locked block that leaves everything but the record alone.
Section(p, l, d, to) ==
    /\ Holding(p, l)
    /\ Commit(p, d)
    /\ Goto(p, to)
    /\ UNCHANGED <<ctl, plist, sched, due, run>>

\* locked() raises when the directory is gone, and so does the locked block
\* of the handler that would record the error.
Missing(p) ==
    /\ pc[p] \in Locked /\ lock # p
    /\ ~Exists
    /\ Goto(p, IF p = "submit" THEN "over" ELSE "exit")
    /\ UNCHANGED <<store, ctl, plist, sched, due, run>>

\* The processes in S die: the kernel releases the lock they held.
Drop(S) ==
    /\ lock' = IF lock \in S THEN "free" ELSE lock
    /\ buf' = [p \in Proc |-> IF p \in S THEN Absent ELSE buf[p]]

Init ==
    /\ rec = Absent
    /\ lock = "free"
    /\ buf = [p \in Proc |-> Absent]
    /\ pc = [p \in Proc |-> CASE p = "submit" -> "prepare"
                              [] p \in {"wrapper", "finish"} -> "off"
                              [] OTHER -> "idle"]
    /\ op = [c \in Ctl |-> "none"] /\ gone = [c \in Ctl |-> FALSE]
    /\ plist = FALSE /\ inflight = FALSE /\ timer = 0 /\ svc = "none"
    /\ due = ~Delayed
    /\ hist = "none" /\ term = FALSE /\ result = "none" /\ starts = 0 /\ alive = FALSE

-----------------------------------------------------------------------------
(* submit: snapshot, plist, then the scheduler call with the lock held.    *)

SubmitPrepare ==
    /\ pc["submit"] = "prepare"
    /\ rec' = Prepared
    /\ Goto("submit", "plist")
    /\ UNCHANGED <<lock, buf, ctl, plist, sched, due, run>>

SubmitPlist ==
    /\ pc["submit"] = "plist"
    /\ plist' = (Backend = "launchd")
    /\ Goto("submit", "enter")
    /\ UNCHANGED <<store, ctl, sched, due, run>>

SubmitCall ==
    /\ Holding("submit", "enter")
    /\ inflight' = TRUE
    /\ Goto("submit", "call")
    /\ UNCHANGED <<store, ctl, plist, timer, svc, due, run>>

\* A confirmed call has registered; a failed or timed-out one may have, and
\* with LateRegistration still may.
SubmitReturn(ok) ==
    /\ Holding("submit", "call")
    /\ ok => ~inflight
    /\ inflight' = (inflight /\ LateRegistration)
    /\ Commit("submit",
              [buf["submit"] EXCEPT
                  !.acceptance = IF ok THEN "accepted" ELSE "unknown",
                  !.status = IF ok THEN "scheduled" ELSE "submission-unknown"])
    /\ Goto("submit", "over")
    /\ UNCHANGED <<ctl, plist, timer, svc, due, run>>

SubmitCrash ==
    /\ "submit" \in Faults
    /\ pc["submit"] \in {"plist", "enter", "call"}
    /\ Drop({"submit"})
    /\ inflight' = (inflight /\ LateRegistration)
    /\ Goto("submit", "over")
    /\ UNCHANGED <<rec, ctl, plist, timer, svc, due, run>>

Submit == \/ SubmitPrepare \/ SubmitPlist \/ SubmitCall
          \/ \E ok \in BOOLEAN : SubmitReturn(ok)

-----------------------------------------------------------------------------
(* The scheduler (external).  A systemd service is "idle" while only its   *)
(* timer keeps it loaded, "active" with a wrapper, "stopping" once asked   *)
(* to stop, and in "post" while ExecStopPost runs; a launchd job is "idle" *)
(* when it is loaded and its wrapper has exited.                           *)

Activate == svc' = "active" /\ Goto("wrapper", "claim") /\ term' = FALSE

\* systemd-run or launchctl bootstrap takes effect.  A delayed systemd
\* execution gets a timer with two triggers, --on-calendar and --on-active.
Register ==
    /\ inflight
    /\ inflight' = FALSE
    /\ IF Backend = "systemd" /\ Delayed
       THEN timer' = 2 /\ svc' = "idle" /\ UNCHANGED <<pc, term>>
       ELSE Activate /\ UNCHANGED timer
    /\ UNCHANGED <<store, ctl, plist, due, hist, result, starts, alive>>

\* A trigger starts the service, perhaps before the wall clock reaches due.
TimerFire ==
    /\ timer > 0 /\ svc = "idle"
    /\ timer' = timer - 1
    /\ Activate
    /\ UNCHANGED <<store, ctl, plist, inflight, due, hist, result, starts, alive>>

\* A trigger that elapses while the service runs starts nothing.
TimerElapse ==
    /\ timer > 0 /\ svc \in {"active", "stopping"}
    /\ timer' = timer - 1
    /\ UNCHANGED <<store, pc, ctl, plist, inflight, svc, due, run>>

\* systemd unloads an inactive service that no timer refers to.
Collect ==
    /\ Backend = "systemd" /\ svc = "idle" /\ timer = 0
    /\ svc' = "none"
    /\ UNCHANGED <<store, pc, ctl, plist, inflight, timer, due, run>>

DeadlinePasses ==
    /\ ~due
    /\ due' = TRUE
    /\ UNCHANGED <<store, pc, ctl, plist, sched, run>>

\* What is left of the workload when its wrapper dies.  systemd kills the
\* control group before it runs the hook (KillMode); on launchd the group has
\* a session of its own and only its supervisor can end it.
Orphans == alive /\ Backend = "launchd"

\* Logout or user-manager shutdown: every registration and its processes go.
ManagerExit ==
    /\ "manager" \in Faults
    /\ svc # "none"
    /\ timer' = 0 /\ svc' = "none"
    /\ pc' = [pc EXCEPT !["wrapper"] = "off", !["finish"] = "off"]
    /\ Drop({"wrapper", "finish"})
    /\ alive' = Orphans /\ term' = FALSE /\ result' = "none"
    /\ UNCHANGED <<rec, ctl, plist, inflight, due, hist, starts>>

Scheduler == Register \/ TimerFire \/ TimerElapse \/ Collect \/ DeadlinePasses

\* The wrapper's process is gone: systemd runs ExecStopPost, launchd keeps
\* the job loaded unless it was booted out.
WrapperGone ==
    /\ term' = FALSE /\ result' = "none"
    /\ IF Backend = "systemd"
       THEN /\ svc' = "post"
            /\ pc' = [pc EXCEPT !["wrapper"] = "off", !["finish"] = "recover"]
       ELSE /\ svc' = IF svc = "stopping" THEN "none" ELSE "idle"
            /\ Goto("wrapper", "off")

-----------------------------------------------------------------------------
(* execute: claim, wait for the deadline, pass the gate, run, record.      *)

W == buf["wrapper"]

MustNotStartUnclaimed(d) == Terminal(d) \/ d.cancel_requested

MustNotStart(d) == d.claimed \/ Terminal(d) \/ d.cancel_requested

\* `return 0' leaves the block normally, so the record is written back as read.
WClaim ==
    \/ MustNotStart(W) /\ Section("wrapper", "claim", W, "exit")
    \/ ~MustNotStart(W) /\ Section("wrapper", "claim", [W EXCEPT !.claimed = TRUE], "wait")

WaitSkipped == TRUE

\* The deadline loop ends at the deadline or when SIGTERM arrives.
WaitOver == due \/ term

WWait ==
    /\ pc["wrapper"] = "wait"
    /\ WaitOver
    /\ Goto("wrapper", "gate")
    /\ UNCHANGED <<store, ctl, plist, sched, due, run>>

AfterRun == IF Backend = "launchd" THEN "cleanup" ELSE "exit"

GateIgnoringCancel(d) == term

GateCancelled(d) == term \/ d.cancel_requested

WGate ==
    \/ GateCancelled(W) /\ Section("wrapper", "gate", [W EXCEPT !.status = "cancelled"], AfterRun)
    \/ ~GateCancelled(W) /\ Section("wrapper", "gate", [W EXCEPT !.status = "running"], "exec")

\* load_task, then exec_task creates the run directory and its meta.json.
WExec ==
    /\ pc["wrapper"] = "exec"
    /\ Exists
    /\ hist' = "running"
    /\ Goto("wrapper", "launch")
    /\ UNCHANGED <<store, ctl, plist, sched, due, term, result, starts, alive>>

\* An exception anywhere in the try statement of execute: an unreadable or
\* unwritable record (the block's write-back fails, the lock is released),
\* load_task, exec_task before the start, _terminate after its SIGKILL, the
\* summary, _finalize before or after the terminal meta.json, the last block.
WRaise ==
    /\ pc["wrapper"] \in {"claim", "gate", "exec", "launch", "running", "finalize", "record"}
    /\ Drop({"wrapper"})
    /\ result' = "none"
    /\ alive' = (alive /\ pc["wrapper"] # "running")
    /\ Goto("wrapper", "raise")
    /\ UNCHANGED <<rec, ctl, plist, sched, due, hist, term, starts>>

\* exec_task without a workload: a lock is busy, the task cannot be started,
\* or SIGTERM came first.
WNoStart ==
    /\ pc["wrapper"] = "launch"
    /\ result' \in {"skipped", "error"} \cup (IF term THEN {"cancelled"} ELSE {})
    /\ Goto("wrapper", "finalize")
    /\ UNCHANGED <<store, ctl, plist, sched, due, hist, term, starts, alive>>

WStart ==
    /\ pc["wrapper"] = "launch"
    /\ ~term
    /\ starts' = starts + 1
    /\ alive' = TRUE
    /\ Goto("wrapper", "running")
    /\ UNCHANGED <<store, ctl, plist, sched, due, hist, term, result>>

\* The workload ends by itself, at its timeout, or because of SIGTERM.
WEnd ==
    /\ pc["wrapper"] = "running"
    /\ result' \in {"ok", "failed", "timeout"} \cup (IF term THEN {"cancelled"} ELSE {})
    /\ alive' = FALSE
    /\ Goto("wrapper", "finalize")
    /\ UNCHANGED <<store, ctl, plist, sched, due, hist, term, starts>>

\* _finalize writes the terminal meta.json; what it does after that (last.json,
\* notifications) shows in the record only if it raises (WRaise at "record").
WFinalize ==
    /\ pc["wrapper"] = "finalize"
    /\ hist' = result
    /\ Goto("wrapper", "record")
    /\ UNCHANGED <<store, ctl, plist, sched, due, term, result, starts, alive>>

WRecord ==
    \/ Section("wrapper", "record", [W EXCEPT !.status = result], AfterRun)
    \/ Section("wrapper", "raise", [W EXCEPT !.status = "error"], AfterRun)

\* launchd only: unlink the plist, record the delegation, boot the job out.
WUnlink ==
    /\ pc["wrapper"] = "cleanup"
    /\ plist' = FALSE
    /\ Goto("wrapper", "delegate")
    /\ UNCHANGED <<store, ctl, sched, due, run>>

WBootout ==
    /\ pc["wrapper"] = "bootout"
    /\ \/ /\ svc' = "none" /\ term' = FALSE /\ result' = "none"
          /\ Goto("wrapper", "off")
       \/ /\ Goto("wrapper", "mark")
          /\ UNCHANGED <<svc, term, result>>
    /\ UNCHANGED <<store, ctl, plist, inflight, timer, due, hist, starts, alive>>

WCleanup ==
    \/ WUnlink
    \/ Section("wrapper", "delegate", [W EXCEPT !.cleanup = "delegated"], "bootout")
    \/ WBootout
    \/ Section("wrapper", "mark", [W EXCEPT !.cleanup = "failed"], "exit")

WExit ==
    /\ pc["wrapper"] = "exit"
    /\ WrapperGone
    /\ UNCHANGED <<store, ctl, plist, inflight, timer, due, hist, starts, alive>>

\* SIGKILL, a SIGTERM outside the handler's scope, the scheduler's stop
\* timeout, or an exception that execute does not catch.
WCrash ==
    /\ pc["wrapper"] # "off"
    /\ "wrapper" \in Faults \/ svc = "stopping"
    /\ WrapperGone
    /\ Drop({"wrapper"})
    /\ alive' = Orphans
    /\ UNCHANGED <<rec, ctl, plist, inflight, timer, due, hist, starts>>

\* The workload outlives its wrapper; its supervisor will find the pipe closed.
\* Until then it may even get to start the command (SupStart of Workload).
Doomed == Backend = "launchd" /\ alive /\ pc["wrapper"] # "running"

\* SupBreak of Workload: the supervisor kills its group and itself.
OrphanDies ==
    /\ Doomed
    /\ alive' = FALSE
    /\ UNCHANGED <<store, pc, ctl, plist, sched, due, hist, term, result, starts>>

Wrapper == \/ WClaim \/ WWait \/ WGate \/ WExec \/ WRaise \/ WNoStart \/ WStart
           \/ WEnd \/ WFinalize \/ WRecord \/ WCleanup \/ WExit

-----------------------------------------------------------------------------
(* finish: systemd's ExecStopPost hook.                                    *)

F == buf["finish"]

\* With --no-block the stop may still be queued when systemctl has returned.
FStopTimer(ok) ==
    /\ pc["finish"] = "stoptimer"
    /\ timer' \in IF ok THEN {0, timer} ELSE {timer}
    /\ Goto("finish", IF ok THEN "delegate" ELSE "mark")
    /\ UNCHANGED <<store, ctl, plist, inflight, svc, due, run>>

FExit ==
    /\ pc["finish"] = "exit"
    /\ Goto("finish", "off")
    /\ svc' = IF timer > 0 THEN "idle" ELSE "none"
    /\ UNCHANGED <<store, ctl, plist, inflight, timer, due, run>>

FCrash ==
    /\ "hook" \in Faults
    /\ pc["finish"] \notin {"off", "exit"}
    /\ Drop({"finish"})
    /\ Goto("finish", "exit")
    /\ UNCHANGED <<rec, ctl, plist, sched, due, run>>

Finish ==
    \/ Section("finish", "recover", Recover(F, F.cancel_requested), "stoptimer")
    \/ \E ok \in BOOLEAN : FStopTimer(ok)
    \/ Section("finish", "delegate", [F EXCEPT !.cleanup = "delegated"], "exit")
    \/ Section("finish", "mark", [F EXCEPT !.cleanup = "failed"], "exit")
    \/ FExit

-----------------------------------------------------------------------------
(* reconcile, cancel and prune.                                            *)

\* prune reconciles only the executions that discover reports as terminal.
CStart(c, o) ==
    /\ pc[c] \in {"idle", "done"}
    /\ EarlyControl \/ pc["submit"] = "over"
    /\ Exists
    /\ o = "prune" => Terminal(rec)
    /\ op' = [op EXCEPT ![c] = o]
    /\ buf' = [buf EXCEPT ![c] = rec]
    /\ Goto(c, IF o = "cancel" THEN "request" ELSE "check")
    /\ UNCHANGED <<rec, lock, gone, plist, sched, due, run>>

\* The command returns; "done" marks a cancel that raised no error.
Leave(c, to) ==
    /\ Goto(c, to)
    /\ op' = [op EXCEPT ![c] = "none"]
    /\ gone' = [gone EXCEPT ![c] = FALSE]

\* Line 391 rebinds data: the check that follows uses what was just written.
CRequest(c) ==
    /\ Holding(c, "request")
    /\ rec' = [buf[c] EXCEPT !.cancel_requested = TRUE]
    /\ buf' = [buf EXCEPT ![c] = rec']
    /\ lock' = "free"
    /\ Goto(c, "check")
    /\ UNCHANGED <<ctl, plist, sched, due, run>>

\* Line 403: a cancellation and a terminal record stop the scheduler objects.
Decide(c, d) == IF op[c] = "cancel" \/ Terminal(d) THEN "stoptimer" ELSE "looktimer"

Orphaned(d) == d.claimed /\ ~Terminal(d)

\* A claimed execution without a running service is recovered first.
CCheck(c) ==
    /\ pc[c] = "check"
    /\ \/ ~Orphaned(buf[c]) /\ Goto(c, Decide(c, buf[c]))
       \/ Orphaned(buf[c]) /\ svc \in {"none", "idle"} /\ Goto(c, "rescue")
       \/ Orphaned(buf[c]) /\ svc # "none" /\ Goto(c, Decide(c, buf[c]))
       \/ Orphaned(buf[c]) /\ Goto(c, "fail")
    /\ buf' = [buf EXCEPT ![c] = Absent]
    /\ UNCHANGED <<rec, lock, ctl, plist, sched, due, run>>

CRescue(c) == LET d == Recover(buf[c], buf[c].cancel_requested)
              IN  Section(c, "rescue", d, Decide(c, d))

TimerPresent == timer > 0

\* _stop of the timer: done, or it raises with or without having stopped it.
CStopTimer(c) ==
    /\ pc[c] = "stoptimer"
    /\ \/ ~TimerPresent /\ Goto(c, "stopservice") /\ UNCHANGED timer
       \/ TimerPresent /\ timer' = 0 /\ \E l \in {"stopservice", "fail"} : Goto(c, l)
       \/ Backend = "systemd" /\ Goto(c, "fail") /\ UNCHANGED timer
    /\ UNCHANGED <<store, ctl, plist, inflight, svc, due, run>>

ServicePresentNever == FALSE

ServicePresent == svc # "none"

\* _stop of the service.  Stopping an active one sends SIGTERM and waits in
\* "await"; bootout of an exited launchd job unloads it, systemctl stop of an
\* inactive service changes nothing.
CStopService(c) ==
    /\ pc[c] = "stopservice"
    /\ \/ ~ServicePresent /\ Goto(c, "looktimer") /\ UNCHANGED <<svc, term>>
       \/ svc \in {"active", "stopping"} /\ svc' = "stopping" /\ term' = TRUE /\ Goto(c, "await")
       \/ svc = "post" /\ Goto(c, "await") /\ UNCHANGED <<svc, term>>
       \/ /\ svc = "idle"
          /\ svc' = IF Backend = "launchd" THEN "none" ELSE "idle"
          /\ Goto(c, "looktimer")
          /\ UNCHANGED term
       \/ Goto(c, "fail") /\ UNCHANGED <<svc, term>>
    /\ UNCHANGED <<store, ctl, plist, inflight, timer, due, hist, result, starts, alive>>

\* The stop command returns once the service is down, or times out.
CAwait(c) ==
    /\ pc[c] = "await"
    /\ \/ svc \in {"none", "idle"} /\ Goto(c, "looktimer")
       \/ Goto(c, "fail")
    /\ UNCHANGED <<store, ctl, plist, sched, due, run>>

\* _presence of the timer, then of the service; either query may raise.
CLook(c) ==
    /\ \/ pc[c] = "looktimer" /\ gone' = [gone EXCEPT ![c] = ~TimerPresent] /\ Goto(c, "lookservice")
       \/ /\ pc[c] = "lookservice"
          /\ gone' = [gone EXCEPT ![c] = gone[c] /\ ~ServicePresent]
          /\ Goto(c, "settle")
       \/ /\ pc[c] = "lookservice" \/ (pc[c] = "looktimer" /\ Backend = "systemd")
          /\ Goto(c, "fail")
          /\ UNCHANGED gone
    /\ UNCHANGED <<store, op, plist, sched, due, run>>

\* The last block of reconcile, on a fresh copy of the record.
Settled(c) ==
    IF gone[c]
    THEN [Recover(buf[c], op[c] = "cancel") EXCEPT !.cleanup = "collected"]
    ELSE IF op[c] = "cancel" \/ Terminal(buf[c])
         THEN [buf[c] EXCEPT !.cleanup = "pending"]
         ELSE buf[c]

CSettle(c) ==
    /\ Holding(c, "settle")
    /\ Commit(c, Settled(c))
    /\ plist' = (plist /\ ~gone[c])
    /\ Leave(c, CASE op[c] = "prune" -> "candidates"
                  [] op[c] = "cancel" -> "done"
                  [] OTHER -> "idle")
    /\ UNCHANGED <<sched, due, run>>

CFail(c) ==
    /\ Holding(c, "fail")
    /\ Commit(c, [buf[c] EXCEPT !.cleanup = "failed"])
    /\ Leave(c, "idle")
    /\ UNCHANGED <<plist, sched, due, run>>

CMissing(c) ==
    /\ pc[c] \in Locked /\ lock # c
    /\ ~Exists
    /\ buf' = [buf EXCEPT ![c] = Absent]
    /\ Leave(c, "idle")
    /\ UNCHANGED <<rec, lock, plist, sched, due, run>>

EligibleUncollected == Terminal(rec)

\* prune_candidates with --transient-older-than 0s.
Eligible == Terminal(rec) /\ rec.cleanup = "collected"

CCandidates(c) ==
    /\ pc[c] = "candidates"
    /\ Goto(c, IF Eligible THEN "remove" ELSE "idle")
    /\ UNCHANGED <<store, ctl, plist, sched, due, run>>

\* rmtree takes no lock; without a directory it raises.
CRemove(c) ==
    /\ pc[c] = "remove"
    /\ rec' = Absent
    /\ hist' = (IF Exists THEN "none" ELSE hist)
    /\ plist' = FALSE
    /\ Goto(c, "idle")
    /\ UNCHANGED <<lock, buf, ctl, sched, due, term, result, starts, alive>>

Control(c) ==
    \/ CRequest(c) \/ CCheck(c) \/ CRescue(c) \/ CStopTimer(c) \/ CStopService(c)
    \/ CAwait(c) \/ CLook(c) \/ CSettle(c) \/ CFail(c) \/ CMissing(c)
    \/ CCandidates(c) \/ CRemove(c)

-----------------------------------------------------------------------------
Fault == SubmitCrash \/ WCrash \/ FCrash \/ ManagerExit

\* The execution has been pruned and nobody works on it any more.
Over ==
    /\ ~Exists /\ svc = "none" /\ ~inflight /\ pc["submit"] = "over"
    /\ \A c \in Ctl : pc[c] \in {"idle", "done"}
    /\ UNCHANGED vars

Next ==
    \/ \E p \in Proc : Enter(p)
    \/ \E p \in Owners : Missing(p)
    \/ Submit \/ Scheduler \/ Wrapper \/ Finish
    \/ \E c \in Ctl : \/ \E o \in Commands : CStart(c, o)
                      \/ Control(c)
    \/ OrphanDies \/ Fault
    \/ Over

Spec == Init /\ [][Next]_vars

\* Every process that is not killed goes on, the scheduler delivers, time
\* passes, the workload ends, and flock starves neither wrapper nor hook.
\* An orphan ends because its supervisor goes on.
\* Operators need not issue a command, but finish the ones they issue.
Fairness ==
    /\ WF_vars(Submit) /\ WF_vars(Scheduler) /\ WF_vars(TimerFire) /\ WF_vars(DeadlinePasses)
    /\ WF_vars(Wrapper) /\ WF_vars(Finish) /\ WF_vars(OrphanDies)
    /\ \A p \in Owners : SF_vars(Enter(p)) /\ WF_vars(Missing(p))
    /\ \A c \in Ctl : WF_vars(Control(c))

FairSpec == Spec /\ Fairness

-----------------------------------------------------------------------------
(* Properties.                                                             *)

Labels == Locked \cup
    {"prepare", "plist", "call", "over", "off", "wait", "exec", "launch", "running",
     "finalize", "cleanup", "bootout", "exit", "stoptimer", "idle", "check",
     "stopservice", "await", "looktimer", "lookservice", "candidates", "remove", "done"}

\* The values every variable ranges over.
TypeOK ==
    /\ rec \in Record
    /\ lock \in Proc \cup {"free"}
    /\ buf \in [Proc -> Record]
    /\ pc \in [Proc -> Labels]
    /\ op \in [Ctl -> {"none", "reconcile", "cancel", "prune"}]
    /\ gone \in [Ctl -> BOOLEAN]
    /\ hist \in TERMINAL \cup {"none", "running"}
    /\ result \in TERMINAL \cup {"none"}
    /\ timer \in 0..2
    /\ svc \in {"none", "idle", "active", "stopping", "post"}
    /\ starts \in Nat
    /\ plist \in BOOLEAN /\ inflight \in BOOLEAN /\ due \in BOOLEAN
    /\ term \in BOOLEAN /\ alive \in BOOLEAN

\* The workload is started at most once, whatever the scheduler delivers
\* twice and whoever crashes: the durable claim of execute.
AtMostOnce == starts <= 1

\* The workload is never started before trigger_at, even when a timer fires
\* early: the wall-clock loop of execute.
NeverEarly == starts > 0 => due

Running == (alive /\ ~Doomed) \/ pc["wrapper"] \in {"exec", "launch", "running"}

\* Once a terminal status is on record the workload neither runs nor is about
\* to: what reconcile and finish write off is really over.  On launchd all
\* that may be left is an orphan whose supervisor has lost its wrapper.
TerminalMeansOver == Terminal(rec) => ~Running

\* After a cancel that returned without an error the workload does not run,
\* and it does not start later, for as long as that operator does nothing else;
\* on launchd an orphan may still be dying.
CancelStops == \A c \in Ctl : pc[c] = "done" => ~Running

\* Once cancel_requested is on record the wrapper does not go on to run the
\* workload, even if nothing could be stopped: no request slips in between
\* what execute reads under the lock and what it writes.
CancelClosesGate ==
    [][rec.cancel_requested /\ pc["wrapper"] = "gate" => pc'["wrapper"] # "exec"]_vars

\* A record that says `collected' has nothing left in the scheduler and no plist.
CollectedMeansGone ==
    rec.cleanup = "collected" => timer = 0 /\ svc = "none" /\ ~plist

\* An outcome that reached the run history is the one on record once the
\* wrapper is gone, also when it died before writing it, unless the wrapper's
\* own handler recorded `error': it is never written off as abandoned or
\* cancelled and never turns into the outcome of something else.
OutcomeKept ==
    Terminal(rec) /\ HistoryTerminal /\ pc["wrapper"] = "off" => rec.status \in {hist, "error"}

\* prune removes nothing that the scheduler, a wrapper or a hook still holds.
PruneRemovesDead ==
    [][Exists /\ rec'.status = "absent" =>
          timer = 0 /\ svc = "none" /\ pc["wrapper"] = "off" /\ pc["finish"] = "off"]_vars

\* An accepted execution that nobody cancels reaches a terminal status, also
\* when its wrapper is killed: the ExecStopPost hook records the outcome.
AcceptedSettles ==
    rec.acceptance = "accepted" ~> Terminal(rec) \/ rec.cancel_requested \/ ~Exists
=============================================================================
