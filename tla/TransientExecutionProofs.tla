---------------------- MODULE TransientExecutionProofs ----------------------
(***************************************************************************)
(* Proofs about TransientExecution, for every backend, every set of        *)
(* operators, every combination of faults, and with early control and late *)
(* registration allowed or not: type correctness, one start at most and    *)
(* never early, a cancellation closes the gate, and a cancel that returned *)
(* without an error has stopped the workload for good. The facts of the    *)
(* last part about processes, scheduler objects and the copy of the lock   *)
(* holder are used by TransientRecordProofs as well.                       *)
(***************************************************************************)
EXTENDS TransientExecution, TLAPS

-----------------------------------------------------------------------------
(* Type correctness.                                                       *)

\* The constants of the record module are records of the declared type.
LEMMA ConstantRecords == Prepared \in Record /\ Absent \in Record
BY DEF Prepared, Absent, Record, Status, TERMINAL, Finished

\* Every update of one field that the code makes stays within Record, and
\* only the claim itself touches the claim.
LEMMA FieldUpdates ==
    ASSUME NEW d \in Record
    PROVE  /\ \A s \in Status : /\ [d EXCEPT !.status = s] \in Record
                                /\ [d EXCEPT !.status = s].claimed = d.claimed
           /\ \A u \in {"pending", "delegated", "failed", "collected"} :
                 /\ [d EXCEPT !.cleanup = u] \in Record
                 /\ [d EXCEPT !.cleanup = u].claimed = d.claimed
           /\ [d EXCEPT !.claimed = TRUE] \in Record /\ [d EXCEPT !.claimed = TRUE].claimed
           /\ [d EXCEPT !.cancel_requested = TRUE] \in Record
BY DEF Record

\* _recover_outcome yields a record and touches neither claim nor request.
LEMMA RecoverKeeps ==
    ASSUME TypeOK, NEW d \in Record, NEW cancel \in BOOLEAN
    PROVE  /\ Recover(d, cancel) \in Record
           /\ Recover(d, cancel).claimed = d.claimed
           /\ Recover(d, cancel).cancel_requested = d.cancel_requested
<1>1. CASE Terminal(d)
  BY <1>1 DEF Recover
<1>2. CASE ~Terminal(d)
  <2> DEFINE s == IF HistoryTerminal THEN hist ELSE IF cancel THEN "cancelled" ELSE "abandoned"
  <2>1. s \in Status
    BY DEF HistoryTerminal, Status, TERMINAL
  <2>2. Recover(d, cancel) = [d EXCEPT !.status = s]
    BY <1>2 DEF Recover
  <2> QED
    BY <2>1, <2>2, FieldUpdates DEF Record
<1> QED
  BY <1>1, <1>2

\* What a locked block needs for the types to be preserved.
LEMMA SectionTypes ==
    ASSUME TypeOK, NEW p \in Proc, NEW l, NEW d \in Record, NEW to \in Labels,
           Section(p, l, d, to)
    PROVE  TypeOK'
BY ConstantRecords DEF TypeOK, Section, Commit, Goto, ctl, sched, run

\* The dying processes' copies are replaced by Absent.
LEMMA DropTypes ==
    ASSUME TypeOK, NEW S, Drop(S)
    PROVE  lock' \in Proc \cup {"free"} /\ buf' \in [Proc -> Record]
BY ConstantRecords DEF TypeOK, Drop

\* The initial state is well typed.
LEMMA TypesInit == Init => TypeOK
<1> SUFFICES ASSUME Init PROVE TypeOK
  OBVIOUS
<1>1. pc \in [Proc -> Labels]
  BY DEF Init, Labels, Locked
<1>2. due \in BOOLEAN
  BY ConstantsAssumption DEF Init
<1>3. rec \in Record /\ buf \in [Proc -> Record] /\ lock \in Proc \cup {"free"}
  BY ConstantRecords DEF Init
<1>4. op \in [Ctl -> {"none", "reconcile", "cancel", "prune"}] /\ gone \in [Ctl -> BOOLEAN]
  BY DEF Init
<1>5. timer \in 0..2 /\ starts \in Nat
  BY DEF Init
<1>6. plist \in BOOLEAN /\ inflight \in BOOLEAN /\ term \in BOOLEAN /\ alive \in BOOLEAN
  BY Zenon DEF Init
<1>7. /\ hist \in TERMINAL \cup {"none", "running"} /\ result \in TERMINAL \cup {"none"}
      /\ svc \in {"none", "idle", "active", "stopping", "post"}
  BY DEF Init
<1> QED
  BY <1>1, <1>2, <1>3, <1>4, <1>5, <1>6, <1>7 DEF TypeOK

\* exec_task has returned an outcome when execute records it.
ResultReady == pc["wrapper"] \in {"finalize", "record"} => result \in TERMINAL

\* Every step keeps the types.
LEMMA TypesNext == TypeOK /\ ResultReady /\ [Next]_vars => TypeOK'
<1> SUFFICES ASSUME TypeOK, ResultReady, [Next]_vars PROVE TypeOK'
  OBVIOUS
<1> USE DEF Goto, ctl, sched, run, store
<1>a. /\ Owners \subseteq Proc /\ Ctl \subseteq Proc
      /\ "submit" \in Proc /\ "wrapper" \in Proc /\ "finish" \in Proc
  BY DEF Proc, Owners
<1>1. ASSUME NEW p \in Proc, Enter(p) PROVE TypeOK'
  BY <1>1 DEF TypeOK, Enter
<1>2. ASSUME NEW p \in Owners, Missing(p) PROVE TypeOK'
  BY <1>2, <1>a DEF TypeOK, Missing, Labels, Locked
<1>3. CASE Submit
  <2>1. CASE SubmitPrepare
    BY <2>1, <1>a, ConstantRecords DEF TypeOK, SubmitPrepare, Labels
  <2>2. CASE SubmitPlist
    BY <2>2, <1>a DEF TypeOK, SubmitPlist, Labels, Locked
  <2>3. CASE SubmitCall
    BY <2>3, <1>a DEF TypeOK, SubmitCall, Labels
  <2>4. ASSUME NEW ok \in BOOLEAN, SubmitReturn(ok) PROVE TypeOK'
    <3> DEFINE d == [buf["submit"] EXCEPT
                       !.acceptance = IF ok THEN "accepted" ELSE "unknown",
                       !.status = IF ok THEN "scheduled" ELSE "submission-unknown"]
    <3>1. d \in Record
      BY <1>a DEF TypeOK, Record, Status
    <3>2. inflight' \in BOOLEAN
      BY <2>4, ConstantsAssumption, Zenon DEF TypeOK, SubmitReturn
    <3>3. rec' = d /\ buf' = [buf EXCEPT !["submit"] = Absent] /\ lock' = "free"
      BY <2>4 DEF SubmitReturn, Commit
    <3> HIDE DEF d
    <3> QED
      BY <2>4, <3>1, <3>2, <3>3, <1>a, ConstantRecords DEF TypeOK, SubmitReturn, Labels
  <2> QED
    BY <1>3, <2>1, <2>2, <2>3, <2>4 DEF Submit
<1>4. CASE Scheduler
  <2>1. CASE Register
    <3>1. inflight' \in BOOLEAN /\ term' \in BOOLEAN
      BY <2>1, Zenon DEF TypeOK, Register, Activate
    <3>2. pc' \in [Proc -> Labels]
      BY <2>1, <1>a DEF TypeOK, Register, Activate, Labels, Locked
    <3>3. timer' \in 0..2 /\ svc' \in {"none", "idle", "active", "stopping", "post"}
      BY <2>1 DEF TypeOK, Register, Activate
    <3>4. UNCHANGED <<store, ctl, plist, due, hist, result, starts, alive>>
      BY <2>1 DEF Register
    <3> QED
      BY <3>1, <3>2, <3>3, <3>4 DEF TypeOK
  <2>2. CASE TimerFire
    <3>1. term' \in BOOLEAN
      BY <2>2, Zenon DEF TimerFire, Activate
    <3>2. pc' \in [Proc -> Labels]
      BY <2>2, <1>a DEF TypeOK, TimerFire, Activate, Labels, Locked
    <3>3. timer' \in 0..2 /\ svc' \in {"none", "idle", "active", "stopping", "post"}
      BY <2>2 DEF TypeOK, TimerFire, Activate
    <3>4. UNCHANGED <<store, ctl, plist, inflight, due, hist, result, starts, alive>>
      BY <2>2 DEF TimerFire
    <3> QED
      BY <3>1, <3>2, <3>3, <3>4 DEF TypeOK
  <2>3. CASE TimerElapse
    BY <2>3 DEF TypeOK, TimerElapse
  <2>4. CASE Collect
    BY <2>4 DEF TypeOK, Collect
  <2>5. CASE DeadlinePasses
    BY <2>5 DEF TypeOK, DeadlinePasses
  <2> QED
    BY <1>4, <2>1, <2>2, <2>3, <2>4, <2>5 DEF Scheduler
<1>5. CASE Wrapper
  <2> DEFINE w == buf["wrapper"]
  <2>a. w \in Record /\ AfterRun \in Labels /\ {"exit", "wait", "exec", "bootout"} \subseteq Labels
    BY <1>a DEF TypeOK, AfterRun, Labels
  <2>b. /\ [w EXCEPT !.claimed = TRUE] \in Record
        /\ \A s \in Status : [w EXCEPT !.status = s] \in Record
        /\ [w EXCEPT !.cleanup = "delegated"] \in Record
        /\ [w EXCEPT !.cleanup = "failed"] \in Record
    BY <2>a, FieldUpdates
  <2>1. CASE WClaim
    BY <2>1, <2>a, <2>b, <1>a, SectionTypes DEF WClaim, W
  <2>2. CASE WWait
    BY <2>2, <1>a DEF TypeOK, WWait, Labels, Locked
  <2>3. CASE WGate
    BY <2>3, <2>a, <2>b, <1>a, SectionTypes DEF WGate, W, Status, TERMINAL
  <2>4. CASE WExec
    BY <2>4, <1>a DEF TypeOK, WExec, Labels
  <2>5. CASE WRaise
    <3>1. alive' \in BOOLEAN
      BY <2>5, Zenon DEF TypeOK, WRaise
    <3>2. pc' \in [Proc -> Labels] /\ result' = "none"
      BY <2>5, <1>a DEF TypeOK, WRaise, Labels, Locked
    <3>3. lock' \in Proc \cup {"free"} /\ buf' \in [Proc -> Record]
      BY <2>5, DropTypes DEF WRaise
    <3>4. UNCHANGED <<rec, ctl, plist, sched, due, hist, term, starts>>
      BY <2>5 DEF WRaise
    <3> QED
      BY <3>1, <3>2, <3>3, <3>4 DEF TypeOK
  <2>6. CASE WNoStart
    BY <2>6, <1>a DEF TypeOK, WNoStart, Labels, TERMINAL, Finished
  <2>7. CASE WStart
    BY <2>7, <1>a DEF TypeOK, WStart, Labels
  <2>8. CASE WEnd
    <3>1. alive' \in BOOLEAN
      BY <2>8, Zenon DEF WEnd
    <3>2. result' \in TERMINAL
      BY <2>8 DEF WEnd, TERMINAL, Finished
    <3>3. pc' \in [Proc -> Labels]
      BY <2>8, <1>a DEF TypeOK, WEnd, Labels
    <3>4. UNCHANGED <<store, ctl, plist, sched, due, hist, term, starts>>
      BY <2>8 DEF WEnd
    <3> QED
      BY <3>1, <3>2, <3>3, <3>4 DEF TypeOK
  <2>9. CASE WFinalize
    BY <2>9, <1>a DEF TypeOK, WFinalize, Labels, Locked
  <2>10. CASE WRecord
    <3>1. ASSUME Section("wrapper", "record", [w EXCEPT !.status = result], AfterRun)
          PROVE  TypeOK'
      <4>1. result \in Status
        BY <3>1 DEF Section, Holding, ResultReady, Status
      <4> QED
        BY <3>1, <4>1, <2>a, <2>b, <1>a, SectionTypes
    <3>2. ASSUME Section("wrapper", "raise", [w EXCEPT !.status = "error"], AfterRun)
          PROVE  TypeOK'
      BY <3>2, <2>a, <2>b, <1>a, SectionTypes DEF Status, TERMINAL, Finished
    <3> QED
      BY <2>10, <3>1, <3>2 DEF WRecord, W
  <2>11. CASE WCleanup
    <3>1. CASE WUnlink
      BY <3>1, <1>a DEF TypeOK, WUnlink, Labels, Locked
    <3>2. CASE WBootout
      <4>1. term' \in BOOLEAN
        BY <3>2, Zenon DEF TypeOK, WBootout
      <4>2. pc' \in [Proc -> Labels]
        BY <3>2, <1>a DEF TypeOK, WBootout, Labels, Locked
      <4>3. /\ svc' \in {"none", "idle", "active", "stopping", "post"}
            /\ result' \in TERMINAL \cup {"none"}
        BY <3>2 DEF TypeOK, WBootout
      <4>4. UNCHANGED <<store, ctl, plist, inflight, timer, due, hist, starts, alive>>
        BY <3>2 DEF WBootout
      <4> QED
        BY <4>1, <4>2, <4>3, <4>4 DEF TypeOK
    <3> QED
      BY <2>11, <3>1, <3>2, <2>a, <2>b, <1>a, SectionTypes DEF WCleanup, W
  <2>12. CASE WExit
    BY <2>12, <1>a DEF TypeOK, WExit, WrapperGone, Labels, Locked
  <2> QED
    BY <1>5, <2>1, <2>2, <2>3, <2>4, <2>5, <2>6, <2>7, <2>8, <2>9, <2>10, <2>11, <2>12
    DEF Wrapper
<1>6. CASE Finish
  <2> DEFINE f == buf["finish"]
  <2>a. f \in Record /\ f.cancel_requested \in BOOLEAN /\ {"exit", "stoptimer"} \subseteq Labels
    BY <1>a DEF TypeOK, Labels, Record
  <2>b. /\ Recover(f, f.cancel_requested) \in Record
        /\ [f EXCEPT !.cleanup = "delegated"] \in Record
        /\ [f EXCEPT !.cleanup = "failed"] \in Record
    BY <2>a, FieldUpdates, RecoverKeeps
  <2>1. ASSUME NEW ok \in BOOLEAN, FStopTimer(ok) PROVE TypeOK'
    BY <2>1, <1>a DEF TypeOK, FStopTimer, Labels, Locked
  <2>2. CASE FExit
    BY <2>2, <1>a DEF TypeOK, FExit, Labels
  <2> QED
    BY <1>6, <2>1, <2>2, <2>a, <2>b, <1>a, SectionTypes DEF Finish, F
<1>7. ASSUME NEW c \in Ctl, NEW o \in Commands, CStart(c, o)
      PROVE  TypeOK'
  BY <1>7, <1>a, ConstantsAssumption DEF TypeOK, CStart, Labels, Locked
<1>8. ASSUME NEW c \in Ctl, Control(c) PROVE TypeOK'
  <2>a. c \in Proc /\ buf[c] \in Record /\ buf[c].cancel_requested \in BOOLEAN
    BY <1>a DEF TypeOK, Record
  <2>b. \A d : Decide(c, d) \in Labels
    BY DEF Decide, Labels
  <2>1. CASE CRequest(c)
    BY <2>1, <2>a, FieldUpdates DEF TypeOK, CRequest, Labels
  <2>2. CASE CCheck(c)
    BY <2>2, <2>a, <2>b, ConstantRecords DEF TypeOK, CCheck, Labels, Locked
  <2>3. CASE CRescue(c)
    BY <2>3, <2>a, <2>b, RecoverKeeps, SectionTypes DEF CRescue
  <2>4. CASE CStopTimer(c)
    BY <2>4, <2>a DEF TypeOK, CStopTimer, Labels, Locked
  <2>5. CASE CStopService(c)
    <3>1. term' \in BOOLEAN
      BY <2>5, Zenon DEF TypeOK, CStopService
    <3>2. pc' \in [Proc -> Labels]
      BY <2>5, <2>a DEF TypeOK, CStopService, Labels, Locked
    <3>3. svc' \in {"none", "idle", "active", "stopping", "post"}
      BY <2>5 DEF TypeOK, CStopService
    <3>4. UNCHANGED <<store, ctl, plist, inflight, timer, due, hist, result, starts, alive>>
      BY <2>5 DEF CStopService
    <3> QED
      BY <3>1, <3>2, <3>3, <3>4 DEF TypeOK
  <2>6. CASE CAwait(c)
    BY <2>6, <2>a DEF TypeOK, CAwait, Labels, Locked
  <2>7. CASE CLook(c)
    <3>1. gone' \in [Ctl -> BOOLEAN]
      BY <2>7 DEF TypeOK, CLook, TimerPresent, ServicePresent
    <3>2. pc' \in [Proc -> Labels]
      BY <2>7, <2>a DEF TypeOK, CLook, Labels, Locked
    <3>3. UNCHANGED <<store, op, plist, sched, due, run>>
      BY <2>7 DEF CLook
    <3> QED
      BY <3>1, <3>2, <3>3 DEF TypeOK
  <2>8. CASE CSettle(c)
    <3>1. Settled(c) \in Record
      BY <2>a, RecoverKeeps, FieldUpdates DEF Settled
    <3>2. plist' \in BOOLEAN
      BY <2>8 DEF CSettle, TypeOK
    <3> QED
      BY <2>8, <3>1, <3>2, <2>a, ConstantRecords DEF TypeOK, CSettle, Commit, Leave, Labels
  <2>9. CASE CFail(c)
    BY <2>9, <2>a, FieldUpdates, ConstantRecords DEF TypeOK, CFail, Commit, Leave, Labels
  <2>10. CASE CMissing(c)
    BY <2>10, <2>a, ConstantRecords DEF TypeOK, CMissing, Leave, Labels
  <2>11. CASE CCandidates(c)
    BY <2>11, <2>a DEF TypeOK, CCandidates, Labels
  <2>12. CASE CRemove(c)
    BY <2>12, <2>a, ConstantRecords DEF TypeOK, CRemove, Labels
  <2> QED
    BY <1>8, <2>1, <2>2, <2>3, <2>4, <2>5, <2>6, <2>7, <2>8, <2>9, <2>10, <2>11, <2>12
    DEF Control
<1>9. CASE Fault
  <2>1. CASE SubmitCrash
    <3>1. inflight' \in BOOLEAN
      BY <2>1, ConstantsAssumption, Zenon DEF TypeOK, SubmitCrash
    <3> QED
      BY <2>1, <3>1, <1>a, DropTypes DEF TypeOK, SubmitCrash, Labels
  <2>2. CASE WCrash
    <3>1. alive' \in BOOLEAN
      BY <2>2, Zenon DEF TypeOK, WCrash, Orphans
    <3> QED
      BY <2>2, <3>1, <1>a, DropTypes DEF TypeOK, WCrash, WrapperGone, Labels, Locked
  <2>3. CASE FCrash
    BY <2>3, <1>a, DropTypes DEF TypeOK, FCrash, Labels
  <2>4. CASE ManagerExit
    <3>1. term' \in BOOLEAN /\ alive' \in BOOLEAN
      BY <2>4, Zenon DEF TypeOK, ManagerExit, Orphans
    <3>2. pc' \in [Proc -> Labels]
      BY <2>4, <1>a DEF TypeOK, ManagerExit, Labels
    <3>3. timer' = 0 /\ svc' = "none" /\ result' = "none"
      BY <2>4 DEF ManagerExit
    <3>4. UNCHANGED <<rec, ctl, plist, inflight, due, hist, starts>>
      BY <2>4 DEF ManagerExit
    <3>5. lock' \in Proc \cup {"free"} /\ buf' \in [Proc -> Record]
      BY <2>4, DropTypes DEF ManagerExit
    <3> QED
      BY <3>1, <3>2, <3>3, <3>4, <3>5 DEF TypeOK
  <2> QED
    BY <1>9, <2>1, <2>2, <2>3, <2>4 DEF Fault
<1>10. CASE UNCHANGED vars
  BY <1>10 DEF TypeOK, vars
<1>11. CASE OrphanDies
  <2>1. alive' \in BOOLEAN
    BY <1>11, Zenon DEF OrphanDies
  <2> QED
    BY <1>11, <2>1 DEF TypeOK, OrphanDies
<1> QED
  BY <1>1, <1>2, <1>3, <1>4, <1>5, <1>6, <1>7, <1>8, <1>9, <1>10, <1>11 DEF Next, Over

\* Only the wrapper's own steps touch its outcome.
LEMMA ResultNext == TypeOK /\ ResultReady /\ [Next]_vars => ResultReady'
<1> SUFFICES ASSUME TypeOK, ResultReady, [Next]_vars PROVE ResultReady'
  OBVIOUS
<1> USE DEF Goto, ctl, sched, run, store, ResultReady
<1>a. "wrapper" \notin Ctl /\ "wrapper" \in Proc /\ "finish" \in Proc
  BY ConstantsAssumption DEF Owners, Proc
<1>1. ASSUME NEW p \in Proc, Enter(p) PROVE ResultReady'
  BY <1>1 DEF Enter
<1>2. ASSUME NEW p \in Owners, Missing(p) PROVE ResultReady'
  BY <1>2, <1>a DEF Missing, TypeOK, Owners
<1>3. CASE Submit
  BY <1>3, <1>a DEF Submit, SubmitPrepare, SubmitPlist, SubmitCall, SubmitReturn, TypeOK
<1>4. CASE Scheduler
  BY <1>4, <1>a DEF Scheduler, Register, TimerFire, TimerElapse, Collect, DeadlinePasses,
                    Activate, TypeOK
<1>5. CASE Wrapper
  <2> USE DEF TypeOK, AfterRun, Section
  <2>1. CASE WClaim \/ WWait \/ WGate
    BY <2>1, <1>a DEF WClaim, WWait, WGate
  <2>2. CASE WExec \/ WRaise \/ WStart
    BY <2>2, <1>a DEF WExec, WRaise, WStart
  <2>3. CASE WNoStart
    BY <2>3 DEF WNoStart, TERMINAL, Finished
  <2>4. CASE WEnd
    BY <2>4 DEF WEnd, TERMINAL, Finished
  <2>5. CASE WFinalize \/ WRecord
    BY <2>5, <1>a DEF WFinalize, WRecord
  <2>6. CASE WCleanup
    BY <2>6, <1>a DEF WCleanup, WUnlink, WBootout
  <2>7. CASE WExit
    BY <2>7, <1>a DEF WExit, WrapperGone
  <2> QED
    BY <1>5, <2>1, <2>2, <2>3, <2>4, <2>5, <2>6, <2>7 DEF Wrapper
<1>6. CASE Finish
  BY <1>6, <1>a DEF Finish, Section, FStopTimer, FExit, TypeOK
<1>7. ASSUME NEW c \in Ctl, NEW o \in Commands, CStart(c, o)
      PROVE  ResultReady'
  BY <1>7, <1>a DEF CStart, TypeOK
<1>8. ASSUME NEW c \in Ctl, Control(c) PROVE ResultReady'
  <2>1. UNCHANGED result /\ \E l : pc' = [pc EXCEPT ![c] = l]
    BY <1>8 DEF Control, CRequest, CCheck, CRescue, Section, CStopTimer, CStopService, CAwait,
                CLook, CSettle, CFail, CMissing, Leave, CCandidates, CRemove
  <2> QED
    BY <2>1, <1>a DEF TypeOK
<1>9. CASE Fault
  BY <1>9, <1>a DEF Fault, SubmitCrash, WCrash, WrapperGone, FCrash, ManagerExit, TypeOK
<1>10. CASE UNCHANGED vars
  BY <1>10 DEF vars
<1>11. CASE OrphanDies
  BY <1>11 DEF OrphanDies
<1> QED
  BY <1>1, <1>2, <1>3, <1>4, <1>5, <1>6, <1>7, <1>8, <1>9, <1>10, <1>11 DEF Next, Over

\* Every variable always has a value of its type: what the code writes to
\* execution.json is always a record of the documented shape.
THEOREM TypeCorrect == Spec => []TypeOK
<1>1. Init => TypeOK /\ ResultReady
  <2>1. Init => ResultReady
    BY DEF Init, ResultReady, Proc, Owners
  <2> QED
    BY <2>1, TypesInit
<1>2. TypeOK /\ ResultReady /\ [Next]_vars => (TypeOK /\ ResultReady)'
  BY TypesNext, ResultNext
<1> QED
  BY <1>1, <1>2, PTL DEF Spec

-----------------------------------------------------------------------------
(* At most one start.  The claim is durable: from the moment the wrapper   *)
(* has claimed until long after the workload, the record, if it exists,    *)
(* says so, and so does the copy of whoever is inside a locked block.      *)

BeforeStart == {"wait", "gate", "exec", "launch"}

\* Only a process inside a locked block holds the lock.
LockInv == \A p \in Proc : lock = p => pc[p] \in Locked \cup {"call"}

\* Before submit calls the scheduler nothing has been delivered.
Unsubmitted ==
    pc["submit"] \in {"prepare", "plist", "enter"} =>
        ~inflight /\ timer = 0 /\ pc["wrapper"] = "off" /\ starts = 0

ClaimDurable ==
    starts > 0 \/ pc["wrapper"] \in BeforeStart =>
        (Exists => rec.claimed) /\ (lock \in Proc => buf[lock].claimed)

StartOnce == starts <= 1 /\ (pc["wrapper"] \in BeforeStart => starts = 0)

ClaimInv == LockInv /\ Unsubmitted /\ ClaimDurable /\ StartOnce

\* The identities of the processes, for the provers.
LEMMA ProcFacts ==
    /\ Owners \subseteq Proc /\ Ctl \subseteq Proc
    /\ "submit" \in Proc /\ "wrapper" \in Proc /\ "finish" \in Proc
    /\ "free" \notin Proc
    /\ "submit" \notin Ctl /\ "wrapper" \notin Ctl /\ "finish" \notin Ctl
BY ConstantsAssumption DEF Owners, Proc

\* A locked block that keeps a claim keeps the invariant; the wrapper may go
\* on towards the start only with the claim written and nothing started.
LEMMA SectionClaims ==
    ASSUME TypeOK, ClaimInv, NEW p \in Proc \ {"submit"}, NEW l, NEW d \in Record, NEW to,
           Section(p, l, d, to),
           buf[p].claimed => d.claimed,
           p = "wrapper" /\ to \in BeforeStart => starts = 0 /\ d.claimed,
           p = "wrapper" => l # "off"
    PROVE  ClaimInv'
<1> USE DEF Section, Holding, Commit, Goto, ctl, sched, run
<1>1. LockInv'
  BY ProcFacts DEF LockInv, TypeOK
<1>2. Unsubmitted'
  BY ProcFacts DEF ClaimInv, Unsubmitted, TypeOK
<1>3. ClaimDurable'
  BY ProcFacts DEF ClaimInv, ClaimDurable, TypeOK, Exists
<1>4. StartOnce'
  BY ProcFacts DEF ClaimInv, StartOnce, TypeOK
<1> QED
  BY <1>1, <1>2, <1>3, <1>4 DEF ClaimInv

\* A step of an operator outside the locked blocks keeps the invariant.
LEMMA ControlClaims ==
    ASSUME TypeOK, ClaimInv, NEW c \in Ctl, NEW l,
           pc[c] \notin Locked \cup {"call"},
           pc' = [pc EXCEPT ![c] = l],
           \A q \in Proc \ {c} : buf'[q] = buf[q],
           timer' = timer \/ timer' = 0,
           rec' = rec \/ rec' = Absent,
           UNCHANGED <<lock, inflight, starts>>
    PROVE  ClaimInv'
<1>1. LockInv'
  BY ProcFacts DEF ClaimInv, LockInv, TypeOK
<1>2. Unsubmitted'
  BY ProcFacts DEF ClaimInv, Unsubmitted, TypeOK
<1>3. ClaimDurable'
  BY ProcFacts DEF ClaimInv, ClaimDurable, LockInv, TypeOK, Exists, Absent, Prepared
<1>4. StartOnce'
  BY ProcFacts DEF ClaimInv, StartOnce, TypeOK
<1> QED
  BY <1>1, <1>2, <1>3, <1>4 DEF ClaimInv

\* A step of a scheduler-owned process that leaves record, lock and copies
\* alone keeps the invariant, unless it starts the workload (WStart).
LEMMA OwnerClaims ==
    ASSUME TypeOK, ClaimInv, NEW p \in {"wrapper", "finish"}, NEW l,
           pc[p] \notin Locked \cup {"call", "off"},
           pc' = [pc EXCEPT ![p] = l],
           p = "wrapper" /\ l \in BeforeStart => pc[p] \in BeforeStart,
           timer' = timer \/ timer' = 0,
           UNCHANGED <<store, inflight, starts>>
    PROVE  ClaimInv'
<1>1. LockInv'
  BY ProcFacts DEF ClaimInv, LockInv, TypeOK, store
<1>2. Unsubmitted'
  BY ProcFacts DEF ClaimInv, Unsubmitted, TypeOK, store
<1>3. ClaimDurable'
  BY ProcFacts DEF ClaimInv, ClaimDurable, TypeOK, Exists, store
<1>4. StartOnce'
  BY ProcFacts DEF ClaimInv, StartOnce, TypeOK, store
<1> QED
  BY <1>1, <1>2, <1>3, <1>4 DEF ClaimInv

\* Every step keeps the claim durable and the start unique.
LEMMA ClaimNext == TypeOK /\ ResultReady /\ ClaimInv /\ [Next]_vars => ClaimInv'
<1> SUFFICES ASSUME TypeOK, ResultReady, ClaimInv, [Next]_vars PROVE ClaimInv'
  OBVIOUS
<1> USE ProcFacts
<1>1. ASSUME NEW p \in Proc, Enter(p) PROVE ClaimInv'
  BY <1>1 DEF Enter, ClaimInv, LockInv, Unsubmitted, ClaimDurable, StartOnce, TypeOK, Exists,
              sched, run
<1>2. ASSUME NEW p \in Owners, Missing(p) PROVE ClaimInv'
  <2> USE <1>2 DEF Missing, Goto, ClaimInv, TypeOK, store, sched, run
  <2>1. LockInv'
    BY DEF LockInv
  <2>2. Unsubmitted'
    BY DEF Unsubmitted, Locked
  <2>3. ClaimDurable' /\ StartOnce'
    BY DEF ClaimDurable, StartOnce, Exists, BeforeStart
  <2> QED
    BY <2>1, <2>2, <2>3
<1>3. CASE Submit
  <2> USE DEF Goto, ClaimInv, TypeOK, store, sched, run
  <2>1. CASE SubmitPrepare
    BY <2>1 DEF SubmitPrepare, LockInv, Unsubmitted, ClaimDurable, StartOnce, Locked, BeforeStart
  <2>2. CASE SubmitPlist
    BY <2>2 DEF SubmitPlist, LockInv, Unsubmitted, ClaimDurable, StartOnce, Exists, Locked
  <2>3. CASE SubmitCall
    BY <2>3 DEF SubmitCall, LockInv, Unsubmitted, ClaimDurable, StartOnce, Exists
  <2>4. ASSUME NEW ok \in BOOLEAN, SubmitReturn(ok) PROVE ClaimInv'
    <3>1. /\ lock = "submit" /\ lock' = "free"
          /\ rec'.claimed = buf["submit"].claimed
          /\ pc' = [pc EXCEPT !["submit"] = "over"]
          /\ UNCHANGED starts
      BY <2>4 DEF SubmitReturn, Commit, Holding, Record
    <3>2. LockInv' /\ Unsubmitted' /\ StartOnce'
      BY <3>1 DEF LockInv, Unsubmitted, StartOnce
    <3>3. ClaimDurable'
      BY <3>1 DEF ClaimDurable
    <3> QED
      BY <3>2, <3>3
  <2> QED
    BY <1>3, <2>1, <2>2, <2>3, <2>4 DEF Submit
<1>4. CASE Scheduler
  <2> USE DEF Goto, ClaimInv, TypeOK, store, sched, run, LockInv, Unsubmitted, ClaimDurable,
              StartOnce, Exists
  <2>1. CASE Register
    BY <2>1 DEF Register, Activate, BeforeStart, Locked
  <2>2. CASE TimerFire
    BY <2>2 DEF TimerFire, Activate, BeforeStart, Locked
  <2>3. CASE TimerElapse
    BY <2>3 DEF TimerElapse
  <2>4. CASE Collect \/ DeadlinePasses
    BY <2>4 DEF Collect, DeadlinePasses
  <2> QED
    BY <1>4, <2>1, <2>2, <2>3, <2>4 DEF Scheduler
<1>5. CASE Wrapper
  <2> DEFINE w == buf["wrapper"]
  <2>a. /\ w \in Record
        /\ [w EXCEPT !.claimed = TRUE] \in Record /\ [w EXCEPT !.claimed = TRUE].claimed
        /\ \A s \in Status : /\ [w EXCEPT !.status = s] \in Record
                             /\ [w EXCEPT !.status = s].claimed = w.claimed
        /\ [w EXCEPT !.cleanup = "delegated"] \in Record
        /\ [w EXCEPT !.cleanup = "delegated"].claimed = w.claimed
        /\ [w EXCEPT !.cleanup = "failed"] \in Record
        /\ [w EXCEPT !.cleanup = "failed"].claimed = w.claimed
    <3>1. w \in Record
      BY DEF TypeOK
    <3> QED
      BY <3>1, FieldUpdates
  <2>b. AfterRun \notin BeforeStart /\ "exit" \notin BeforeStart /\ "bootout" \notin BeforeStart
    BY DEF AfterRun, BeforeStart
  <2>1. CASE WClaim
    <3>1. CASE Section("wrapper", "claim", w, "exit")
      BY <3>1, <2>a, <2>b, SectionClaims
    <3>2. CASE ~MustNotStart(w) /\ Section("wrapper", "claim", [w EXCEPT !.claimed = TRUE], "wait")
      <4>1. ~w.claimed /\ lock = "wrapper"
        BY <3>2 DEF MustNotStart, Section, Holding
      <4>2. starts = 0
        BY <4>1 DEF ClaimInv, ClaimDurable, TypeOK
      <4> QED
        BY <3>2, <4>2, <2>a, SectionClaims
    <3> QED
      BY <2>1, <3>1, <3>2 DEF WClaim, W
  <2>2. CASE WGate
    <3>1. CASE Section("wrapper", "gate", [w EXCEPT !.status = "cancelled"], AfterRun)
      BY <3>1, <2>a, <2>b, SectionClaims DEF Status, TERMINAL
    <3>2. CASE Section("wrapper", "gate", [w EXCEPT !.status = "running"], "exec")
      <4>1. lock = "wrapper" /\ pc["wrapper"] = "gate"
        BY <3>2 DEF Section, Holding
      <4>2. starts = 0 /\ w.claimed
        BY <4>1 DEF ClaimInv, ClaimDurable, StartOnce, BeforeStart
      <4> QED
        BY <3>2, <4>2, <2>a, SectionClaims DEF Status
    <3> QED
      BY <2>2, <3>1, <3>2 DEF WGate, W
  <2>c. CASE WRaise
    <3> USE <2>c DEF WRaise, Goto, Drop, ClaimInv, TypeOK, sched, run
    <3>1. LockInv'
      BY DEF LockInv, Locked
    <3>2. Unsubmitted' /\ StartOnce'
      BY DEF Unsubmitted, StartOnce, BeforeStart
    <3>3. ClaimDurable'
      BY DEF ClaimDurable, Exists, BeforeStart
    <3> QED
      BY <3>1, <3>2, <3>3
  <2>3. CASE WWait \/ WExec \/ WNoStart \/ WEnd \/ WFinalize \/ WUnlink
    <3>1. \E l : /\ pc' = [pc EXCEPT !["wrapper"] = l]
                 /\ l \in BeforeStart => pc["wrapper"] \in BeforeStart
      BY <2>3 DEF WWait, WExec, WNoStart, WEnd, WFinalize, WUnlink, Goto, BeforeStart
    <3>2. pc["wrapper"] \notin Locked \cup {"call", "off"}
      BY <2>3 DEF WWait, WExec, WNoStart, WEnd, WFinalize, WUnlink, Locked
    <3>3. UNCHANGED <<store, inflight, timer, starts>>
      BY <2>3 DEF WWait, WExec, WNoStart, WEnd, WFinalize, WUnlink, sched, run
    <3> QED
      BY <3>1, <3>2, <3>3, OwnerClaims
  <2>4. CASE WStart
    <3> USE <2>4 DEF WStart, Goto, store, sched
    <3>1. LockInv'
      BY DEF ClaimInv, LockInv, TypeOK, Locked
    <3>2. Unsubmitted'
      BY DEF ClaimInv, Unsubmitted, TypeOK
    <3>3. ClaimDurable'
      BY DEF ClaimInv, ClaimDurable, TypeOK, BeforeStart, Exists
    <3>4. StartOnce'
      BY DEF ClaimInv, StartOnce, TypeOK, BeforeStart
    <3> QED
      BY <3>1, <3>2, <3>3, <3>4 DEF ClaimInv
  <2>5. CASE WRecord
    <3>1. CASE Section("wrapper", "record", [w EXCEPT !.status = result], AfterRun)
      <4>1. [w EXCEPT !.status = result].claimed = w.claimed
        BY <2>a DEF Record
      <4>2. rec' = [w EXCEPT !.status = result]
        BY <3>1 DEF Section, Commit
      <4>3. rec' \in Record
        BY TypesNext DEF TypeOK
      <4> QED
        BY <3>1, <4>1, <4>2, <4>3, <2>b, SectionClaims
    <3>2. CASE Section("wrapper", "raise", [w EXCEPT !.status = "error"], AfterRun)
      BY <3>2, <2>a, <2>b, SectionClaims DEF Status, TERMINAL, Finished
    <3> QED
      BY <2>5, <3>1, <3>2 DEF WRecord, W
  <2>6. CASE WBootout
    <3>1. \E l \in {"off", "mark"} : pc' = [pc EXCEPT !["wrapper"] = l]
      BY <2>6 DEF WBootout, Goto
    <3>2. pc["wrapper"] \notin Locked \cup {"call", "off"}
      BY <2>6 DEF WBootout, Locked
    <3>3. UNCHANGED <<store, inflight, timer, starts>>
      BY <2>6 DEF WBootout
    <3> QED
      BY <3>1, <3>2, <3>3, OwnerClaims DEF BeforeStart
  <2>7. CASE WCleanup
    <3>1. CASE Section("wrapper", "delegate", [w EXCEPT !.cleanup = "delegated"], "bootout")
      BY <3>1, <2>a, <2>b, SectionClaims
    <3>2. CASE Section("wrapper", "mark", [w EXCEPT !.cleanup = "failed"], "exit")
      BY <3>2, <2>a, <2>b, SectionClaims
    <3> QED
      BY <2>7, <2>3, <2>6, <3>1, <3>2 DEF WCleanup, W
  <2>8. CASE WExit
    BY <2>8 DEF WExit, WrapperGone, Goto, ClaimInv, LockInv, Unsubmitted, ClaimDurable, StartOnce,
                TypeOK, store, Exists, Locked, BeforeStart
  <2> QED
    BY <1>5, <2>1, <2>2, <2>c, <2>3, <2>4, <2>5, <2>7, <2>8 DEF Wrapper
<1>6. CASE Finish
  <2> DEFINE f == buf["finish"]
  <2>a. /\ f \in Record /\ f.cancel_requested \in BOOLEAN
        /\ [f EXCEPT !.cleanup = "delegated"] \in Record
        /\ [f EXCEPT !.cleanup = "delegated"].claimed = f.claimed
        /\ [f EXCEPT !.cleanup = "failed"] \in Record
        /\ [f EXCEPT !.cleanup = "failed"].claimed = f.claimed
    <3>1. f \in Record
      BY DEF TypeOK
    <3>2. f.cancel_requested \in BOOLEAN
      BY <3>1 DEF Record
    <3> QED
      BY <3>1, <3>2, FieldUpdates
  <2>1. CASE Section("finish", "recover", Recover(f, f.cancel_requested), "stoptimer")
    BY <2>1, <2>a, RecoverKeeps, SectionClaims
  <2>2. ASSUME NEW ok \in BOOLEAN, FStopTimer(ok) PROVE ClaimInv'
    <3>1. \E l : pc' = [pc EXCEPT !["finish"] = l]
      BY <2>2 DEF FStopTimer, Goto
    <3>2. pc["finish"] \notin Locked \cup {"call", "off"}
      BY <2>2 DEF FStopTimer, Locked
    <3>3. UNCHANGED <<store, inflight, starts>> /\ (timer' = timer \/ timer' = 0)
      BY <2>2 DEF FStopTimer, run
    <3> QED
      BY <3>1, <3>2, <3>3, OwnerClaims
  <2>3. CASE Section("finish", "delegate", [f EXCEPT !.cleanup = "delegated"], "exit")
    BY <2>3, <2>a, SectionClaims
  <2>4. CASE Section("finish", "mark", [f EXCEPT !.cleanup = "failed"], "exit")
    BY <2>4, <2>a, SectionClaims
  <2>5. CASE FExit
    <3>1. pc["finish"] \notin Locked \cup {"call", "off"}
      BY <2>5 DEF FExit, Locked
    <3> QED
      BY <2>5, <3>1, OwnerClaims DEF FExit, Goto, run
  <2> QED
    BY <1>6, <2>1, <2>2, <2>3, <2>4, <2>5 DEF Finish, F
<1>7. ASSUME NEW c \in Ctl, NEW o \in Commands, CStart(c, o)
      PROVE  ClaimInv'
  <2>1. pc[c] \notin Locked \cup {"call"}
    BY <1>7 DEF CStart, Locked
  <2> QED
    BY <1>7, <2>1, ControlClaims DEF CStart, Goto, sched, run, TypeOK
<1>8. ASSUME NEW c \in Ctl, Control(c) PROVE ClaimInv'
  <2> DEFINE d0 == buf[c]
  <2>a. d0 \in Record /\ d0.cancel_requested \in BOOLEAN /\ c \in Proc \ {"submit", "wrapper"}
    BY DEF TypeOK, Record
  <2>1. CASE CCheck(c) \/ CStopTimer(c) \/ CStopService(c) \/ CAwait(c) \/ CLook(c)
             \/ CCandidates(c) \/ CRemove(c)
    <3>1. pc[c] \notin Locked \cup {"call"}
      BY <2>1 DEF CCheck, CStopTimer, CStopService, CAwait, CLook, CCandidates, CRemove, Locked
    <3>2. \E l : pc' = [pc EXCEPT ![c] = l]
      BY <2>1 DEF CCheck, CStopTimer, CStopService, CAwait, CLook, CCandidates, CRemove, Goto
    <3>3. /\ \A q \in Proc \ {c} : buf'[q] = buf[q]
          /\ timer' = timer \/ timer' = 0
          /\ rec' = rec \/ rec' = Absent
          /\ UNCHANGED <<lock, inflight, starts>>
      BY <2>1 DEF CCheck, CStopTimer, CStopService, CAwait, CLook, CCandidates, CRemove, TypeOK,
                  store, sched, run
    <3> QED
      BY <3>1, <3>2, <3>3, ControlClaims
  <2>2. CASE CRequest(c) \/ CSettle(c) \/ CFail(c)
    <3>1. Settled(c).claimed = d0.claimed
      BY <2>a, RecoverKeeps DEF Settled, Record
    <3>2. /\ lock = c /\ lock' = "free"
          /\ rec'.claimed = d0.claimed
          /\ UNCHANGED <<inflight, timer, starts>>
      BY <2>2, <2>a, <3>1 DEF CRequest, CSettle, CFail, Commit, Holding, Record, sched, run
    <3>3. \E l : pc' = [pc EXCEPT ![c] = l]
      BY <2>2 DEF CRequest, CSettle, CFail, Leave, Goto
    <3>4. LockInv' /\ Unsubmitted' /\ StartOnce'
      BY <3>2, <3>3, <2>a DEF ClaimInv, LockInv, Unsubmitted, StartOnce, TypeOK
    <3>5. ClaimDurable'
      BY <3>2, <3>3, <2>a DEF ClaimInv, ClaimDurable, TypeOK
    <3> QED
      BY <3>4, <3>5 DEF ClaimInv
  <2>3. CASE CRescue(c)
    BY <2>3, <2>a, RecoverKeeps, SectionClaims DEF CRescue
  <2>4. CASE CMissing(c)
    <3>1. /\ lock # c
          /\ \A q \in Proc \ {c} : buf'[q] = buf[q]
          /\ pc' = [pc EXCEPT ![c] = "idle"]
          /\ UNCHANGED <<rec, lock, inflight, timer, starts>>
      BY <2>4 DEF CMissing, Leave, Goto, sched, run, TypeOK
    <3>2. LockInv' /\ Unsubmitted' /\ StartOnce'
      BY <3>1, <2>a DEF ClaimInv, LockInv, Unsubmitted, StartOnce, TypeOK
    <3>3. ClaimDurable'
      BY <3>1, <2>a DEF ClaimInv, ClaimDurable, TypeOK, Exists
    <3> QED
      BY <3>2, <3>3 DEF ClaimInv
  <2> QED
    BY <1>8, <2>1, <2>2, <2>3, <2>4 DEF Control
<1>9. CASE Fault
  <2> USE DEF Goto, ClaimInv, TypeOK, store, sched, run
  <2>1. CASE SubmitCrash
    <3> USE <2>1 DEF SubmitCrash, Drop
    <3>1. LockInv'
      BY DEF LockInv
    <3>2. Unsubmitted' /\ StartOnce'
      BY DEF Unsubmitted, StartOnce
    <3>3. ClaimDurable'
      BY DEF ClaimDurable, Exists
    <3> QED
      BY <3>1, <3>2, <3>3
  <2>2. CASE WCrash
    <3> USE <2>2 DEF WCrash, WrapperGone, Drop
    <3>1. LockInv'
      BY DEF LockInv, Locked
    <3>2. Unsubmitted' /\ StartOnce'
      BY DEF Unsubmitted, StartOnce, BeforeStart
    <3>3. ClaimDurable'
      BY DEF ClaimDurable, Exists, BeforeStart
    <3> QED
      BY <3>1, <3>2, <3>3
  <2>3. CASE FCrash
    <3> USE <2>3 DEF FCrash, Drop
    <3>1. LockInv'
      BY DEF LockInv
    <3>2. Unsubmitted' /\ StartOnce'
      BY DEF Unsubmitted, StartOnce
    <3>3. ClaimDurable'
      BY DEF ClaimDurable, Exists
    <3> QED
      BY <3>1, <3>2, <3>3
  <2>4. CASE ManagerExit
    <3> USE <2>4 DEF ManagerExit, Drop
    <3>1. LockInv'
      BY DEF LockInv
    <3>2. Unsubmitted' /\ StartOnce'
      BY DEF Unsubmitted, StartOnce, BeforeStart
    <3>3. ClaimDurable'
      BY DEF ClaimDurable, Exists, BeforeStart
    <3> QED
      BY <3>1, <3>2, <3>3
  <2> QED
    BY <1>9, <2>1, <2>2, <2>3, <2>4 DEF Fault
<1>10. CASE UNCHANGED vars
  BY <1>10 DEF vars, store, sched, run, ClaimInv, LockInv, Unsubmitted, ClaimDurable, StartOnce,
               Exists
<1>11. CASE OrphanDies
  BY <1>11 DEF OrphanDies, store, sched, run, ClaimInv, LockInv, Unsubmitted, ClaimDurable, StartOnce,
               Exists
<1> QED
  BY <1>1, <1>2, <1>3, <1>4, <1>5, <1>6, <1>7, <1>8, <1>9, <1>10, <1>11 DEF Next, Over

\* The workload of one execution is started at most once, for every backend,
\* whatever is delivered twice, crashes, is pruned or recreated: the durable
\* claim of transient.execute.
THEOREM StartedAtMostOnce == Spec => []AtMostOnce
<1>1. Init => TypeOK /\ ResultReady /\ ClaimInv
  <2>1. Init => ResultReady
    BY ProcFacts DEF Init, ResultReady
  <2>2. Init => ClaimInv
    BY ProcFacts DEF Init, ClaimInv, LockInv, Unsubmitted, ClaimDurable, StartOnce, BeforeStart
  <2> QED
    BY <2>1, <2>2, TypesInit
<1>2. TypeOK /\ ResultReady /\ ClaimInv /\ [Next]_vars => (TypeOK /\ ResultReady /\ ClaimInv)'
  BY TypesNext, ResultNext, ClaimNext
<1>3. ClaimInv => AtMostOnce
  BY DEF ClaimInv, StartOnce, AtMostOnce
<1> QED
  BY <1>1, <1>2, <1>3, PTL DEF Spec

-----------------------------------------------------------------------------
(* Never early.  The wrapper leaves its deadline loop early only because   *)
(* of SIGTERM, and then does not pass the gate.                            *)

OnTime ==
    /\ pc["wrapper"] = "gate" => due \/ term
    /\ pc["wrapper"] \in {"exec", "launch"} => due
    /\ starts > 0 => due

\* Every step keeps the wrapper on time.
LEMMA OnTimeNext == TypeOK /\ OnTime /\ [Next]_vars => OnTime'
<1> SUFFICES ASSUME TypeOK, OnTime, [Next]_vars PROVE OnTime'
  OBVIOUS
<1> USE DEF Goto, ctl, sched, run, store, OnTime
<1>1. ASSUME NEW p \in Proc, Enter(p) PROVE OnTime'
  BY <1>1 DEF Enter
<1>2. ASSUME NEW p \in Owners, Missing(p) PROVE OnTime'
  BY <1>2, ProcFacts DEF Missing, TypeOK, Owners
<1>3. CASE Submit
  BY <1>3, ProcFacts DEF Submit, SubmitPrepare, SubmitPlist, SubmitCall, SubmitReturn, TypeOK
<1>4. CASE Scheduler
  BY <1>4, ProcFacts DEF Scheduler, Register, TimerFire, TimerElapse, Collect, DeadlinePasses,
                         Activate, TypeOK
<1>5. CASE Wrapper
  <2> USE DEF TypeOK, AfterRun, Section
  <2>1. CASE WClaim
    BY <2>1, ProcFacts DEF WClaim
  <2>2. CASE WWait
    BY <2>2, ProcFacts DEF WWait, WaitOver
  <2>3. CASE WGate
    BY <2>3, ProcFacts DEF WGate, GateCancelled, Holding
  <2>4. CASE WExec \/ WRaise \/ WNoStart \/ WStart
    BY <2>4, ProcFacts DEF WExec, WRaise, WNoStart, WStart
  <2>5. CASE WEnd \/ WFinalize \/ WRecord
    BY <2>5, ProcFacts DEF WEnd, WFinalize, WRecord
  <2>6. CASE WCleanup
    BY <2>6, ProcFacts DEF WCleanup, WUnlink, WBootout
  <2>7. CASE WExit
    BY <2>7, ProcFacts DEF WExit, WrapperGone
  <2> QED
    BY <1>5, <2>1, <2>2, <2>3, <2>4, <2>5, <2>6, <2>7 DEF Wrapper
<1>6. CASE Finish
  BY <1>6, ProcFacts DEF Finish, Section, FStopTimer, FExit, TypeOK
<1>7. ASSUME NEW c \in Ctl, NEW o \in Commands, CStart(c, o)
      PROVE  OnTime'
  BY <1>7, ProcFacts DEF CStart, TypeOK
<1>8. ASSUME NEW c \in Ctl, Control(c) PROVE OnTime'
  <2>1. /\ UNCHANGED <<due, starts>> /\ (term' = term \/ term')
        /\ \E l : pc' = [pc EXCEPT ![c] = l]
    BY <1>8 DEF Control, CRequest, CCheck, CRescue, Section, CStopTimer, CStopService, CAwait,
                CLook, CSettle, CFail, CMissing, Leave, CCandidates, CRemove
  <2> QED
    BY <2>1, ProcFacts DEF TypeOK
<1>9. CASE Fault
  BY <1>9, ProcFacts DEF Fault, SubmitCrash, WCrash, WrapperGone, FCrash, ManagerExit, TypeOK
<1>10. CASE UNCHANGED vars
  BY <1>10 DEF vars
<1>11. CASE OrphanDies
  BY <1>11 DEF OrphanDies
<1> QED
  BY <1>1, <1>2, <1>3, <1>4, <1>5, <1>6, <1>7, <1>8, <1>9, <1>10, <1>11 DEF Next, Over

\* The workload never starts before trigger_at, for every backend, however
\* early the scheduler fires and whoever interrupts the wait: the deadline
\* loop and the gate of transient.execute.
THEOREM StartedOnTime == Spec => []NeverEarly
<1>1. Init => TypeOK /\ ResultReady /\ OnTime
  <2>1. Init => ResultReady /\ OnTime
    BY ProcFacts DEF Init, ResultReady, OnTime
  <2> QED
    BY <2>1, TypesInit
<1>2. TypeOK /\ ResultReady /\ OnTime /\ [Next]_vars => (TypeOK /\ ResultReady /\ OnTime)'
  BY TypesNext, ResultNext, OnTimeNext
<1>3. OnTime => NeverEarly
  BY DEF OnTime, NeverEarly
<1> QED
  BY <1>1, <1>2, <1>3, PTL DEF Spec

-----------------------------------------------------------------------------
(* Cancellation closes the gate.  While the wrapper is inside a locked     *)
(* block nobody else records a request, so its copy has every request that *)
(* is on record; prune can only take the record away.                      *)

GateFresh == lock = "wrapper" /\ rec.cancel_requested => buf["wrapper"].cancel_requested

\* Every step keeps the wrapper's copy up to date.
LEMMA GateFreshNext == TypeOK /\ GateFresh /\ [Next]_vars => GateFresh'
<1> SUFFICES ASSUME TypeOK, GateFresh, [Next]_vars PROVE GateFresh'
  OBVIOUS
<1> USE DEF Goto, ctl, sched, run, store, GateFresh
<1>1. ASSUME NEW p \in Proc, Enter(p) PROVE GateFresh'
  BY <1>1, ProcFacts DEF Enter, TypeOK
<1>2. ASSUME NEW p \in Owners, Missing(p) PROVE GateFresh'
  BY <1>2 DEF Missing
<1>3. CASE Submit
  BY <1>3, ProcFacts DEF Submit, SubmitPrepare, SubmitPlist, SubmitCall, SubmitReturn, Commit,
                         Prepared
<1>4. CASE Scheduler
  BY <1>4 DEF Scheduler, Register, TimerFire, TimerElapse, Collect, DeadlinePasses
<1>5. CASE Wrapper
  BY <1>5, ProcFacts DEF Wrapper, Section, Commit, WClaim, WWait, WGate, WExec, WRaise, WNoStart,
                         WStart, WEnd, WFinalize, WRecord, WCleanup, WUnlink, WBootout, WExit,
                         Drop, TypeOK
<1>6. CASE Finish
  BY <1>6, ProcFacts DEF Finish, Section, Commit, FStopTimer, FExit
<1>7. ASSUME NEW c \in Ctl, NEW o \in Commands, CStart(c, o)
      PROVE  GateFresh'
  BY <1>7, ProcFacts DEF CStart, TypeOK
<1>8. ASSUME NEW c \in Ctl, Control(c) PROVE GateFresh'
  <2>1. CASE CRequest(c) \/ CRescue(c) \/ CSettle(c) \/ CFail(c)
    BY <2>1, ProcFacts DEF CRequest, CRescue, Section, CSettle, CFail, Commit
  <2>2. CASE CCheck(c) \/ CMissing(c)
    BY <2>2, ProcFacts DEF CCheck, CMissing, TypeOK
  <2>3. CASE CStopTimer(c) \/ CStopService(c) \/ CAwait(c) \/ CLook(c) \/ CCandidates(c)
    BY <2>3 DEF CStopTimer, CStopService, CAwait, CLook, CCandidates
  <2>4. CASE CRemove(c)
    BY <2>4 DEF CRemove, Absent, Prepared
  <2> QED
    BY <1>8, <2>1, <2>2, <2>3, <2>4 DEF Control
<1>9. CASE Fault
  BY <1>9, ProcFacts DEF Fault, SubmitCrash, WCrash, FCrash, ManagerExit, Drop, TypeOK
<1>10. CASE UNCHANGED vars
  BY <1>10 DEF vars
<1>11. CASE OrphanDies
  BY <1>11 DEF OrphanDies
<1> QED
  BY <1>1, <1>2, <1>3, <1>4, <1>5, <1>6, <1>7, <1>8, <1>9, <1>10, <1>11 DEF Next, Over

\* Only the wrapper's own gate leads it from the gate to exec_task, and not
\* with a request on record.
LEMMA GateStep ==
    TypeOK /\ GateFresh /\ [Next]_vars =>
        [rec.cancel_requested /\ pc["wrapper"] = "gate" => pc'["wrapper"] # "exec"]_vars
<1> SUFFICES ASSUME TypeOK, GateFresh, Next, rec.cancel_requested, pc["wrapper"] = "gate"
             PROVE  pc'["wrapper"] # "exec"
  OBVIOUS
<1> USE DEF Goto
<1>1. ASSUME NEW p \in Proc, Enter(p) PROVE pc'["wrapper"] # "exec"
  BY <1>1 DEF Enter
<1>2. ASSUME NEW p \in Owners, Missing(p) PROVE pc'["wrapper"] # "exec"
  BY <1>2, ProcFacts DEF Missing, TypeOK, Owners
<1>3. CASE Submit
  BY <1>3, ProcFacts DEF Submit, SubmitPrepare, SubmitPlist, SubmitCall, SubmitReturn, TypeOK
<1>4. CASE Scheduler
  BY <1>4, ProcFacts DEF Scheduler, Register, TimerFire, TimerElapse, Collect, DeadlinePasses,
                         Activate, TypeOK
<1>5. CASE Wrapper
  <2>1. WGate \/ WRaise
    BY <1>5 DEF Wrapper, WClaim, WWait, WExec, WNoStart, WStart, WEnd, WFinalize, WRecord,
                WCleanup, WUnlink, WBootout, WExit, Section, Holding
  <2>2. CASE WRaise
    BY <2>2, ProcFacts DEF WRaise, TypeOK
  <2> QED
    BY <2>1, <2>2, ProcFacts DEF WGate, W, GateCancelled, GateFresh, Section, Holding, AfterRun, TypeOK
<1>6. CASE Finish
  BY <1>6, ProcFacts DEF Finish, Section, FStopTimer, FExit, TypeOK
<1>7. ASSUME NEW c \in Ctl, NEW o \in Commands, CStart(c, o)
      PROVE  pc'["wrapper"] # "exec"
  BY <1>7, ProcFacts DEF CStart, TypeOK
<1>8. ASSUME NEW c \in Ctl, Control(c) PROVE pc'["wrapper"] # "exec"
  <2>1. \E l : pc' = [pc EXCEPT ![c] = l]
    BY <1>8 DEF Control, CRequest, CCheck, CRescue, Section, CStopTimer, CStopService, CAwait,
                CLook, CSettle, CFail, CMissing, Leave, CCandidates, CRemove
  <2> QED
    BY <2>1, ProcFacts DEF TypeOK
<1>9. CASE Fault
  BY <1>9, ProcFacts DEF Fault, SubmitCrash, WCrash, WrapperGone, FCrash, ManagerExit, TypeOK
<1>10. CASE UNCHANGED vars
  BY <1>10 DEF vars
<1>11. CASE OrphanDies
  BY <1>11 DEF OrphanDies
<1> QED
  BY <1>1, <1>2, <1>3, <1>4, <1>5, <1>6, <1>7, <1>8, <1>9, <1>10, <1>11 DEF Next, Over

\* Once a cancellation is on record the wrapper never goes on to run the
\* workload, with any number of operators and for every fault: the second
\* locked block of transient.execute.
THEOREM CancellationHolds == Spec => CancelClosesGate
<1>1. Init => TypeOK /\ ResultReady /\ GateFresh
  <2>1. Init => ResultReady /\ GateFresh
    BY ProcFacts DEF Init, ResultReady, GateFresh
  <2> QED
    BY <2>1, TypesInit
<1>2. TypeOK /\ ResultReady /\ GateFresh /\ [Next]_vars => (TypeOK /\ ResultReady /\ GateFresh)'
  BY TypesNext, ResultNext, GateFreshNext
<1> QED
  BY <1>1, <1>2, GateStep, PTL DEF Spec, CancelClosesGate

-----------------------------------------------------------------------------
(* Cancellation: processes and scheduler objects.                          *)

\* A wrapper lives exactly in an active or stopping service, the hook exactly
\* in a service in its post phase; before the scheduler has acted there is
\* nothing; a timer refers to a loaded service; only launchd boots itself out.
SchedInv ==
    /\ pc["wrapper"] # "off" <=> svc \in {"active", "stopping"}
    /\ pc["finish"] # "off" <=> svc = "post"
    /\ pc["submit"] \in {"prepare", "plist", "enter"} \/ inflight => svc = "none" /\ timer = 0
    /\ timer > 0 => svc # "none" /\ Backend = "systemd"
    /\ alive => starts > 0 /\ (pc["wrapper"] = "running" \/ Backend = "launchd")
    /\ pc["wrapper"] \in {"cleanup", "delegate", "bootout", "mark"} => Backend = "launchd"

\* Every step keeps processes and scheduler objects in agreement.
LEMMA SchedNext == TypeOK /\ ClaimInv /\ SchedInv /\ [Next]_vars => SchedInv'
<1> SUFFICES ASSUME TypeOK, ClaimInv, SchedInv, [Next]_vars PROVE SchedInv'
  OBVIOUS
<1> USE ProcFacts DEF Goto, ctl, sched, run, store, SchedInv, TypeOK
<1>1. ASSUME NEW p \in Proc, Enter(p) PROVE SchedInv'
  BY <1>1 DEF Enter
<1>2. ASSUME NEW p \in Owners, Missing(p) PROVE SchedInv'
  BY <1>2 DEF Missing, Owners, Locked
<1>3. CASE Submit
  <2>1. CASE SubmitPrepare \/ SubmitPlist \/ SubmitCall
    BY <2>1 DEF SubmitPrepare, SubmitPlist, SubmitCall, Holding
  <2>2. ASSUME NEW ok \in BOOLEAN, SubmitReturn(ok) PROVE SchedInv'
    <3>1. inflight' => inflight
      BY <2>2, Zenon DEF SubmitReturn
    <3> QED
      BY <2>2, <3>1 DEF SubmitReturn, Holding
  <2> QED
    BY <1>3, <2>1, <2>2 DEF Submit
<1>4. CASE Scheduler
  <2>1. CASE Register
    BY <2>1, ConstantsAssumption DEF Register, Activate, ClaimInv, Unsubmitted
  <2>2. CASE TimerFire \/ TimerElapse
    BY <2>2 DEF TimerFire, TimerElapse, Activate
  <2>3. CASE Collect \/ DeadlinePasses
    BY <2>3 DEF Collect, DeadlinePasses
  <2> QED
    BY <1>4, <2>1, <2>2, <2>3 DEF Scheduler
<1>5. CASE Wrapper
  <2>1. CASE WClaim \/ WWait \/ WGate \/ WExec \/ WNoStart \/ WFinalize \/ WRecord
    BY <2>1 DEF WClaim, WWait, WGate, WExec, WNoStart, WFinalize, WRecord, Section,
                Holding, AfterRun
  <2>5. CASE WRaise
    <3>1. alive' => alive /\ pc["wrapper"] # "running"
      BY <2>5, Zenon DEF WRaise
    <3> QED
      BY <2>5, <3>1 DEF WRaise
  <2>2. CASE WStart \/ WEnd
    BY <2>2 DEF WStart, WEnd
  <2>3. CASE WCleanup
    <3>1. CASE WBootout
      BY <3>1 DEF WBootout
    <3>2. CASE WUnlink
      BY <3>2 DEF WUnlink
    <3>3. CASE \E d : \/ Section("wrapper", "delegate", d, "bootout")
                     \/ Section("wrapper", "mark", d, "exit")
      BY <3>3 DEF Section, Holding
    <3> QED
      BY <2>3, <3>1, <3>2, <3>3 DEF WCleanup
  <2>4. CASE WExit
    BY <2>4, ConstantsAssumption DEF WExit, WrapperGone
  <2> QED
    BY <1>5, <2>1, <2>2, <2>3, <2>4, <2>5 DEF Wrapper
<1>6. CASE Finish
  BY <1>6 DEF Finish, Section, Holding, FStopTimer, FExit
<1>7. ASSUME NEW c \in Ctl, NEW o \in Commands, CStart(c, o) PROVE SchedInv'
  BY <1>7 DEF CStart
<1>8. ASSUME NEW c \in Ctl, Control(c) PROVE SchedInv'
  <2>1. CASE CRequest(c) \/ CCheck(c) \/ CRescue(c) \/ CAwait(c) \/ CLook(c) \/ CSettle(c)
             \/ CFail(c) \/ CMissing(c) \/ CCandidates(c) \/ CRemove(c)
    BY <2>1 DEF CRequest, CCheck, CRescue, Section, CAwait, CLook, CSettle, CFail, CMissing, Leave,
                CCandidates, CRemove
  <2>2. CASE CStopTimer(c)
    BY <2>2 DEF CStopTimer
  <2>3. CASE CStopService(c)
    BY <2>3 DEF CStopService
  <2> QED
    BY <1>8, <2>1, <2>2, <2>3 DEF Control
<1>9. CASE Fault
  <2>1. CASE SubmitCrash \/ FCrash
    BY <2>1 DEF SubmitCrash, FCrash, Locked
  <2>2. CASE WCrash
    <3>1. alive' => alive /\ Backend = "launchd"
      BY <2>2, Zenon DEF WCrash, Orphans
    <3> QED
      BY <2>2, <3>1, ConstantsAssumption DEF WCrash, WrapperGone
  <2>3. CASE ManagerExit
    <3>1. alive' => alive /\ Backend = "launchd"
      BY <2>3, Zenon DEF ManagerExit, Orphans
    <3> QED
      BY <2>3, <3>1 DEF ManagerExit
  <2> QED
    BY <1>9, <2>1, <2>2, <2>3 DEF Fault
<1>10. CASE UNCHANGED vars
  BY <1>10 DEF vars
<1>11. CASE OrphanDies
  BY <1>11 DEF OrphanDies
<1> QED
  BY <1>1, <1>2, <1>3, <1>4, <1>5, <1>6, <1>7, <1>8, <1>9, <1>10, <1>11 DEF Next, Over

-----------------------------------------------------------------------------
(* The copy of the lock holder.                                            *)

\* Whoever is inside a locked block works on the record as it is on disk,
\* unless prune has removed it in the meantime.
LockFresh == lock \in Proc => buf[lock].status # "absent" /\ (Exists => buf[lock] = rec)

\* Before submit has written the record there is nothing to act on.
Unprepared ==
    pc["submit"] = "prepare" =>
        /\ rec = Absent /\ lock = "free"
        /\ \A c \in Ctl : pc[c] = "idle"
        /\ \A p \in Proc : buf[p] = Absent

\* The first step of all but the clock is submit's.
LEMMA FirstStep ==
    ASSUME TypeOK, ClaimInv, SchedInv, Unprepared, Next, pc["submit"] = "prepare"
    PROVE  SubmitPrepare \/ DeadlinePasses
<1> USE ProcFacts DEF Unprepared, TypeOK
<1>1. /\ pc["wrapper"] = "off" /\ pc["finish"] = "off" /\ ~inflight /\ timer = 0 /\ svc = "none"
      /\ ~Exists
  BY DEF ClaimInv, Unsubmitted, SchedInv, Exists, Absent, Prepared
<1>2. ASSUME NEW p \in Proc PROVE ~Enter(p)
  BY <1>1 DEF Enter
<1>3. ASSUME NEW p \in Owners PROVE ~Missing(p)
  BY <1>1 DEF Missing, Owners, Locked
<1>4. ~Wrapper
  BY <1>1 DEF Wrapper, WClaim, WWait, WGate, WExec, WRaise, WNoStart, WStart, WEnd, WFinalize,
              WRecord, WCleanup, WUnlink, WBootout, WExit, Section, Holding
<1>5. ~Finish
  BY <1>1 DEF Finish, Section, Holding, FStopTimer, FExit
<1>6. ASSUME NEW c \in Ctl, NEW o \in Commands PROVE ~CStart(c, o)
  BY <1>1 DEF CStart
<1>7. ASSUME NEW c \in Ctl PROVE ~Control(c)
  BY <1>1 DEF Control, CRequest, CCheck, CRescue, Section, CStopTimer, CStopService, CAwait, CLook,
              CSettle, CFail, CMissing, CCandidates, CRemove, Holding, Locked
<1>8. ~Fault /\ ~Over /\ ~OrphanDies
  <2>1. ~alive
    BY DEF ClaimInv, Unsubmitted, SchedInv
  <2> QED
    BY <1>1, <2>1 DEF Fault, SubmitCrash, WCrash, FCrash, ManagerExit, Over, OrphanDies, Doomed
<1>9. Submit => SubmitPrepare
  BY DEF Submit, SubmitPlist, SubmitCall, SubmitReturn, Holding
<1>10. Scheduler => DeadlinePasses
  BY <1>1 DEF Scheduler, Register, TimerFire, TimerElapse, Collect
<1> QED
  BY <1>2, <1>3, <1>4, <1>5, <1>6, <1>7, <1>8, <1>9, <1>10 DEF Next

\* submit prepares once.
LEMMA UnpreparedNext ==
    TypeOK /\ ClaimInv /\ SchedInv /\ Unprepared /\ [Next]_vars => Unprepared'
<1> SUFFICES ASSUME TypeOK, ClaimInv, SchedInv, Unprepared, [Next]_vars,
                    pc'["submit"] = "prepare"
             PROVE  /\ rec' = Absent /\ lock' = "free"
                    /\ \A c \in Ctl : pc'[c] = "idle"
                    /\ \A p \in Proc : buf'[p] = Absent
  BY DEF Unprepared
<1>1. pc["submit"] = "prepare"
  <2> USE ProcFacts DEF Goto, TypeOK
  <2>1. ASSUME NEW p \in Proc, Enter(p) PROVE pc["submit"] = "prepare"
    BY <2>1 DEF Enter
  <2>2. ASSUME NEW p \in Owners, Missing(p) PROVE pc["submit"] = "prepare"
    BY <2>2 DEF Missing
  <2>3. CASE Submit \/ SubmitCrash
    BY <2>3 DEF Submit, SubmitPrepare, SubmitPlist, SubmitCall, SubmitReturn, SubmitCrash
  <2>4. CASE Scheduler \/ ManagerExit
    BY <2>4 DEF Scheduler, Register, TimerFire, TimerElapse, Collect, DeadlinePasses, Activate,
                ManagerExit
  <2>5. CASE Wrapper
    BY <2>5 DEF Wrapper, WClaim, WWait, WGate, WExec, WRaise, WNoStart, WStart, WEnd, WFinalize,
                WRecord, WCleanup, WUnlink, WBootout, WExit, Section, WrapperGone
  <2>6. CASE Finish \/ WCrash \/ FCrash \/ OrphanDies
    BY <2>6 DEF Finish, Section, FStopTimer, FExit, WCrash, FCrash, WrapperGone, OrphanDies
  <2>7. ASSUME NEW c \in Ctl, NEW o \in Commands, CStart(c, o) PROVE pc["submit"] = "prepare"
    BY <2>7 DEF CStart
  <2>8. ASSUME NEW c \in Ctl, Control(c) PROVE pc["submit"] = "prepare"
    <3>1. \E l : pc' = [pc EXCEPT ![c] = l]
      BY <2>8 DEF Control, CRequest, CCheck, CRescue, Section, CStopTimer, CStopService, CAwait,
                  CLook, CSettle, CFail, CMissing, Leave, CCandidates, CRemove
    <3> QED
      BY <3>1
  <2>9. CASE UNCHANGED vars
    BY <2>9 DEF vars
  <2> QED
    BY <2>1, <2>2, <2>3, <2>4, <2>5, <2>6, <2>7, <2>8, <2>9 DEF Next, Fault, Over
<1>2. CASE UNCHANGED vars
  BY <1>1, <1>2 DEF vars, store, Unprepared
<1>3. CASE Next
  <2>1. CASE SubmitPrepare
    BY <2>1, ProcFacts DEF SubmitPrepare, Goto, TypeOK
  <2>2. CASE DeadlinePasses
    BY <1>1, <2>2 DEF DeadlinePasses, store, Unprepared
  <2> QED
    BY <1>1, <1>3, <2>1, <2>2, FirstStep
<1> QED
  BY <1>2, <1>3

\* Every step keeps the holder's copy fresh.
LEMMA FreshNext ==
    TypeOK /\ ClaimInv /\ Unprepared /\ LockFresh /\ [Next]_vars => LockFresh'
<1> SUFFICES ASSUME TypeOK, ClaimInv, Unprepared, LockFresh, [Next]_vars PROVE LockFresh'
  OBVIOUS
<1> USE ProcFacts DEF Goto, ctl, sched, run, store, LockFresh, Exists
<1>a. ASSUME lock' = "free" PROVE LockFresh'
  BY <1>a
<1>b. ASSUME NEW p \in Proc, NEW l, NEW d, NEW to, Section(p, l, d, to) PROVE LockFresh'
  BY <1>b, <1>a DEF Section, Commit
<1>c. ASSUME NEW p \in Proc, lock # p, UNCHANGED <<rec, lock>>,
             \A q \in Proc \ {p} : buf'[q] = buf[q]
      PROVE  LockFresh'
  BY <1>c DEF TypeOK
<1>d. ASSUME UNCHANGED store PROVE LockFresh'
  BY <1>d
<1>e. ASSUME NEW S, Drop(S), UNCHANGED rec PROVE LockFresh'
  BY <1>e DEF Drop, TypeOK
<1>1. ASSUME NEW p \in Proc, Enter(p) PROVE LockFresh'
  BY <1>1 DEF Enter, TypeOK
<1>2. ASSUME NEW p \in Owners, Missing(p) PROVE LockFresh'
  BY <1>2, <1>d DEF Missing
<1>3. CASE Submit
  <2>1. CASE SubmitPrepare
    BY <2>1, <1>a DEF SubmitPrepare, Unprepared
  <2>2. CASE SubmitPlist \/ SubmitCall
    BY <2>2, <1>d DEF SubmitPlist, SubmitCall
  <2>3. ASSUME NEW ok \in BOOLEAN, SubmitReturn(ok) PROVE LockFresh'
    BY <2>3, <1>a DEF SubmitReturn, Commit
  <2> QED
    BY <1>3, <2>1, <2>2, <2>3 DEF Submit
<1>4. CASE Scheduler
  BY <1>4, <1>d DEF Scheduler, Register, TimerFire, TimerElapse, Collect, DeadlinePasses
<1>5. CASE Wrapper
  <2>1. CASE WWait \/ WExec \/ WNoStart \/ WStart \/ WEnd \/ WFinalize \/ WExit
    BY <2>1, <1>d DEF WWait, WExec, WNoStart, WStart, WEnd, WFinalize, WExit
  <2>2. CASE WClaim \/ WGate \/ WRecord \/ WCleanup
    BY <2>2, <1>b, <1>d DEF WClaim, WGate, WRecord, WCleanup, WUnlink, WBootout
  <2>3. CASE WRaise
    BY <2>3, <1>e DEF WRaise
  <2> QED
    BY <1>5, <2>1, <2>2, <2>3 DEF Wrapper
<1>6. CASE Finish
  BY <1>6, <1>b, <1>d DEF Finish, FStopTimer, FExit
<1>7. ASSUME NEW c \in Ctl, NEW o \in Commands, CStart(c, o) PROVE LockFresh'
  <2>1. lock # c
    BY <1>7 DEF CStart, ClaimInv, LockInv, Locked
  <2> QED
    BY <1>7, <2>1, <1>c DEF CStart, TypeOK
<1>8. ASSUME NEW c \in Ctl, Control(c) PROVE LockFresh'
  <2>1. CASE CRequest(c) \/ CRescue(c) \/ CSettle(c) \/ CFail(c)
    BY <2>1, <1>a, <1>b DEF CRequest, CRescue, CSettle, CFail, Commit
  <2>2. CASE CStopTimer(c) \/ CStopService(c) \/ CAwait(c) \/ CLook(c) \/ CCandidates(c)
    BY <2>2, <1>d DEF CStopTimer, CStopService, CAwait, CLook, CCandidates
  <2>3. CASE CCheck(c) \/ CMissing(c)
    <3>1. lock # c
      BY <2>3 DEF CCheck, CMissing, ClaimInv, LockInv, Locked
    <3> QED
      BY <2>3, <3>1, <1>c DEF CCheck, CMissing, TypeOK
  <2>4. CASE CRemove(c)
    BY <2>4 DEF CRemove, Absent, Prepared
  <2> QED
    BY <1>8, <2>1, <2>2, <2>3, <2>4 DEF Control
<1>9. CASE Fault
  BY <1>9, <1>e DEF Fault, SubmitCrash, WCrash, FCrash, ManagerExit
<1>10. CASE UNCHANGED vars
  BY <1>10, <1>d DEF vars
<1>11. CASE OrphanDies
  BY <1>11, <1>d DEF OrphanDies
<1> QED
  BY <1>1, <1>2, <1>3, <1>4, <1>5, <1>6, <1>7, <1>8, <1>9, <1>10, <1>11 DEF Next, Over

-----------------------------------------------------------------------------
(* Cancellation.                                                           *)

\* c has put its cancellation on record.
Requested(c) == (op[c] = "cancel" /\ pc[c] # "request") \/ pc[c] = "done"

\* The request stays: on record, and in the copy of whoever holds the lock.
RequestKept ==
    \A c \in Ctl : Requested(c) =>
        /\ pc["submit"] # "prepare"
        /\ Exists => rec.cancel_requested
        /\ lock \in Proc => buf[lock].cancel_requested

\* c has stopped the service, or found that there is none.
Stopped(c) ==
    \/ op[c] = "cancel" /\ pc[c] \in {"looktimer", "lookservice", "settle"}
    \/ pc[c] = "done"

\* From then on no wrapper gets past its gate.
StaysStopped ==
    \A c \in Ctl : Stopped(c) => pc["wrapper"] \notin {"exec", "launch", "running"}

\* No commit of the code takes a request back.
LEMMA KeepsRequest ==
    ASSUME NEW d \in Record
    PROVE  /\ \A s : [d EXCEPT !.status = s].cancel_requested = d.cancel_requested
           /\ \A u : [d EXCEPT !.cleanup = u].cancel_requested = d.cancel_requested
           /\ [d EXCEPT !.claimed = TRUE].cancel_requested = d.cancel_requested
BY DEF Record

\* Every step keeps the requests.
LEMMA RequestNext ==
    TypeOK /\ ClaimInv /\ Unprepared /\ RequestKept /\ [Next]_vars => RequestKept'
<1> SUFFICES ASSUME TypeOK, ClaimInv, Unprepared, RequestKept, [Next]_vars,
                    NEW k \in Ctl, Requested(k)'
             PROVE  /\ pc'["submit"] # "prepare"
                    /\ Exists' => rec'.cancel_requested
                    /\ lock' \in Proc => buf'[lock'].cancel_requested
  BY DEF RequestKept
<1> DEFINE G == /\ pc'["submit"] # "prepare"
                /\ Exists' => rec'.cancel_requested
                /\ lock' \in Proc => buf'[lock'].cancel_requested
           H == /\ pc["submit"] # "prepare"
                /\ Exists => rec.cancel_requested
                /\ lock \in Proc => buf[lock].cancel_requested
<1> USE ProcFacts DEF Goto, ctl, sched, run, store
<1> SUFFICES G
  OBVIOUS
<1>h. Requested(k) => H
  BY DEF RequestKept
\* Steps of the owners leave k's command alone.
<1>o. ASSUME NEW p \in Owners, NEW l, pc' = [pc EXCEPT ![p] = l], UNCHANGED ctl PROVE H
  <2>1. pc'[k] = pc[k]
    BY <1>o DEF TypeOK, Owners
  <2> QED
    BY <1>o, <2>1, <1>h DEF Requested
<1>s. ASSUME NEW p \in Owners, NEW l, NEW d, NEW to, Section(p, l, d, to), to # "prepare",
             d.cancel_requested = buf[p].cancel_requested
      PROVE  G
  <2>1. H
    BY <1>s, <1>o DEF Section
  <2> QED
    BY <1>s, <2>1 DEF Section, Holding, Commit, TypeOK
<1>u. ASSUME NEW p \in Owners, NEW l, pc' = [pc EXCEPT ![p] = l], l # "prepare",
             UNCHANGED ctl, UNCHANGED store
      PROVE  G
  BY <1>u, <1>o DEF TypeOK, Exists
<1>1. ASSUME NEW p \in Proc, Enter(p) PROVE G
  <2>1. H
    BY <1>1, <1>h DEF Enter, Requested
  <2> QED
    BY <1>1, <2>1 DEF Enter, Exists, TypeOK
<1>2. ASSUME NEW p \in Owners, Missing(p) PROVE G
  BY <1>2, <1>u DEF Missing
<1>3. CASE Submit
  <2> USE DEF Owners
  <2>1. CASE SubmitPrepare
    BY <2>1, <1>o DEF SubmitPrepare
  <2>2. CASE SubmitPlist \/ SubmitCall
    BY <2>2, <1>u DEF SubmitPlist, SubmitCall
  <2>3. ASSUME NEW ok \in BOOLEAN, SubmitReturn(ok) PROVE G
    <3>1. rec'.cancel_requested = buf["submit"].cancel_requested
      BY <2>3 DEF SubmitReturn, Commit, TypeOK, Record
    <3>2. H
      BY <2>3, <1>o DEF SubmitReturn
    <3> QED
      BY <2>3, <3>1, <3>2 DEF SubmitReturn, Holding, Commit, TypeOK
  <2> QED
    BY <1>3, <2>1, <2>2, <2>3 DEF Submit
<1>4. CASE Scheduler
  <2>1. pc' = pc \/ pc' = [pc EXCEPT !["wrapper"] = "claim"]
    BY <1>4 DEF Scheduler, Register, TimerFire, TimerElapse, Collect, DeadlinePasses, Activate
  <2>2. UNCHANGED <<ctl, store>>
    BY <1>4 DEF Scheduler, Register, TimerFire, TimerElapse, Collect, DeadlinePasses
  <2>3. CASE pc' = pc
    BY <2>2, <2>3, <1>h DEF Requested, Exists
  <2> QED
    BY <2>1, <2>2, <2>3, <1>u DEF Owners
<1>5. CASE Wrapper
  <2> USE DEF Owners
  <2>a. buf["wrapper"] \in Record
    BY DEF TypeOK
  <2>1. CASE WWait \/ WExec \/ WNoStart \/ WStart \/ WEnd \/ WFinalize \/ WUnlink \/ WBootout
    BY <2>1, <1>u DEF WWait, WExec, WNoStart, WStart, WEnd, WFinalize, WUnlink, WBootout
  <2>2. CASE WClaim \/ WGate \/ WRecord
    BY <2>2, <2>a, <1>s, KeepsRequest DEF WClaim, WGate, WRecord, W, AfterRun
  <2>3. CASE WCleanup
    BY <2>1, <2>3, <2>a, <1>s, KeepsRequest DEF WCleanup, W
  <2>4. CASE WExit
    BY <2>4, <1>h DEF WExit, WrapperGone, Requested, Exists, TypeOK
  <2>5. CASE WRaise
    <3>1. H
      BY <2>5, <1>o DEF WRaise
    <3> QED
      BY <2>5, <3>1 DEF WRaise, Drop, Exists, TypeOK
  <2> QED
    BY <1>5, <2>1, <2>2, <2>3, <2>4, <2>5 DEF Wrapper
<1>6. CASE Finish
  <2> USE DEF Owners
  <2>a. buf["finish"] \in Record /\ buf["finish"].cancel_requested \in BOOLEAN
    BY DEF TypeOK, Record
  <2>1. ASSUME NEW ok \in BOOLEAN, FStopTimer(ok) PROVE G
    BY <2>1, <1>u DEF FStopTimer
  <2>2. CASE FExit
    BY <2>2, <1>u DEF FExit
  <2> QED
    BY <1>6, <2>1, <2>2, <2>a, <1>s, KeepsRequest, RecoverKeeps DEF Finish, F
<1>7. ASSUME NEW c \in Ctl, NEW o \in Commands, CStart(c, o) PROVE G
  <2>1. lock # c
    BY <1>7 DEF CStart, ClaimInv, LockInv, Locked
  <2>2. H
    BY <1>7, <1>h DEF CStart, Requested, TypeOK
  <2> QED
    BY <1>7, <2>1, <2>2 DEF CStart, TypeOK, Exists
<1>8. ASSUME NEW c \in Ctl, Control(c) PROVE G
  <2>a. buf[c] \in Record /\ buf[c].cancel_requested \in BOOLEAN
    BY DEF TypeOK, Record
  <2>1. CASE CRequest(c)
    <3>1. rec'.cancel_requested /\ lock' = "free" /\ lock = c
      BY <2>1, <2>a DEF CRequest, Holding, Record
    <3>2. pc'["submit"] # "prepare"
      BY <2>1 DEF CRequest, Holding, Unprepared, TypeOK
    <3> QED
      BY <3>1, <3>2
  <2>2. CASE CRescue(c) \/ CSettle(c) \/ CFail(c)
    <3>1. /\ lock = c /\ lock' = "free"
          /\ rec'.cancel_requested = buf[c].cancel_requested
      <4>1. Settled(c).cancel_requested = buf[c].cancel_requested
        <5> DEFINE r == Recover(buf[c], op[c] = "cancel")
        <5>1. r \in Record /\ r.cancel_requested = buf[c].cancel_requested
          BY <2>a, RecoverKeeps
        <5>2. [r EXCEPT !.cleanup = "collected"].cancel_requested = buf[c].cancel_requested
          BY <5>1, KeepsRequest
        <5> QED
          BY <5>2, <2>a, KeepsRequest DEF Settled
      <4>2. CASE CRescue(c)
        BY <4>2, <2>a, RecoverKeeps DEF CRescue, Section, Commit, Holding
      <4>3. CASE CSettle(c)
        BY <4>3, <4>1 DEF CSettle, Commit, Holding
      <4>4. CASE CFail(c)
        BY <4>4, <2>a, KeepsRequest DEF CFail, Commit, Holding
      <4> QED
        BY <2>2, <4>2, <4>3, <4>4
    <3>2. H
      <4>1. pc[c] \in {"rescue", "settle", "fail"}
        BY <2>2 DEF CRescue, CSettle, CFail, Section, Holding
      <4>2. CASE CRescue(c)
        BY <4>1, <4>2, <1>h DEF CRescue, Decide, Section, Requested, TypeOK
      <4>3. CASE CFail(c)
        BY <4>1, <4>3, <1>h DEF CFail, Leave, Requested, TypeOK
      <4>4. CASE CSettle(c)
        <5>1. pc'[c] = "done" => op[c] = "cancel"
          BY <4>4 DEF CSettle, Leave, TypeOK
        <5> QED
          BY <4>1, <4>4, <5>1, <1>h DEF CSettle, Leave, Requested, TypeOK
      <4> QED
        BY <2>2, <4>2, <4>3, <4>4
    <3>3. pc'["submit"] = pc["submit"]
      BY <2>2 DEF CRescue, CSettle, CFail, Section, Leave, TypeOK
    <3> QED
      BY <3>1, <3>2, <3>3
  <2>3. CASE CStopTimer(c) \/ CStopService(c) \/ CAwait(c) \/ CLook(c) \/ CCandidates(c)
    <3>1. \E l : pc' = [pc EXCEPT ![c] = l] /\ l \notin {"done", "request"}
      BY <2>3 DEF CStopTimer, CStopService, CAwait, CLook, CCandidates
    <3>2. UNCHANGED <<op, store>> /\ pc[c] # "request"
      BY <2>3 DEF CStopTimer, CStopService, CAwait, CLook, CCandidates
    <3>3. H
      BY <3>1, <3>2, <1>h DEF Requested, TypeOK
    <3> QED
      BY <3>1, <3>2, <3>3 DEF TypeOK, Exists
  <2>4. CASE CCheck(c)
    <3>1. /\ pc[c] = "check" /\ lock # c
          /\ \E l : pc' = [pc EXCEPT ![c] = l] /\ l \notin {"done", "request"}
          /\ UNCHANGED <<op, rec, lock>> /\ buf' = [buf EXCEPT ![c] = Absent]
      BY <2>4 DEF CCheck, Decide, ClaimInv, LockInv, Locked
    <3>2. H
      BY <3>1, <1>h DEF Requested, TypeOK
    <3> QED
      BY <3>1, <3>2 DEF TypeOK, Exists
  <2>5. CASE CMissing(c)
    <3>1. k # c
      BY <2>5 DEF CMissing, Leave, Requested, TypeOK
    <3>2. H
      BY <2>5, <3>1, <1>h DEF CMissing, Leave, Requested, TypeOK
    <3> QED
      BY <2>5, <3>2 DEF CMissing, Leave, TypeOK, Exists
  <2>6. CASE CRemove(c)
    <3>1. H
      BY <2>6, <1>h DEF CRemove, Requested, TypeOK
    <3> QED
      BY <2>6, <3>1 DEF CRemove, TypeOK, Exists, Absent, Prepared
  <2> QED
    BY <1>8, <2>1, <2>2, <2>3, <2>4, <2>5, <2>6 DEF Control
<1>9. CASE Fault
  <2>1. H
    BY <1>9, <1>h DEF Fault, SubmitCrash, WCrash, WrapperGone, FCrash, ManagerExit, Requested, TypeOK
  <2>2. UNCHANGED rec /\ \E S : Drop(S)
    BY <1>9 DEF Fault, SubmitCrash, WCrash, FCrash, ManagerExit
  <2>3. pc'["submit"] # "prepare"
    BY <1>9, <2>1 DEF Fault, SubmitCrash, WCrash, WrapperGone, FCrash, ManagerExit, TypeOK
  <2> QED
    BY <2>1, <2>2, <2>3 DEF Drop, Exists, TypeOK
<1>10. CASE UNCHANGED vars
  BY <1>10, <1>h DEF vars, Requested, Exists
<1>11. CASE OrphanDies
  BY <1>11, <1>h DEF OrphanDies, Requested, Exists
<1> QED
  BY <1>1, <1>2, <1>3, <1>4, <1>5, <1>6, <1>7, <1>8, <1>9, <1>10, <1>11 DEF Next, Over

\* Every step keeps the wrapper from running what has been stopped: its gate
\* reads the request under the lock.
LEMMA StoppedNext ==
    TypeOK /\ SchedInv /\ RequestKept /\ StaysStopped /\ [Next]_vars => StaysStopped'
<1> SUFFICES ASSUME TypeOK, SchedInv, RequestKept, StaysStopped, [Next]_vars,
                    NEW k \in Ctl, Stopped(k)'
             PROVE  pc'["wrapper"] \notin {"exec", "launch", "running"}
  BY DEF StaysStopped
<1> DEFINE G == pc'["wrapper"] \notin {"exec", "launch", "running"}
<1> SUFFICES G
  OBVIOUS
<1> USE ProcFacts DEF Goto, ctl, sched, run, store
<1>h. Stopped(k) => pc["wrapper"] \notin {"exec", "launch", "running"}
  BY DEF StaysStopped
<1>1. ASSUME NEW p \in Proc, Enter(p) PROVE G
  BY <1>1, <1>h DEF Enter, Stopped
<1>2. ASSUME NEW p \in Owners, Missing(p) PROVE G
  BY <1>2, <1>h DEF Missing, Stopped, TypeOK, Owners
<1>3. CASE Submit
  BY <1>3, <1>h DEF Submit, SubmitPrepare, SubmitPlist, SubmitCall, SubmitReturn, Stopped, TypeOK
<1>4. CASE Scheduler
  BY <1>4, <1>h DEF Scheduler, Register, TimerFire, TimerElapse, Collect, DeadlinePasses, Activate,
                    Stopped, TypeOK
<1>5. CASE Wrapper
  <2>1. Stopped(k)
    <3>1. pc'[k] = pc[k] /\ UNCHANGED op
      BY <1>5 DEF Wrapper, WClaim, WWait, WGate, WExec, WRaise, WNoStart, WStart, WEnd, WFinalize,
                  WRecord, WCleanup, WUnlink, WBootout, WExit, WrapperGone, Section, TypeOK
    <3> QED
      BY <3>1 DEF Stopped
  <2>2. CASE WGate
    <3>1. lock = "wrapper" /\ pc["wrapper"] = "gate"
      BY <2>2 DEF WGate, Section, Holding
    <3>2. buf["wrapper"].cancel_requested
      BY <2>1, <3>1 DEF RequestKept, Requested, Stopped
    <3> QED
      BY <2>2, <3>2 DEF WGate, GateCancelled, W, Section, AfterRun, TypeOK
  <2>3. CASE WClaim \/ WWait \/ WRecord \/ WCleanup \/ WExit
    BY <2>3 DEF WClaim, WWait, WRecord, WCleanup, WUnlink, WBootout, WExit, WrapperGone, Section,
                AfterRun, TypeOK
  <2>4. CASE WExec \/ WRaise \/ WNoStart \/ WStart \/ WEnd \/ WFinalize
    BY <2>4, <2>1, <1>h DEF WExec, WRaise, WNoStart, WStart, WEnd, WFinalize, TypeOK
  <2> QED
    BY <1>5, <2>2, <2>3, <2>4 DEF Wrapper
<1>6. CASE Finish
  BY <1>6, <1>h DEF Finish, Section, FStopTimer, FExit, Stopped, TypeOK
<1>7. ASSUME NEW c \in Ctl, NEW o \in Commands, CStart(c, o) PROVE G
  BY <1>7, <1>h DEF CStart, Stopped, TypeOK
<1>8. ASSUME NEW c \in Ctl, Control(c) PROVE G
  <2>a. pc'["wrapper"] = pc["wrapper"]
    BY <1>8 DEF Control, CRequest, CCheck, CRescue, Section, CStopTimer, CStopService, CAwait, CLook,
                CSettle, CFail, CMissing, Leave, CCandidates, CRemove, TypeOK
  <2>1. CASE CRequest(c) \/ CMissing(c) \/ CFail(c) \/ CCandidates(c) \/ CRemove(c)
    BY <2>1, <2>a, <1>h DEF CRequest, CMissing, CFail, CCandidates, CRemove, Leave, Stopped, TypeOK
  <2>2. CASE CCheck(c) \/ CRescue(c) \/ CStopTimer(c)
    BY <2>2, <2>a, <1>h DEF CCheck, CRescue, CStopTimer, Section, Decide, Stopped, TypeOK
  <2>3. CASE CStopService(c) \/ CAwait(c)
    <3>1. CASE svc \in {"none", "idle"}
      BY <3>1, <2>a DEF SchedInv
    <3>2. CASE svc \notin {"none", "idle"}
      BY <2>3, <3>2, <2>a, <1>h DEF CStopService, CAwait, ServicePresent, Stopped, TypeOK
    <3> QED
      BY <3>1, <3>2
  <2>4. CASE CLook(c)
    BY <2>4, <2>a, <1>h DEF CLook, Stopped, TypeOK
  <2>5. CASE CSettle(c)
    <3>1. pc'[c] = "done" => op[c] = "cancel" /\ pc[c] = "settle"
      BY <2>5 DEF CSettle, Leave, Holding, TypeOK
    <3> QED
      BY <2>5, <3>1, <2>a, <1>h DEF CSettle, Leave, Stopped, TypeOK
  <2> QED
    BY <1>8, <2>1, <2>2, <2>3, <2>4, <2>5 DEF Control
<1>9. CASE Fault
  BY <1>9, <1>h DEF Fault, SubmitCrash, WCrash, WrapperGone, FCrash, ManagerExit, Stopped, TypeOK
<1>10. CASE UNCHANGED vars
  BY <1>10, <1>h DEF vars, Stopped
<1>11. CASE OrphanDies
  BY <1>11, <1>h DEF OrphanDies, Stopped
<1> QED
  BY <1>1, <1>2, <1>3, <1>4, <1>5, <1>6, <1>7, <1>8, <1>9, <1>10, <1>11 DEF Next, Over

\* What holds of every execution, orderly or not.
BaseInv ==
    TypeOK /\ ResultReady /\ ClaimInv /\ OnTime /\ SchedInv /\ Unprepared /\ LockFresh

\* It holds initially.
LEMMA BaseInit == Init => BaseInv
<1> SUFFICES ASSUME Init PROVE BaseInv
  OBVIOUS
<1>1. ResultReady /\ OnTime /\ Unprepared /\ LockFresh
  BY ProcFacts DEF Init, ResultReady, OnTime, Unprepared, LockFresh
<1>2. ClaimInv
  BY ProcFacts DEF Init, ClaimInv, LockInv, Unsubmitted, ClaimDurable, StartOnce, BeforeStart
<1>3. SchedInv
  BY ProcFacts DEF Init, SchedInv
<1> QED
  BY <1>1, <1>2, <1>3, TypesInit DEF BaseInv

\* Every step keeps it.
LEMMA BaseNext == BaseInv /\ [Next]_vars => BaseInv'
BY TypesNext, ResultNext, ClaimNext, OnTimeNext, SchedNext, UnpreparedNext, FreshNext DEF BaseInv

\* After a cancel that returned without an error the workload does not run and
\* does not start later: for every number of operators, on both backends,
\* with early control, late registration and all faults (reconcile, execute).
THEOREM CancelledStaysStopped == Spec => []CancelStops
<1>1. Init => BaseInv /\ RequestKept /\ StaysStopped
  <2>1. Init => RequestKept /\ StaysStopped
    BY ProcFacts DEF Init, RequestKept, Requested, StaysStopped, Stopped
  <2> QED
    BY <2>1, BaseInit
<1>2. BaseInv /\ RequestKept /\ StaysStopped /\ [Next]_vars
        => (BaseInv /\ RequestKept /\ StaysStopped)'
  BY BaseNext, RequestNext, StoppedNext DEF BaseInv
<1>3. BaseInv /\ StaysStopped => CancelStops
  BY DEF BaseInv, SchedInv, StaysStopped, Stopped, CancelStops, Running, Doomed
<1> QED
  BY <1>1, <1>2, <1>3, PTL DEF Spec
=============================================================================
