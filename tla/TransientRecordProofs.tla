----------------------- MODULE TransientRecordProofs ------------------------
(***************************************************************************)
(* What the record of a transient execution says is true, for every        *)
(* backend, every set of operators and every combination of faults, when   *)
(* the submission is orderly: operators act on an execution once submit    *)
(* has returned, and the scheduler registers it during the call or never.  *)
(* Otherwise the record may be wrong, as the run tx_abandoned shows. The   *)
(* last part proves that such an execution implements OneShot: each step   *)
(* maps to a step of the abstract specification or changes nothing it      *)
(* speaks of.                                                              *)
(***************************************************************************)
EXTENDS TransientOneShot, TransientExecutionProofs

-----------------------------------------------------------------------------
(* Orderly submissions.                                                    *)

\* Operators act on the ID that submit has returned, and the scheduler acts
\* on a request during the call or never.  The run tx_abandoned shows what may
\* happen otherwise.
Orderly == EarlyControl = FALSE /\ LateRegistration = FALSE

\* While submit runs, the record is as submit has written it, and a wrapper
\* that the scheduler has started already waits for the lock.
Submitting ==
    /\ pc["submit"] \in {"prepare", "plist", "enter", "call", "over"}
    /\ pc["submit"] # "over" =>
          /\ rec = IF pc["submit"] = "prepare" THEN Absent ELSE Prepared
          /\ IF pc["submit"] = "call" THEN lock = "submit" ELSE lock \in {"free", "submit"}
          /\ pc["wrapper"] \in {"off", "claim", "raise"}
          /\ pc["finish"] \in {"off", "recover", "exit"}
          /\ \A c \in Ctl : pc[c] = "idle"
          /\ hist = "none"
    /\ pc["submit"] = "over" => ~inflight

\* The steps that are possible while submit runs.
LEMMA EarlySteps ==
    ASSUME Orderly, BaseInv, Submitting, Next, pc["submit"] # "over"
    PROVE  Enter("submit") \/ Submit \/ Scheduler \/ WRaise \/ Fault \/ FExit
<1> USE ProcFacts DEF BaseInv, Submitting, TypeOK
<1>a. pc["submit"] # "call" => pc["wrapper"] = "off" /\ pc["finish"] = "off"
  BY DEF SchedInv
<1>b. lock \notin {"wrapper", "finish"} /\ \A c \in Ctl : lock # c
  OBVIOUS
<1>c. pc["submit"] # "prepare" => Exists
  BY DEF Exists, Prepared
<1>1. ASSUME NEW p \in Proc, Enter(p), p # "submit" PROVE FALSE
  BY <1>1, <1>a DEF Enter, Locked, Proc, Owners
<1>2. ASSUME NEW p \in Owners, Missing(p) PROVE FALSE
  BY <1>2, <1>a, <1>c DEF Missing, Locked, Owners
<1>3. Wrapper => WRaise
  BY <1>b DEF Wrapper, WClaim, WWait, WGate, WExec, WNoStart, WStart, WEnd, WFinalize,
              WRecord, WCleanup, WUnlink, WBootout, WExit, Section, Holding
<1>4. Finish => FExit
  BY <1>b DEF Finish, Section, Holding, FStopTimer
<1>5. ASSUME NEW c \in Ctl, NEW o \in Commands PROVE ~CStart(c, o)
  BY DEF CStart, Orderly
<1>6. ASSUME NEW c \in Ctl PROVE ~Control(c)
  BY DEF Control, CRequest, CCheck, CRescue, Section, CStopTimer, CStopService, CAwait, CLook,
         CSettle, CFail, CMissing, CCandidates, CRemove, Holding, Locked
<1>7. ~Over /\ ~OrphanDies
  <2>1. ~alive
    BY DEF SchedInv, ClaimInv, Unsubmitted, ClaimDurable, Exists, Prepared
  <2> QED
    BY <2>1 DEF Over, OrphanDies, Doomed
<1> QED
  BY <1>1, <1>2, <1>3, <1>4, <1>5, <1>6, <1>7 DEF Next

\* submit is over for good, and nothing is in flight then.
LEMMA OverStays ==
    ASSUME Orderly, BaseInv, [Next]_vars, pc["submit"] = "over", ~inflight
    PROVE  pc'["submit"] = "over" /\ ~inflight'
<1> USE ProcFacts DEF Goto, ctl, sched, run, store, BaseInv, TypeOK
<1>1. ASSUME NEW p \in Proc, Enter(p) PROVE pc'["submit"] = "over" /\ ~inflight'
  BY <1>1 DEF Enter
<1>2. ASSUME NEW p \in Owners, Missing(p) PROVE pc'["submit"] = "over" /\ ~inflight'
  BY <1>2 DEF Missing
<1>3. CASE Submit \/ Scheduler
  BY <1>3 DEF Submit, SubmitPrepare, SubmitPlist, SubmitCall, SubmitReturn, Holding,
              Scheduler, Register, TimerFire, TimerElapse, Collect, DeadlinePasses, Activate
<1>4. CASE Wrapper
  BY <1>4 DEF Wrapper, WClaim, WWait, WGate, WExec, WRaise, WNoStart, WStart, WEnd, WFinalize,
              WRecord, WCleanup, WUnlink, WBootout, WExit, WrapperGone, Section
<1>5. CASE Finish
  BY <1>5 DEF Finish, Section, FStopTimer, FExit
<1>6. ASSUME NEW c \in Ctl, NEW o \in Commands, CStart(c, o)
      PROVE  pc'["submit"] = "over" /\ ~inflight'
  BY <1>6 DEF CStart
<1>7. ASSUME NEW c \in Ctl, Control(c) PROVE pc'["submit"] = "over" /\ ~inflight'
  BY <1>7 DEF Control, CRequest, CCheck, CRescue, Section, CStopTimer, CStopService, CAwait, CLook,
              CSettle, CFail, CMissing, Leave, CCandidates, CRemove
<1>8. CASE Fault \/ OrphanDies
  BY <1>8 DEF Fault, SubmitCrash, WCrash, WrapperGone, FCrash, ManagerExit, OrphanDies
<1>9. CASE UNCHANGED vars
  BY <1>9 DEF vars
<1> QED
  BY <1>1, <1>2, <1>3, <1>4, <1>5, <1>6, <1>7, <1>8, <1>9 DEF Next, Over

\* Every step of an orderly submission keeps it orderly.
LEMMA SubmittingNext ==
    ASSUME Orderly, BaseInv, Submitting, [Next]_vars
    PROVE  Submitting'
<1>1. CASE pc["submit"] = "over"
  BY <1>1, OverStays DEF Submitting
<1>2. CASE UNCHANGED vars
  BY <1>2 DEF vars, store, sched, run, Submitting
<1>3. CASE pc["submit"] # "over" /\ Next
  <2> USE <1>3, ProcFacts DEF Goto, ctl, sched, run, store, BaseInv, TypeOK, Submitting
  <2>1. CASE Enter("submit")
    BY <2>1 DEF Enter, Locked
  <2>2. CASE SubmitPrepare \/ SubmitPlist \/ SubmitCall
    BY <2>2 DEF SubmitPrepare, SubmitPlist, SubmitCall, Holding, Unprepared
  <2>3. ASSUME NEW ok \in BOOLEAN, SubmitReturn(ok) PROVE Submitting'
    BY <2>3 DEF SubmitReturn, Orderly
  <2>4. CASE Scheduler
    BY <2>4 DEF Scheduler, Register, TimerFire, TimerElapse, Collect, DeadlinePasses, Activate
  <2>5. CASE SubmitCrash
    BY <2>5 DEF SubmitCrash, Orderly
  <2>6. CASE WCrash
    BY <2>6 DEF WCrash, WrapperGone, Drop
  <2>7. CASE FCrash \/ FExit
    BY <2>7 DEF FCrash, FExit, Drop
  <2>8. CASE ManagerExit
    BY <2>8 DEF ManagerExit, Drop
  <2>9. CASE WRaise
    BY <2>9 DEF WRaise, Drop
  <2> QED
    BY <2>1, <2>2, <2>3, <2>4, <2>5, <2>6, <2>7, <2>8, <2>9, EarlySteps DEF Submit, Fault
<1> QED
  BY <1>1, <1>2, <1>3

\* The scheduler has nothing of the execution and will not get anything.
Quiet == timer = 0 /\ svc = "none" /\ pc["submit"] = "over"

\* What is quiet stays quiet.
LEMMA QuietStays ==
    ASSUME Orderly, BaseInv, Submitting, [Next]_vars
    PROVE  /\ timer = 0 /\ pc["submit"] = "over" => timer' = 0
           /\ Quiet => Quiet'
           /\ pc["submit"] = "over" /\ ~plist => ~plist'
<1> SUFFICES ASSUME pc["submit"] = "over"
             PROVE  /\ timer = 0 => timer' = 0
                    /\ timer = 0 /\ svc = "none" => svc' = "none"
                    /\ ~plist => ~plist'
  BY OverStays DEF Quiet, Submitting
<1> DEFINE G == /\ timer = 0 => timer' = 0
                /\ timer = 0 /\ svc = "none" => svc' = "none"
                /\ ~plist => ~plist'
<1> SUFFICES G
  OBVIOUS
<1> USE ProcFacts DEF Goto, ctl, sched, run, store, BaseInv, TypeOK, Submitting, SchedInv
<1>1. ASSUME NEW p \in Proc, Enter(p) PROVE G
  BY <1>1 DEF Enter
<1>2. ASSUME NEW p \in Owners, Missing(p) PROVE G
  BY <1>2 DEF Missing
<1>3. CASE Submit \/ Scheduler
  BY <1>3 DEF Submit, SubmitPrepare, SubmitPlist, SubmitCall, SubmitReturn, Holding,
              Scheduler, Register, TimerFire, TimerElapse, Collect, DeadlinePasses
<1>4. CASE Wrapper
  BY <1>4 DEF Wrapper, WClaim, WWait, WGate, WExec, WRaise, WNoStart, WStart, WEnd, WFinalize,
              WRecord, WCleanup, WUnlink, WBootout, WExit, Section, Holding
<1>5. CASE Finish
  BY <1>5 DEF Finish, Section, FStopTimer, FExit, Holding
<1>6. ASSUME NEW c \in Ctl, NEW o \in Commands, CStart(c, o) PROVE G
  BY <1>6 DEF CStart
<1>7. ASSUME NEW c \in Ctl, Control(c) PROVE G
  <2>1. CASE CStopTimer(c) \/ CStopService(c)
    BY <2>1 DEF CStopTimer, CStopService
  <2>2. CASE CSettle(c)
    BY <2>2 DEF CSettle
  <2> QED
    BY <1>7, <2>1, <2>2 DEF Control, CRequest, CCheck, CRescue, Section, CAwait, CLook, CFail,
                            CMissing, CCandidates, CRemove
<1>8. CASE Fault \/ OrphanDies
  BY <1>8 DEF Fault, SubmitCrash, WCrash, FCrash, ManagerExit, OrphanDies
<1>9. CASE UNCHANGED vars
  BY <1>9 DEF vars
<1> QED
  BY <1>1, <1>2, <1>3, <1>4, <1>5, <1>6, <1>7, <1>8, <1>9 DEF Next, Over

-----------------------------------------------------------------------------
(* What the commits write: the later proofs need no more of the record.    *)

\* Only request and cleanup differ.
Kept(d, e) == e.status = d.status /\ e.claimed = d.claimed

\* A missing outcome is filled in, from the history if it has one.
WrittenOff(d, e) ==
    /\ e.claimed = d.claimed
    /\ IF Terminal(d) THEN e.status = d.status
       ELSE e.status \in (IF HistoryTerminal THEN {hist} ELSE {"cancelled", "abandoned"})

\* "collected" is not an invention of this commit.
NotCollected(d, e) == e.cleanup = "collected" => d.cleanup = "collected"

\* _recover_outcome writes off.
LEMMA RecoverWritesOff ==
    ASSUME NEW d \in Record, NEW cancel
    PROVE  WrittenOff(d, Recover(d, cancel)) /\ Recover(d, cancel).cleanup = d.cleanup
<1>1. CASE Terminal(d)
  BY <1>1 DEF WrittenOff, Recover
<1>2. CASE ~Terminal(d)
  BY <1>2 DEF WrittenOff, Recover, Record
<1> QED
  BY <1>1, <1>2

\* The locked blocks of reconcile: CSettle alone says "collected", and writes
\* off only what its queries did not find.
LEMMA ControlCommits ==
    ASSUME TypeOK, NEW c \in Ctl, CRequest(c) \/ CRescue(c) \/ CSettle(c) \/ CFail(c)
    PROVE  /\ lock = c /\ lock' = "free"
           /\ pc' = [pc EXCEPT ![c] = pc'[c]] /\ pc'[c] \notin {"rescue", "remove"}
           /\ UNCHANGED <<sched, due, run>>
           /\ \A p \in Proc \ {c} : buf'[p] = buf[p]
           /\ buf'[c] \in {rec', Absent}
           /\ plist' => plist
           /\ gone'[c] => gone[c] /\ pc[c] \in {"request", "rescue"}
           /\ \A q \in Ctl \ {c} : gone'[q] = gone[q]
           /\ \/ Kept(buf[c], rec')
              \/ WrittenOff(buf[c], rec') /\ (pc[c] = "rescue" \/ (pc[c] = "settle" /\ gone[c]))
           /\ NotCollected(buf[c], rec') \/ (pc[c] = "settle" /\ gone[c] /\ ~plist')
<1> USE ProcFacts DEF Goto, ctl, sched, run
<1>a. buf[c] \in Record
  BY DEF TypeOK
<1>1. CASE CRequest(c)
  <2>1. Kept(buf[c], rec') /\ NotCollected(buf[c], rec')
    BY <1>1, <1>a DEF CRequest, Kept, NotCollected, Record
  <2> QED
    BY <1>1, <2>1 DEF CRequest, Holding, TypeOK
<1>2. CASE CRescue(c)
  <2> DEFINE d == Recover(buf[c], buf[c].cancel_requested)
  <2>1. WrittenOff(buf[c], d) /\ d.cleanup = buf[c].cleanup
    BY <1>a, RecoverWritesOff
  <2>2. Section(c, "rescue", d, Decide(c, d)) /\ Decide(c, d) \in {"stoptimer", "looktimer"}
    BY <1>2 DEF CRescue, Decide
  <2> HIDE DEF d
  <2> QED
    BY <2>1, <2>2 DEF Section, Holding, Commit, NotCollected, TypeOK
<1>3. CASE CSettle(c)
  <2> DEFINE r == Recover(buf[c], op[c] = "cancel")
  <2>1. WrittenOff(buf[c], r) /\ r \in Record
    BY <1>a, RecoverWritesOff, RecoverKeeps
  <2>b. pc' = [pc EXCEPT ![c] = pc'[c]] /\ pc'[c] \in {"candidates", "done", "idle"}
    BY <1>3 DEF CSettle, Leave, TypeOK
  <2>2. CASE gone[c]
    <3>1. rec' = [r EXCEPT !.cleanup = "collected"] /\ ~plist'
      BY <1>3, <2>2 DEF CSettle, Commit, Settled
    <3>2. WrittenOff(buf[c], rec')
      BY <2>1, <3>1 DEF WrittenOff, Record
    <3> HIDE DEF r
    <3> QED
      BY <1>3, <2>2, <3>1, <3>2, <2>b DEF CSettle, Commit, Holding, Leave, TypeOK
  <2>3. CASE ~gone[c]
    <3>1. rec' \in {buf[c], [buf[c] EXCEPT !.cleanup = "pending"]}
      BY <1>3, <2>3 DEF CSettle, Commit, Settled
    <3>2. Kept(buf[c], rec') /\ NotCollected(buf[c], rec')
      BY <1>a, <3>1 DEF Kept, NotCollected, Record
    <3> QED
      BY <1>3, <2>3, <3>2, <2>b DEF CSettle, Commit, Holding, Leave, TypeOK
  <2> QED
    BY <2>2, <2>3
<1>4. CASE CFail(c)
  <2>1. Kept(buf[c], rec') /\ NotCollected(buf[c], rec')
    BY <1>4, <1>a DEF CFail, Commit, Kept, NotCollected, Record
  <2> QED
    BY <1>4, <2>1 DEF CFail, Commit, Holding, Leave, TypeOK
<1> QED
  BY <1>1, <1>2, <1>3, <1>4

\* The locked blocks of finish.
LEMMA FinishCommits ==
    ASSUME TypeOK, Finish, lock = "finish", lock' # "finish"
    PROVE  /\ pc["finish"] # "off" /\ lock' = "free"
           /\ pc' = [pc EXCEPT !["finish"] = pc'["finish"]]
           /\ buf' = [buf EXCEPT !["finish"] = Absent]
           /\ UNCHANGED <<ctl, plist, sched, due, run>>
           /\ Kept(buf["finish"], rec') \/ WrittenOff(buf["finish"], rec')
           /\ NotCollected(buf["finish"], rec')
<1> USE ProcFacts DEF Goto
<1>a. F \in Record
  BY DEF TypeOK, F
<1>1. CASE Section("finish", "recover", Recover(F, F.cancel_requested), "stoptimer")
  <2> DEFINE d == Recover(F, F.cancel_requested)
  <2>1. WrittenOff(F, d) /\ d.cleanup = F.cleanup
    BY <1>a, RecoverWritesOff
  <2>2. Section("finish", "recover", d, "stoptimer")
    BY <1>1
  <2> HIDE DEF d
  <2> QED
    BY <2>1, <2>2 DEF Section, Holding, Commit, NotCollected, TypeOK, F
<1>2. ASSUME NEW u \in {"delegated", "failed"}, NEW l \in {"delegate", "mark"},
             Section("finish", l, [F EXCEPT !.cleanup = u], "exit")
      PROVE  /\ pc["finish"] # "off" /\ lock' = "free"
             /\ pc' = [pc EXCEPT !["finish"] = pc'["finish"]]
             /\ buf' = [buf EXCEPT !["finish"] = Absent]
             /\ UNCHANGED <<ctl, plist, sched, due, run>>
             /\ Kept(F, rec') /\ NotCollected(F, rec')
  <2>1. Kept(F, rec') /\ NotCollected(F, rec')
    BY <1>2, <1>a DEF Section, Commit, Kept, NotCollected, Record
  <2> QED
    BY <1>2, <2>1 DEF Section, Holding, Commit, TypeOK
<1>3. CASE FExit \/ \E ok \in BOOLEAN : FStopTimer(ok)
  BY <1>3 DEF FExit, FStopTimer, store
<1> QED
  BY <1>1, <1>2, <1>3 DEF Finish, F

\* The locked blocks of execute that reach their end, one line each.
LEMMA WrapperCommits ==
    ASSUME TypeOK, Wrapper, ~WRaise, lock = "wrapper", lock' # "wrapper"
    PROVE  /\ lock' = "free"
           /\ pc' = [pc EXCEPT !["wrapper"] = pc'["wrapper"]]
           /\ buf' = [buf EXCEPT !["wrapper"] = Absent]
           /\ UNCHANGED <<ctl, plist, sched, due, run>>
           /\ NotCollected(W, rec')
           /\ \/ /\ pc["wrapper"] = "claim" /\ pc'["wrapper"] = "exit"
                 /\ Kept(W, rec')
              \/ /\ pc["wrapper"] = "claim" /\ pc'["wrapper"] = "wait" /\ ~MustNotStart(W)
                 /\ rec'.status = W.status /\ rec'.claimed
              \/ /\ pc["wrapper"] = "gate" /\ pc'["wrapper"] = "exec"
                 /\ rec'.status = "running" /\ rec'.claimed = W.claimed
              \/ /\ pc["wrapper"] \in {"gate", "record", "raise"} /\ pc'["wrapper"] \in {"cleanup", "exit"}
                 /\ rec'.status = CASE pc["wrapper"] = "gate" -> "cancelled"
                                    [] pc["wrapper"] = "record" -> result
                                    [] OTHER -> "error"
                 /\ rec'.claimed = W.claimed
              \/ /\ pc["wrapper"] \in {"delegate", "mark"} /\ pc'["wrapper"] \in {"bootout", "exit"}
                 /\ Kept(W, rec')
<1> USE ProcFacts DEF Goto
<1>a. W \in Record
  BY DEF TypeOK, W
<1>b. ASSUME NEW l, NEW d, NEW to, Section("wrapper", l, d, to)
      PROVE  /\ lock' = "free" /\ rec' = d
             /\ pc["wrapper"] = l /\ pc'["wrapper"] = to
             /\ pc' = [pc EXCEPT !["wrapper"] = pc'["wrapper"]]
             /\ buf' = [buf EXCEPT !["wrapper"] = Absent]
             /\ UNCHANGED <<ctl, plist, sched, due, run>>
  BY <1>b DEF Section, Holding, Commit, TypeOK
<1>c. /\ NotCollected(W, W) /\ Kept(W, W)
      /\ \A s : /\ [W EXCEPT !.status = s].status = s
                /\ [W EXCEPT !.status = s].claimed = W.claimed
                /\ NotCollected(W, [W EXCEPT !.status = s])
      /\ \A u \in {"delegated", "failed"} : /\ Kept(W, [W EXCEPT !.cleanup = u])
                                            /\ NotCollected(W, [W EXCEPT !.cleanup = u])
      /\ [W EXCEPT !.claimed = TRUE].status = W.status /\ [W EXCEPT !.claimed = TRUE].claimed
      /\ NotCollected(W, [W EXCEPT !.claimed = TRUE])
  BY <1>a DEF NotCollected, Kept, Record
<1>d. AfterRun \in {"cleanup", "exit"}
  BY DEF AfterRun
<1>1. CASE WClaim
  <2>1. CASE MustNotStart(W) /\ Section("wrapper", "claim", W, "exit")
    BY <2>1, <1>b, <1>c
  <2>2. CASE ~MustNotStart(W) /\ Section("wrapper", "claim", [W EXCEPT !.claimed = TRUE], "wait")
    <3> DEFINE d == [W EXCEPT !.claimed = TRUE]
    <3>1. d.status = W.status /\ d.claimed /\ NotCollected(W, d)
      BY <1>c
    <3>2. Section("wrapper", "claim", d, "wait") /\ ~MustNotStart(W)
      BY <2>2
    <3> HIDE DEF d
    <3> QED
      BY <3>1, <3>2, <1>b
  <2> QED
    BY <1>1, <2>1, <2>2 DEF WClaim
<1>2. ASSUME NEW l \in {"gate", "record", "raise"}, NEW s,
             Section("wrapper", l, [W EXCEPT !.status = s], AfterRun),
             s = CASE l = "gate" -> "cancelled" [] l = "record" -> result [] OTHER -> "error"
      PROVE  /\ lock' = "free"
             /\ pc' = [pc EXCEPT !["wrapper"] = pc'["wrapper"]]
             /\ buf' = [buf EXCEPT !["wrapper"] = Absent]
             /\ UNCHANGED <<ctl, plist, sched, due, run>>
             /\ NotCollected(W, rec')
             /\ pc["wrapper"] = l /\ pc'["wrapper"] \in {"cleanup", "exit"}
             /\ rec'.status = s /\ rec'.claimed = W.claimed
  <2> DEFINE d == [W EXCEPT !.status = s]
  <2>1. d.status = s /\ d.claimed = W.claimed /\ NotCollected(W, d)
    BY <1>c
  <2>2. Section("wrapper", l, d, AfterRun)
    BY <1>2
  <2> HIDE DEF d
  <2> QED
    BY <2>1, <2>2, <1>b, <1>d
<1>3. CASE WGate
  <2>1. CASE Section("wrapper", "gate", [W EXCEPT !.status = "cancelled"], AfterRun)
    BY <2>1, <1>2
  <2>2. CASE Section("wrapper", "gate", [W EXCEPT !.status = "running"], "exec")
    <3> DEFINE d == [W EXCEPT !.status = "running"]
    <3>1. d.status = "running" /\ d.claimed = W.claimed /\ NotCollected(W, d)
      BY <1>c
    <3>2. Section("wrapper", "gate", d, "exec")
      BY <2>2
    <3> HIDE DEF d
    <3> QED
      BY <3>1, <3>2, <1>b
  <2> QED
    BY <1>3, <2>1, <2>2 DEF WGate
<1>6. CASE WRecord
  <2>1. CASE Section("wrapper", "record", [W EXCEPT !.status = result], AfterRun)
    BY <2>1, <1>2
  <2>2. CASE Section("wrapper", "raise", [W EXCEPT !.status = "error"], AfterRun)
    BY <2>2, <1>2
  <2> QED
    BY <1>6, <2>1, <2>2 DEF WRecord
<1>4. CASE WCleanup
  BY <1>4, <1>b, <1>c DEF WCleanup, WUnlink, WBootout, store
<1>5. CASE WWait \/ WExec \/ WNoStart \/ WStart \/ WEnd \/ WFinalize \/ WExit
  BY <1>5 DEF WWait, WExec, WNoStart, WStart, WEnd, WFinalize, WExit, store
<1> QED
  BY <1>1, <1>3, <1>4, <1>5, <1>6 DEF Wrapper

-----------------------------------------------------------------------------
(* Removal.  What a query has not found stays away, "collected" and        *)
(* "removed" are true, and a late writer brings back only an outcome.      *)

\* The queries of reconcile still hold when it acts on them, and prune removes
\* what is collected.
QueriesHold ==
    \A c \in Ctl :
        /\ gone[c] => timer = 0 /\ pc[c] \in {"lookservice", "settle", "fail"}
        /\ gone[c] /\ pc[c] = "settle" => svc = "none"
        /\ pc[c] = "remove" => Quiet /\ ~plist /\ (Exists => Terminal(rec))

\* Nothing is left of a collected or removed execution, but perhaps a copy
\* with its outcome.
NothingLeft ==
    /\ rec.cleanup = "collected" => Quiet /\ ~plist
    /\ ~Exists /\ pc["submit"] # "prepare" =>
          Quiet /\ ~plist /\ hist = "none" /\ (lock \in Proc => Terminal(buf[lock]))

\* The copy of the lock holder, spelled out.
LEMMA HolderCopy ==
    ASSUME BaseInv, Submitting, NothingLeft, lock \in Proc
    PROVE  /\ buf[lock] \in Record /\ buf[lock].status # "absent"
           /\ Exists => buf[lock] = rec
           /\ ~Exists => Quiet /\ ~plist /\ hist = "none" /\ Terminal(buf[lock])
           /\ lock = "wrapper" => pc["wrapper"] # "off" /\ W = rec /\ Exists
           /\ lock = "finish" => pc["finish"] # "off" /\ svc = "post" /\ F = rec /\ Exists
           /\ lock \in Ctl => pc["submit"] = "over"
<1> USE ProcFacts DEF BaseInv
<1>1. pc["submit"] # "prepare" /\ buf[lock] \in Record
  BY DEF Unprepared, TypeOK
<1>2. pc[lock] \in Locked \cup {"call"}
  BY DEF ClaimInv, LockInv
<1>3. ~Exists => Quiet /\ ~plist /\ hist = "none" /\ Terminal(buf[lock])
  BY <1>1 DEF NothingLeft
<1>4. lock = "wrapper" => pc["wrapper"] # "off" /\ svc # "none"
  BY <1>2 DEF Locked, SchedInv
<1>5. lock = "finish" => pc["finish"] # "off" /\ svc = "post"
  BY <1>2 DEF Locked, SchedInv
<1>6. lock \in Ctl => pc["submit"] = "over"
  BY <1>2 DEF Locked, Submitting
<1> QED
  BY <1>1, <1>3, <1>4, <1>5, <1>6 DEF LockFresh, Quiet, W, F

\* An outcome on record stays an outcome once the scheduler is quiet, also in
\* the copies that are still to be written.
LEMMA TerminalStays ==
    ASSUME Orderly, BaseInv, Submitting, NothingLeft, [Next]_vars,
           Quiet, Exists => Terminal(rec)
    PROVE  Exists' => Terminal(rec')
<1> USE ProcFacts DEF Goto, ctl, sched, run, store, Exists, Terminal
<1>a. ASSUME UNCHANGED rec PROVE Exists' => Terminal(rec')
  BY <1>a
<1>b. pc["wrapper"] = "off" /\ pc["finish"] = "off" /\ pc["submit"] = "over"
  BY DEF BaseInv, SchedInv, Quiet
<1>1. ASSUME NEW p \in Proc, Enter(p) PROVE UNCHANGED rec
  BY <1>1 DEF Enter
<1>2. ASSUME NEW p \in Owners, Missing(p) PROVE UNCHANGED rec
  BY <1>2 DEF Missing
<1>3. ~Submit
  BY <1>b DEF Submit, SubmitPrepare, SubmitPlist, SubmitCall, SubmitReturn, Holding
<1>4. CASE Scheduler
  BY <1>4, <1>a DEF Scheduler, Register, TimerFire, TimerElapse, Collect, DeadlinePasses
<1>5. ~Wrapper
  BY <1>b DEF Wrapper, WClaim, WWait, WGate, WExec, WRaise, WNoStart, WStart, WEnd, WFinalize,
              WRecord, WCleanup, WUnlink, WBootout, WExit, Section, Holding
<1>6. ~Finish
  BY <1>b DEF Finish, Section, FStopTimer, FExit, Holding
<1>7. ASSUME NEW c \in Ctl, NEW o \in Commands, CStart(c, o) PROVE UNCHANGED rec
  BY <1>7 DEF CStart
<1>8. ASSUME NEW c \in Ctl, Control(c) PROVE Exists' => Terminal(rec')
  <2>1. CASE CRequest(c) \/ CRescue(c) \/ CSettle(c) \/ CFail(c)
    <3>1. lock = c /\ (Kept(buf[c], rec') \/ WrittenOff(buf[c], rec'))
      BY <2>1, ControlCommits DEF BaseInv
    <3>2. Terminal(buf[c])
      BY <3>1, HolderCopy
    <3> QED
      BY <3>1, <3>2 DEF Kept, WrittenOff
  <2>2. CASE CRemove(c)
    BY <2>2 DEF CRemove, Absent, Prepared
  <2>3. CASE CCheck(c) \/ CStopTimer(c) \/ CStopService(c) \/ CAwait(c) \/ CLook(c) \/ CMissing(c)
             \/ CCandidates(c)
    BY <2>3, <1>a DEF CCheck, CStopTimer, CStopService, CAwait, CLook, CMissing, CCandidates
  <2> QED
    BY <1>8, <2>1, <2>2, <2>3 DEF Control
<1>9. CASE Fault \/ OrphanDies
  BY <1>9, <1>a DEF Fault, SubmitCrash, WCrash, FCrash, ManagerExit, OrphanDies
<1>10. CASE UNCHANGED vars
  BY <1>10, <1>a DEF vars
<1> QED
  BY <1>a, <1>1, <1>2, <1>3, <1>4, <1>5, <1>6, <1>7, <1>8, <1>9, <1>10 DEF Next, Over

\* Every step keeps what the queries said true.
LEMMA QueriesNext ==
    ASSUME Orderly, BaseInv, Submitting, NothingLeft, QueriesHold, [Next]_vars
    PROVE  QueriesHold'
<1> SUFFICES ASSUME NEW k \in Ctl
             PROVE  /\ gone'[k] => timer' = 0 /\ pc'[k] \in {"lookservice", "settle", "fail"}
                    /\ gone'[k] /\ pc'[k] = "settle" => svc' = "none"
                    /\ pc'[k] = "remove" => Quiet' /\ ~plist' /\ (Exists' => Terminal(rec'))
  BY DEF QueriesHold
<1> DEFINE G == /\ gone'[k] => timer' = 0 /\ pc'[k] \in {"lookservice", "settle", "fail"}
                /\ gone'[k] /\ pc'[k] = "settle" => svc' = "none"
                /\ pc'[k] = "remove" => Quiet' /\ ~plist' /\ (Exists' => Terminal(rec'))
<1> SUFFICES G
  OBVIOUS
<1> USE ProcFacts DEF Goto, ctl, sched, run, store
<1>h. /\ gone[k] => timer = 0 /\ pc[k] \in {"lookservice", "settle", "fail"}
      /\ gone[k] /\ pc[k] = "settle" => svc = "none"
      /\ pc[k] = "remove" => Quiet /\ ~plist /\ (Exists => Terminal(rec))
  BY DEF QueriesHold
<1>i. pc[k] # "idle" => pc["submit"] = "over"
  BY DEF Submitting
\* The queries that found nothing would find nothing now.
<1>j. /\ gone[k] => timer' = 0
      /\ gone[k] /\ pc[k] = "settle" => svc' = "none"
      /\ pc[k] = "remove" => Quiet' /\ ~plist' /\ (Exists' => Terminal(rec'))
  <2>1. timer = 0 /\ pc["submit"] = "over" => timer' = 0
    BY QuietStays
  <2>2. Quiet => Quiet'
    BY QuietStays
  <2>3. pc["submit"] = "over" /\ ~plist => ~plist'
    BY QuietStays
  <2>4. pc[k] = "remove" => (Exists' => Terminal(rec'))
    BY <1>h, TerminalStays
  <2> QED
    BY <1>h, <1>i, <2>1, <2>2, <2>3, <2>4 DEF Quiet
<1>k. ASSUME pc'[k] = pc[k], gone'[k] = gone[k] PROVE G
  BY <1>h, <1>j, <1>k
<1>1. ASSUME NEW p \in Proc, Enter(p) PROVE G
  BY <1>1, <1>k DEF Enter
<1>2. ASSUME NEW p \in Owners, Missing(p) PROVE G
  BY <1>2, <1>k DEF Missing, BaseInv, TypeOK, Owners
<1>3. CASE Submit \/ Scheduler
  BY <1>3, <1>k DEF Submit, SubmitPrepare, SubmitPlist, SubmitCall, SubmitReturn,
              Scheduler, Register, TimerFire, TimerElapse, Collect, DeadlinePasses, Activate,
              BaseInv, TypeOK
<1>4. CASE Wrapper
  BY <1>4, <1>k DEF Wrapper, WClaim, WWait, WGate, WExec, WRaise, WNoStart, WStart, WEnd, WFinalize,
              WRecord, WCleanup, WUnlink, WBootout, WExit, WrapperGone, Section, BaseInv, TypeOK
<1>5. CASE Finish
  BY <1>5, <1>k DEF Finish, Section, FStopTimer, FExit, BaseInv, TypeOK
<1>6. ASSUME NEW c \in Ctl, NEW o \in Commands, CStart(c, o) PROVE G
  <2>1. CASE c = k
    BY <1>6, <2>1, <1>h DEF CStart, BaseInv, TypeOK
  <2>2. CASE c # k
    BY <1>6, <2>2, <1>k DEF CStart, BaseInv, TypeOK
  <2> QED
    BY <2>1, <2>2
<1>7. ASSUME NEW c \in Ctl, Control(c) PROVE G
  <2>1. CASE c # k
    BY <1>7, <2>1, <1>k DEF Control, CRequest, CCheck, CRescue, Section, CStopTimer, CStopService,
         CAwait, CLook, CSettle, CFail, CMissing, Leave, CCandidates, CRemove, BaseInv, TypeOK
  <2>2. CASE c = k
    <3>1. CASE CRequest(k) \/ CRescue(k) \/ CSettle(k) \/ CFail(k)
      <4>1. gone'[k] => gone[k] /\ pc[k] \in {"request", "rescue"}
        BY <3>1, ControlCommits DEF BaseInv
      <4>2. pc'[k] # "remove"
        BY <3>1, ControlCommits DEF BaseInv
      <4> QED
        BY <4>1, <4>2, <1>h
    <3>2. CASE CCheck(k) \/ CStopTimer(k) \/ CStopService(k) \/ CAwait(k)
      BY <3>2, <1>h DEF CCheck, CStopTimer, CStopService, CAwait, Decide, BaseInv, TypeOK
    <3>3. CASE CLook(k)
      <4>1. UNCHANGED <<timer, svc>> /\ timer \in 0..2 /\ pc'[k] # "remove"
        BY <3>3 DEF CLook, BaseInv, TypeOK
      <4>2. CASE pc[k] = "looktimer" /\ gone' = [gone EXCEPT ![k] = ~TimerPresent] /\ Goto(k, "lookservice")
        <5>1. gone'[k] = (~TimerPresent) /\ pc'[k] = "lookservice"
          BY <4>2 DEF BaseInv, TypeOK
        <5> QED
          <6>1. ~TimerPresent => timer = 0
            BY <4>1 DEF TimerPresent
          <6>2. gone'[k] => ~TimerPresent
            BY <5>1, Zenon
          <6> QED
            BY <4>1, <5>1, <6>1, <6>2
      <4>3. CASE /\ pc[k] = "lookservice" /\ Goto(k, "settle")
                 /\ gone' = [gone EXCEPT ![k] = gone[k] /\ ~ServicePresent]
        <5>1. gone'[k] = (gone[k] /\ ~ServicePresent) /\ pc'[k] = "settle"
          BY <4>3 DEF BaseInv, TypeOK
        <5> QED
          BY <4>1, <4>3, <5>1, <1>h DEF ServicePresent
      <4>4. CASE Goto(k, "fail") /\ UNCHANGED gone
        BY <4>1, <4>4, <1>h DEF BaseInv, TypeOK
      <4> QED
        BY <3>3, <4>2, <4>3, <4>4 DEF CLook
    <3>4. CASE CMissing(k) \/ CRemove(k)
      BY <3>4, <1>h DEF CMissing, Leave, CRemove, BaseInv, TypeOK
    <3>5. CASE CCandidates(k)
      <4>1. Eligible => Quiet /\ ~plist /\ Terminal(rec)
        BY DEF Eligible, NothingLeft
      <4>2. Eligible => Quiet' /\ ~plist' /\ Terminal(rec')
        BY <3>5, <4>1, QuietStays DEF CCandidates, Quiet
      <4> QED
        BY <3>5, <4>2, <1>h DEF CCandidates, BaseInv, TypeOK
    <3> QED
      BY <1>7, <2>2, <3>1, <3>2, <3>3, <3>4, <3>5 DEF Control
  <2> QED
    BY <2>1, <2>2
<1>8. CASE Fault \/ OrphanDies
  BY <1>8, <1>k DEF Fault, SubmitCrash, WCrash, WrapperGone, FCrash, ManagerExit, OrphanDies,
                    BaseInv, TypeOK
<1>9. CASE UNCHANGED vars
  BY <1>9, <1>k DEF vars
<1> QED
  BY <1>1, <1>2, <1>3, <1>4, <1>5, <1>6, <1>7, <1>8, <1>9 DEF Next, Over

\* Every step leaves nothing behind.
LEMMA NothingLeftNext ==
    ASSUME Orderly, BaseInv, Submitting, NothingLeft, QueriesHold, [Next]_vars
    PROVE  NothingLeft'
<1> USE ProcFacts DEF Goto, ctl, sched, run, store
<1>q. /\ Quiet => Quiet'
      /\ Quiet /\ ~plist => ~plist'
  BY QuietStays DEF Quiet
\* A commit that says "collected" only if it is true.
<1>c. ASSUME rec'.status # "absent", rec'.cleanup = "collected" => Quiet' /\ ~plist'
      PROVE  NothingLeft'
  BY <1>c DEF NothingLeft, Exists
\* A step that leaves the record alone, and the copy in a locked block too.
<1>u. ASSUME UNCHANGED <<rec, hist>>, pc["submit"] = "prepare" => pc'["submit"] = "prepare",
             \A p \in Proc : ~Exists /\ lock' = p => lock = p /\ buf'[p] = buf[p]
      PROVE  NothingLeft'
  BY <1>u, <1>q DEF NothingLeft, Exists, Quiet
<1>1. ASSUME NEW p \in Proc, Enter(p) PROVE NothingLeft'
  BY <1>1, <1>u DEF Enter
<1>2. ASSUME NEW p \in Owners, Missing(p) PROVE NothingLeft'
  BY <1>2, <1>u DEF Missing, BaseInv, TypeOK, Owners, Locked
<1>3. CASE Submit
  <2>1. CASE SubmitPrepare
    BY <2>1, <1>c DEF SubmitPrepare, Prepared
  <2>2. CASE SubmitPlist \/ SubmitCall
    BY <2>2, <1>u DEF SubmitPlist, SubmitCall, Holding, BaseInv, TypeOK
  <2>3. ASSUME NEW ok \in BOOLEAN, SubmitReturn(ok) PROVE NothingLeft'
    <3>1. lock = "submit" /\ rec = Prepared /\ Exists
      BY <2>3 DEF SubmitReturn, Holding, Submitting, Prepared, Exists
    <3>2. buf["submit"] = Prepared
      BY <3>1 DEF BaseInv, LockFresh
    <3>3. rec'.status # "absent" /\ rec'.cleanup # "collected"
      BY <2>3, <3>2 DEF SubmitReturn, Commit, Prepared
    <3> QED
      BY <3>3, <1>c
  <2> QED
    BY <1>3, <2>1, <2>2, <2>3 DEF Submit
<1>4. CASE Scheduler
  BY <1>4, <1>u DEF Scheduler, Register, TimerFire, TimerElapse, Collect, DeadlinePasses, Activate,
                    BaseInv, TypeOK
<1>5. CASE Wrapper
  <2>1. Exists /\ pc["wrapper"] # "off"
    <3>1. pc["wrapper"] # "off"
      BY <1>5 DEF Wrapper, WClaim, WWait, WGate, WExec, WRaise, WNoStart, WStart, WEnd, WFinalize,
                  WRecord, WCleanup, WUnlink, WBootout, WExit, Section, Holding
    <3>2. ~Quiet /\ pc["submit"] # "prepare"
      BY <3>1 DEF BaseInv, SchedInv, Quiet
    <3> QED
      BY <3>1, <3>2 DEF NothingLeft
  <2>2. CASE lock = "wrapper" /\ lock' # "wrapper" /\ ~WRaise
    <3>1. NotCollected(W, rec') /\ W = rec /\ rec'.status # "absent"
      <4>1. W = rec
        BY <2>2, HolderCopy
      <4>2. result # "absent" /\ rec.status # "absent"
        BY <2>1 DEF BaseInv, TypeOK, TERMINAL, Finished, Exists
      <4> QED
        BY <1>5, <2>2, <4>1, <4>2, WrapperCommits DEF BaseInv, Kept
    <3>2. rec.cleanup # "collected"
      BY <2>1 DEF NothingLeft, BaseInv, SchedInv, Quiet
    <3> QED
      BY <3>1, <3>2, <1>c DEF NotCollected
  <2>3. CASE ~(lock = "wrapper" /\ lock' # "wrapper") \/ WRaise
    <3>1. UNCHANGED rec
      BY <1>5, <2>3 DEF Wrapper, WClaim, WWait, WGate, WExec, WRaise, WNoStart, WStart, WEnd,
           WFinalize, WRecord, WCleanup, WUnlink, WBootout, WExit, Section, Holding, Commit
    <3>2. rec.cleanup # "collected"
      BY <2>1 DEF NothingLeft, BaseInv, SchedInv, Quiet
    <3> QED
      BY <2>1, <3>1, <3>2, <1>c DEF Exists
  <2> QED
    BY <2>2, <2>3
<1>6. CASE Finish
  <2>1. CASE lock = "finish" /\ lock' # "finish"
    <3>1. F = rec /\ Exists /\ svc = "post"
      BY <2>1, HolderCopy
    <3>2. hist # "absent"
      BY DEF BaseInv, TypeOK, TERMINAL, Finished
    <3>3. NotCollected(F, rec') /\ (Kept(F, rec') \/ WrittenOff(F, rec'))
      BY <1>6, <2>1, FinishCommits DEF BaseInv, F
    <3>4. rec'.status # "absent"
      BY <3>1, <3>2, <3>3 DEF Kept, WrittenOff, Exists
    <3>5. rec.cleanup # "collected"
      BY <3>1 DEF NothingLeft, Quiet
    <3> QED
      BY <3>1, <3>3, <3>4, <3>5, <1>c DEF NotCollected
  <2>2. CASE ~(lock = "finish" /\ lock' # "finish")
    <3>1. CASE FExit \/ \E ok \in BOOLEAN : FStopTimer(ok)
      BY <3>1, <1>u DEF FExit, FStopTimer, BaseInv, TypeOK
    <3> QED
      BY <1>6, <2>2, <3>1 DEF Finish, Section, Holding, Commit
  <2> QED
    BY <2>1, <2>2
<1>7. ASSUME NEW c \in Ctl, NEW o \in Commands, CStart(c, o) PROVE NothingLeft'
  BY <1>7, <1>u DEF CStart, BaseInv, TypeOK
<1>8. ASSUME NEW c \in Ctl, Control(c) PROVE NothingLeft'
  <2>1. CASE CRequest(c) \/ CRescue(c) \/ CSettle(c) \/ CFail(c)
    <3> DEFINE b == buf[c]
    <3>1. /\ lock = c
          /\ Kept(b, rec') \/ WrittenOff(b, rec')
          /\ NotCollected(b, rec') \/ (pc[c] = "settle" /\ gone[c] /\ ~plist')
      BY <2>1, ControlCommits DEF BaseInv
    <3>2. /\ b.status # "absent" /\ pc["submit"] = "over"
          /\ b.cleanup = "collected" => Quiet /\ ~plist
      BY <3>1, HolderCopy DEF NothingLeft
    <3>3. pc[c] = "settle" /\ gone[c] => Quiet
      BY <3>2 DEF QueriesHold, Quiet
    <3>4. hist # "absent"
      BY DEF BaseInv, TypeOK, TERMINAL, Finished
    <3>5. rec'.status # "absent"
      BY <3>1, <3>2, <3>4 DEF Kept, WrittenOff
    <3>6. rec'.cleanup = "collected" => Quiet' /\ ~plist'
      BY <3>1, <3>2, <3>3, <1>q DEF NotCollected
    <3> QED
      BY <3>5, <3>6, <1>c
  <2>2. CASE CRemove(c)
    <3>1. Quiet /\ ~plist /\ (Exists => Terminal(rec))
      BY <2>2 DEF CRemove, QueriesHold
    <3>2. hist' = "none"
      BY <2>2, <3>1 DEF CRemove, NothingLeft, Quiet
    <3>3. lock \in Proc => Terminal(buf[lock])
      BY <3>1, HolderCopy
    <3> QED
      BY <2>2, <3>1, <3>2, <3>3, <1>q DEF CRemove, NothingLeft, Absent, Prepared
  <2>3. CASE CCheck(c) \/ CMissing(c)
    <3>1. lock # c
      BY <2>3 DEF CCheck, CMissing, BaseInv, ClaimInv, LockInv, Locked
    <3> QED
      BY <2>3, <3>1, <1>u DEF CCheck, CMissing, Leave, BaseInv, TypeOK
  <2>4. CASE CStopTimer(c) \/ CStopService(c) \/ CAwait(c) \/ CLook(c) \/ CCandidates(c)
    BY <2>4, <1>u DEF CStopTimer, CStopService, CAwait, CLook, CCandidates, BaseInv, TypeOK
  <2> QED
    BY <1>8, <2>1, <2>2, <2>3, <2>4 DEF Control
<1>9. CASE Fault
  <2>1. ASSUME NEW S, Drop(S) PROVE \A p \in Proc : lock' = p => lock = p /\ buf'[p] = buf[p]
    BY <2>1 DEF Drop
  <2>2. UNCHANGED <<rec, hist>> /\ \E S : Drop(S)
    BY <1>9 DEF Fault, SubmitCrash, WCrash, FCrash, ManagerExit
  <2>3. pc["submit"] # "prepare"
    BY <1>9 DEF Fault, SubmitCrash, WCrash, FCrash, ManagerExit, BaseInv, SchedInv
  <2> QED
    BY <2>1, <2>2, <2>3, <1>u
<1>10. CASE OrphanDies \/ UNCHANGED vars
  BY <1>10, <1>u DEF OrphanDies, vars
<1> QED
  BY <1>1, <1>2, <1>3, <1>4, <1>5, <1>6, <1>7, <1>8, <1>9, <1>10 DEF Next, Over

-----------------------------------------------------------------------------
(* The steps of the record.                                                *)

PastClaim == {"wait", "gate", "exec", "launch", "running", "finalize", "record"}

\* Between its claim and its last locked block the wrapper is alone with an
\* open, claimed record, and nobody is about to write the execution off.
ClaimRespected ==
    /\ pc["wrapper"] \in PastClaim => ~Terminal(rec) /\ rec.claimed
    /\ \A p \in Proc : buf[p].claimed => rec.claimed \/ Quiet
    /\ \A c \in Ctl : pc[c] = "rescue" =>
          pc["wrapper"] \notin PastClaim /\ (rec.claimed \/ Quiet)

\* The record exists, or is created, and has no outcome.
Opening ==
    ~Terminal(rec) /\ ~Terminal(rec') /\ Exists' /\ (Exists \/ pc["submit"] = "prepare")

\* The outcome is recorded: by reconcile or finish with the wrapper away, or by
\* the wrapper itself in its last locked block.
Settling ==
    /\ Exists /\ ~Terminal(rec)
    /\ \/ /\ pc["wrapper"] \notin PastClaim
          /\ rec'.status \in (IF HistoryTerminal THEN {hist} ELSE {"cancelled", "abandoned"})
       \/ pc["wrapper"] = "gate" /\ rec'.status = "cancelled"
       \/ pc["wrapper"] = "raise" /\ rec'.status = "error"
       \/ pc["wrapper"] = "record" /\ rec'.status = result
    /\ pc'["wrapper"] \notin PastClaim
    /\ UNCHANGED <<due, run>>

\* The wrapper's handler records its error over an outcome.
Failing ==
    /\ Exists /\ Terminal(rec)
    /\ pc["wrapper"] = "raise" /\ rec'.status = "error"
    /\ pc'["wrapper"] \notin PastClaim
    /\ UNCHANGED <<due, run>>

\* A late commit brings a removed record back, with the outcome it had.
WritingBack ==
    /\ ~Exists /\ Quiet
    /\ lock \in Proc /\ Terminal(buf[lock]) /\ rec'.status = buf[lock].status
    /\ UNCHANGED <<due, run>>

\* prune removes the record.
Removing ==
    /\ Quiet /\ (Exists => Terminal(rec))
    /\ rec' = Absent
    /\ UNCHANGED <<due, result, starts, alive>>

\* There are no other steps of the record; none of them takes back a claim
\* that still matters, and nobody's copy comes from elsewhere.
LEMMA RecordSteps ==
    ASSUME Orderly, BaseInv, Submitting, NothingLeft, QueriesHold, ClaimRespected, [Next]_vars
    PROVE  /\ rec'.status = rec.status \/ Opening \/ Settling \/ Failing \/ WritingBack \/ Removing
           /\ rec.claimed => rec'.claimed \/ Quiet'
           /\ \A p \in Proc : buf'[p] \in {buf[p], rec, rec', Absent}
<1> DEFINE G == /\ rec'.status = rec.status \/ Opening \/ Settling \/ Failing \/ WritingBack \/ Removing
                /\ rec.claimed => rec'.claimed \/ Quiet'
                /\ \A p \in Proc : buf'[p] \in {buf[p], rec, rec', Absent}
<1> SUFFICES G
  OBVIOUS
<1> USE ProcFacts DEF Goto, ctl, sched, run, store
<1>q. Quiet => Quiet'
  BY QuietStays
<1>u. ASSUME UNCHANGED rec, \A p \in Proc : buf'[p] \in {buf[p], rec, Absent} PROVE G
  BY <1>u
<1>v. ASSUME UNCHANGED store PROVE G
  BY <1>u, <1>v
\* A locked block that keeps status and claim, or writes off.
<1>w. ASSUME NEW p \in Proc, lock = p,
             Kept(buf[p], rec') \/ (WrittenOff(buf[p], rec') /\ pc["wrapper"] \notin PastClaim),
             pc["wrapper"] \notin PastClaim => pc'["wrapper"] \notin PastClaim,
             UNCHANGED <<due, run>>
      PROVE  /\ rec'.status = rec.status \/ Settling \/ WritingBack
             /\ rec.claimed => rec'.claimed \/ Quiet'
  <2>1. CASE Exists
    <3>1. buf[p] = rec
      BY <1>w, <2>1, HolderCopy
    <3> QED
      BY <1>w, <2>1, <3>1 DEF Kept, WrittenOff, Settling
  <2>2. CASE ~Exists
    <3>1. Quiet /\ Terminal(buf[p])
      BY <1>w, <2>2, HolderCopy
    <3> QED
      BY <1>w, <2>2, <3>1, <1>q DEF Kept, WrittenOff, WritingBack
  <2> QED
    BY <2>1, <2>2
<1>1. ASSUME NEW p \in Proc, Enter(p) PROVE G
  BY <1>1, <1>u DEF Enter, BaseInv, TypeOK
<1>2. ASSUME NEW p \in Owners, Missing(p) PROVE G
  BY <1>2, <1>v DEF Missing
<1>3. CASE Submit
  <2>1. CASE SubmitPrepare
    <3>1. rec = Absent /\ rec' = Prepared /\ UNCHANGED buf /\ pc["submit"] = "prepare"
      BY <2>1 DEF SubmitPrepare, BaseInv, Unprepared
    <3>2. Opening /\ ~rec.claimed
      BY <3>1 DEF Opening, Absent, Prepared, Terminal, TERMINAL, Finished, Exists
    <3> QED
      BY <3>1, <3>2
  <2>2. CASE SubmitPlist \/ SubmitCall
    BY <2>2, <1>v DEF SubmitPlist, SubmitCall
  <2>3. ASSUME NEW ok \in BOOLEAN, SubmitReturn(ok) PROVE G
    <3>1. lock = "submit" /\ rec = Prepared /\ Exists
      BY <2>3 DEF SubmitReturn, Holding, Submitting, Prepared, Exists
    <3>2. rec'.status \in {"scheduled", "submission-unknown"}
      BY <2>3 DEF SubmitReturn, Commit, BaseInv, TypeOK, Record
    <3>3. Opening /\ ~rec.claimed
      BY <3>1, <3>2 DEF Opening, Prepared, Terminal, TERMINAL, Finished, Exists
    <3>4. \A p \in Proc : buf'[p] \in {buf[p], Absent}
      BY <2>3 DEF SubmitReturn, Commit, BaseInv, TypeOK
    <3> QED
      BY <3>3, <3>4
  <2> QED
    BY <1>3, <2>1, <2>2, <2>3 DEF Submit
<1>4. CASE Scheduler
  BY <1>4, <1>v DEF Scheduler, Register, TimerFire, TimerElapse, Collect, DeadlinePasses
<1>5. CASE Wrapper
  <2>1. CASE lock = "wrapper" /\ lock' # "wrapper" /\ ~WRaise
    <3>1. W = rec /\ W = buf["wrapper"] /\ Exists
      BY <2>1, HolderCopy DEF W
    <3>2. \A p \in Proc : buf'[p] \in {buf[p], Absent}
      BY <1>5, <2>1, WrapperCommits DEF BaseInv, TypeOK
    <3>3. UNCHANGED <<due, run>>
      BY <1>5, <2>1, WrapperCommits DEF BaseInv
    <3>4. CASE pc'["wrapper"] \notin PastClaim /\ Kept(W, rec')
      BY <3>1, <3>2, <3>4 DEF Kept
    <3>5. CASE pc["wrapper"] = "claim" /\ ~MustNotStart(W) /\ rec'.status = W.status /\ rec'.claimed
      BY <3>1, <3>2, <3>5
    <3>6. CASE pc["wrapper"] = "gate" /\ rec'.status = "running" /\ rec'.claimed = W.claimed
      <4>1. Opening
        BY <3>1, <3>6 DEF Opening, ClaimRespected, PastClaim, Exists, Terminal, TERMINAL, Finished
      <4> QED
        BY <4>1, <3>1, <3>2, <3>6
    <3>7. CASE /\ pc["wrapper"] \in {"gate", "record", "raise"}
               /\ pc'["wrapper"] \in {"cleanup", "exit"}
               /\ rec'.status = CASE pc["wrapper"] = "gate" -> "cancelled"
                                  [] pc["wrapper"] = "record" -> result
                                  [] OTHER -> "error"
               /\ rec'.claimed = W.claimed
      <4>1. Settling \/ Failing
        BY <3>1, <3>3, <3>7 DEF Settling, Failing, ClaimRespected, PastClaim
      <4> QED
        BY <4>1, <3>1, <3>2, <3>7
    <3> QED
      BY <1>5, <2>1, <3>4, <3>5, <3>6, <3>7, WrapperCommits DEF BaseInv, PastClaim
  <2>2. CASE ~(lock = "wrapper" /\ lock' # "wrapper") /\ ~WRaise
    BY <1>5, <2>2, <1>v DEF Wrapper, WClaim, WWait, WGate, WExec, WNoStart, WStart, WEnd,
           WFinalize, WRecord, WCleanup, WUnlink, WBootout, WExit, Section, Holding, Commit
  <2>3. CASE WRaise
    BY <2>3, <1>u DEF WRaise, Drop
  <2> QED
    BY <2>1, <2>2, <2>3
<1>6. CASE Finish
  <2>1. CASE lock = "finish" /\ lock' # "finish"
    <3>1. pc["wrapper"] = "off"
      BY <2>1, HolderCopy DEF BaseInv, SchedInv
    <3>2. pc'["wrapper"] = "off" /\ \A p \in Proc : buf'[p] \in {buf[p], Absent}
      BY <1>6, <2>1, <3>1, FinishCommits DEF BaseInv, TypeOK
    <3>3. /\ Kept(buf["finish"], rec') \/ WrittenOff(buf["finish"], rec')
          /\ UNCHANGED <<due, run>>
      BY <1>6, <2>1, FinishCommits DEF BaseInv
    <3> QED
      BY <2>1, <3>1, <3>2, <3>3, <1>w DEF PastClaim
  <2>2. CASE ~(lock = "finish" /\ lock' # "finish")
    BY <1>6, <2>2, <1>v DEF Finish, Section, Holding, Commit, FExit, FStopTimer
  <2> QED
    BY <2>1, <2>2
<1>7. ASSUME NEW c \in Ctl, NEW o \in Commands, CStart(c, o) PROVE G
  BY <1>7, <1>u DEF CStart, BaseInv, TypeOK
<1>8. ASSUME NEW c \in Ctl, Control(c) PROVE G
  <2>1. CASE CRequest(c) \/ CRescue(c) \/ CSettle(c) \/ CFail(c)
    <3>1. /\ lock = c /\ UNCHANGED <<due, run>>
          /\ pc' = [pc EXCEPT ![c] = pc'[c]]
          /\ \A p \in Proc \ {c} : buf'[p] = buf[p]
          /\ buf'[c] \in {rec', Absent}
          /\ \/ Kept(buf[c], rec')
             \/ WrittenOff(buf[c], rec') /\ (pc[c] = "rescue" \/ (pc[c] = "settle" /\ gone[c]))
      BY <2>1, ControlCommits DEF BaseInv
    <3>2. pc[c] = "rescue" \/ (pc[c] = "settle" /\ gone[c]) => pc["wrapper"] \notin PastClaim
      BY DEF ClaimRespected, QueriesHold, BaseInv, SchedInv, PastClaim
    <3>3. pc'["wrapper"] = pc["wrapper"]
      BY <3>1 DEF BaseInv, TypeOK
    <3> QED
      BY <3>1, <3>2, <3>3, <1>w
  <2>2. CASE CRemove(c)
    <3>1. Quiet /\ (Exists => Terminal(rec)) /\ Quiet'
      BY <2>2, <1>q DEF CRemove, QueriesHold
    <3>2. Removing
      BY <2>2, <3>1 DEF CRemove, Removing
    <3> QED
      BY <2>2, <3>1, <3>2 DEF CRemove
  <2>3. CASE CCheck(c) \/ CMissing(c)
    BY <2>3, <1>u DEF CCheck, CMissing, Leave, BaseInv, TypeOK
  <2>4. CASE CStopTimer(c) \/ CStopService(c) \/ CAwait(c) \/ CLook(c) \/ CCandidates(c)
    BY <2>4, <1>v DEF CStopTimer, CStopService, CAwait, CLook, CCandidates
  <2> QED
    BY <1>8, <2>1, <2>2, <2>3, <2>4 DEF Control
<1>9. CASE Fault
  BY <1>9, <1>u DEF Fault, SubmitCrash, WCrash, FCrash, ManagerExit, Drop
<1>10. CASE OrphanDies \/ UNCHANGED vars
  BY <1>10, <1>v DEF OrphanDies, vars
<1> QED
  BY <1>1, <1>2, <1>3, <1>4, <1>5, <1>6, <1>7, <1>8, <1>9, <1>10 DEF Next, Over

-----------------------------------------------------------------------------
(* The steps of the wrapper.                                               *)

\* w goes from l to m and leaves history, outcome and workload alone.
Moves(l, m) == pc["wrapper"] = l /\ pc'["wrapper"] = m /\ UNCHANGED run

\* What a step may do to wrapper, history, outcome and workload.
WrapperStep ==
    \* nothing, but prune may take the history away
    \/ /\ pc'["wrapper"] = pc["wrapper"]
       /\ hist' = hist \/ Quiet
       /\ UNCHANGED <<result, starts, alive>>
    \* nothing, but what is left of the workload of an earlier one dies
    \/ /\ alive /\ ~alive' /\ pc["wrapper"] # "running"
       /\ UNCHANGED <<rec, pc, due, hist, result, starts>>
    \* it starts, or dies, perhaps with its workload
    \/ /\ pc["wrapper"] = "off" /\ pc'["wrapper"] = "claim"
       /\ UNCHANGED <<hist, result, starts, alive>>
    \/ /\ pc'["wrapper"] = "off"
       /\ result' = "none" /\ alive' = Orphans
       /\ UNCHANGED <<hist, starts>>
    \* it runs the execution
    \/ Moves("claim", "wait") /\ ~rec.claimed /\ ~Terminal(rec) /\ ~Terminal(rec') /\ rec'.claimed
    \/ Moves("wait", "gate") \/ Moves("gate", "exec")
    \/ /\ pc["wrapper"] \in {"claim", "gate", "exec", "launch", "running", "finalize", "record"}
       /\ pc'["wrapper"] = "raise"
       /\ result' = "none" /\ alive' = (alive /\ pc["wrapper"] # "running")
       /\ UNCHANGED <<due, rec, hist, starts>>
    \/ /\ pc["wrapper"] = "exec" /\ pc'["wrapper"] = "launch"
       /\ hist' = "running"
       /\ UNCHANGED <<result, starts, alive>>
    \/ /\ pc["wrapper"] = "launch" /\ pc'["wrapper"] = "finalize"
       /\ result' \in {"skipped", "error", "cancelled"}
       /\ UNCHANGED <<hist, starts, alive>>
    \/ /\ pc["wrapper"] = "launch" /\ pc'["wrapper"] = "running"
       /\ starts' = starts + 1 /\ alive'
       /\ UNCHANGED <<due, hist, result>>
    \/ /\ pc["wrapper"] = "running" /\ pc'["wrapper"] = "finalize"
       /\ result' \in {"ok", "failed", "timeout", "cancelled"}
       /\ alive' = FALSE
       /\ UNCHANGED <<due, hist, starts>>
    \/ /\ pc["wrapper"] = "finalize" /\ pc'["wrapper"] = "record"
       /\ hist' = result
       /\ UNCHANGED <<result, starts, alive>>
    \* it is through with it
    \/ \E l \in Labels \ {"off"}, m \in {"cleanup", "delegate", "bootout", "mark", "exit"} :
          Moves(l, m)

\* There are no other steps of the wrapper.
LEMMA WrapperSteps ==
    ASSUME Orderly, BaseInv, Submitting, NothingLeft, QueriesHold, [Next]_vars
    PROVE  WrapperStep
<1> USE ProcFacts DEF Goto, ctl, sched, run, store
<1>t. pc["wrapper"] \in Labels
  BY DEF BaseInv, TypeOK
<1>x. pc["wrapper"] # "running" => Orphans = alive
  <2>1. pc["wrapper"] # "running" /\ alive => Backend = "launchd"
    BY DEF BaseInv, SchedInv
  <2> QED
    BY <2>1, Zenon DEF Orphans, BaseInv, TypeOK
<1>u. ASSUME pc'["wrapper"] = pc["wrapper"], UNCHANGED <<hist, result, starts, alive>>
      PROVE  WrapperStep
  BY <1>u DEF WrapperStep
<1>e. ASSUME pc["wrapper"] # "off", pc'["wrapper"] \in {"cleanup", "delegate", "bootout", "mark", "exit"},
             UNCHANGED run
      PROVE  WrapperStep
  BY <1>e, <1>t DEF WrapperStep, Moves
<1>1. ASSUME NEW p \in Proc, Enter(p) PROVE WrapperStep
  BY <1>1, <1>u DEF Enter
<1>2. ASSUME NEW p \in Owners, Missing(p) PROVE WrapperStep
  <2>1. CASE p = "wrapper"
    BY <1>2, <2>1, <1>e DEF Missing, Locked, BaseInv, TypeOK
  <2>2. CASE p # "wrapper"
    BY <1>2, <2>2, <1>u DEF Missing, BaseInv, TypeOK
  <2> QED
    BY <2>1, <2>2
<1>3. CASE Submit
  BY <1>3, <1>u DEF Submit, SubmitPrepare, SubmitPlist, SubmitCall, SubmitReturn, BaseInv, TypeOK
<1>4. CASE Scheduler
  <2>1. CASE Register \/ TimerFire
    <3>1. pc["wrapper"] = "off"
      BY <2>1 DEF Register, TimerFire, BaseInv, SchedInv
    <3>2. pc'["wrapper"] \in {"off", "claim"} /\ UNCHANGED <<hist, result, starts, alive>>
      BY <2>1, <3>1 DEF Register, TimerFire, Activate, BaseInv, TypeOK
    <3> QED
      BY <3>1, <3>2 DEF WrapperStep
  <2> QED
    BY <1>4, <2>1, <1>u DEF Scheduler, TimerElapse, Collect, DeadlinePasses
<1>5. CASE Wrapper
  <2>1. CASE lock = "wrapper" /\ lock' # "wrapper" /\ ~WRaise
    <3>1. W = rec /\ UNCHANGED run
      BY <1>5, <2>1, HolderCopy, WrapperCommits DEF BaseInv
    <3>2. CASE pc'["wrapper"] = "wait"
      <4>1. pc["wrapper"] = "claim" /\ ~MustNotStart(W) /\ rec'.status = W.status /\ rec'.claimed
        BY <1>5, <2>1, <3>2, WrapperCommits DEF BaseInv
      <4> QED
        BY <3>1, <3>2, <4>1 DEF WrapperStep, Moves, MustNotStart, Terminal
    <3>3. CASE pc'["wrapper"] = "exec"
      <4>1. pc["wrapper"] = "gate"
        BY <1>5, <2>1, <3>3, WrapperCommits DEF BaseInv
      <4> QED
        BY <3>1, <3>3, <4>1 DEF WrapperStep, Moves
    <3>4. CASE pc'["wrapper"] \notin {"wait", "exec"}
      <4>1. pc'["wrapper"] \in {"cleanup", "bootout", "exit"} /\ pc["wrapper"] # "off"
        BY <1>5, <2>1, <3>4, WrapperCommits DEF BaseInv
      <4> QED
        BY <3>1, <4>1, <1>e
    <3> QED
      BY <3>2, <3>3, <3>4
  <2>2. CASE ~(lock = "wrapper" /\ lock' # "wrapper") /\ ~WRaise
    <3>1. ~WClaim /\ ~WGate /\ ~WRecord
      BY <2>2 DEF WClaim, WGate, WRecord, Section, Holding, Commit
    <3>2. WCleanup => WUnlink \/ WBootout
      BY <2>2 DEF WCleanup, Section, Holding, Commit
    <3>3. CASE WUnlink
      BY <3>3, <1>e DEF WUnlink, BaseInv, TypeOK
    <3>4. CASE WBootout
      <4>1. CASE pc'["wrapper"] = "mark"
        BY <3>4, <4>1, <1>e DEF WBootout, BaseInv, TypeOK
      <4>2. CASE pc'["wrapper"] # "mark"
        BY <3>4, <4>2, <1>x DEF WBootout, BaseInv, TypeOK, WrapperStep
      <4> QED
        BY <4>1, <4>2
    <3>5. CASE WWait \/ WExec \/ WFinalize \/ WExit
      BY <3>5, <1>x DEF WWait, WExec, WFinalize, WExit, WrapperGone, BaseInv, TypeOK,
                        WrapperStep, Moves
    <3>6. CASE WNoStart \/ WStart \/ WEnd
      BY <3>6 DEF WNoStart, WStart, WEnd, BaseInv, TypeOK, WrapperStep
    <3> QED
      BY <1>5, <2>2, <3>1, <3>2, <3>3, <3>4, <3>5, <3>6 DEF Wrapper
  <2>3. CASE WRaise
    <3>1. /\ pc'["wrapper"] = "raise" /\ result' = "none"
          /\ alive' = (alive /\ pc["wrapper"] # "running")
          /\ UNCHANGED <<due, rec, hist, starts>>
      BY <2>3, Zenon DEF WRaise, BaseInv, TypeOK
    <3>2. pc["wrapper"] \in {"claim", "gate", "exec", "launch", "running", "finalize", "record"}
      BY <2>3 DEF WRaise
    <3> QED
      BY <3>1, <3>2, Zenon DEF WrapperStep
  <2> QED
    BY <2>1, <2>2, <2>3
<1>6. CASE Finish
  BY <1>6, <1>u DEF Finish, Section, FStopTimer, FExit, BaseInv, TypeOK
<1>7. ASSUME NEW c \in Ctl, NEW o \in Commands, CStart(c, o) PROVE WrapperStep
  BY <1>7, <1>u DEF CStart, BaseInv, TypeOK
<1>8. ASSUME NEW c \in Ctl, Control(c) PROVE WrapperStep
  <2>1. CASE CRemove(c)
    <3>1. Quiet
      BY <2>1 DEF CRemove, QueriesHold
    <3> QED
      BY <2>1, <3>1 DEF CRemove, BaseInv, TypeOK, WrapperStep
  <2> QED
    BY <1>8, <2>1, <1>u DEF Control, CRequest, CCheck, CRescue, Section, CStopTimer, CStopService,
         CAwait, CLook, CSettle, CFail, CMissing, Leave, CCandidates, BaseInv, TypeOK
<1>9. CASE Fault
  <2>1. CASE SubmitCrash \/ FCrash
    BY <2>1, <1>u DEF SubmitCrash, FCrash, BaseInv, TypeOK
  <2>2. CASE WCrash
    BY <2>2 DEF WCrash, WrapperGone, BaseInv, TypeOK, WrapperStep
  <2>3. CASE ManagerExit
    <3>1. /\ pc'["wrapper"] = "off" /\ result' = "none" /\ alive' = Orphans
          /\ UNCHANGED <<hist, starts>>
      BY <2>3 DEF ManagerExit, BaseInv, TypeOK
    <3> QED
      BY <3>1 DEF WrapperStep
  <2> QED
    BY <1>9, <2>1, <2>2, <2>3 DEF Fault
<1>10. CASE UNCHANGED vars
  BY <1>10, <1>u DEF vars
<1>11. CASE OrphanDies
  BY <1>11 DEF OrphanDies, Doomed, WrapperStep
<1> QED
  BY <1>1, <1>2, <1>3, <1>4, <1>5, <1>6, <1>7, <1>8, <1>9, <1>10, <1>11 DEF Next, Over

\* Only reconcile's check leads to a rescue, and only past a service that is
\* down.
LEMMA RescueEntry ==
    ASSUME BaseInv, [Next]_vars, NEW c \in Ctl, pc'[c] = "rescue", pc[c] # "rescue"
    PROVE  CCheck(c) /\ Orphaned(buf[c]) /\ svc \in {"none", "idle"}
<1> USE ProcFacts DEF Goto, BaseInv, TypeOK
<1>1. ASSUME NEW p \in Proc PROVE ~Enter(p)
  BY DEF Enter
<1>2. ASSUME NEW p \in Owners PROVE ~Missing(p)
  BY DEF Missing, Owners
<1>3. ~Submit /\ ~Scheduler
  BY DEF Submit, SubmitPrepare, SubmitPlist, SubmitCall, SubmitReturn, Scheduler, Register,
         TimerFire, TimerElapse, Collect, DeadlinePasses, Activate
<1>4. ~Wrapper
  BY DEF Wrapper, WClaim, WWait, WGate, WExec, WRaise, WNoStart, WStart, WEnd, WFinalize,
         WRecord, WCleanup, WUnlink, WBootout, WExit, WrapperGone, Section
<1>5. ~Finish /\ ~Fault
  BY DEF Finish, Section, FStopTimer, FExit, Fault, SubmitCrash, WCrash, WrapperGone, FCrash,
         ManagerExit
<1>6. ASSUME NEW k \in Ctl, NEW o \in Commands PROVE ~CStart(k, o)
  BY DEF CStart
<1>7. ASSUME NEW k \in Ctl, Control(k) PROVE CCheck(c) /\ Orphaned(buf[c]) /\ svc \in {"none", "idle"}
  <2>1. k = c
    BY <1>7 DEF Control, CRequest, CCheck, CRescue, Section, CStopTimer, CStopService, CAwait, CLook,
                CSettle, CFail, CMissing, Leave, CCandidates, CRemove
  <2>2. CCheck(c)
    BY <1>7, <2>1 DEF Control, CRequest, CRescue, Section, CStopTimer, CStopService, CAwait, CLook,
                CSettle, CFail, CMissing, Leave, CCandidates, CRemove, Decide, Holding
  <2> QED
    BY <2>2 DEF CCheck, Decide
<1>8. ~OrphanDies /\ ~UNCHANGED vars
  BY DEF OrphanDies, vars
<1> QED
  BY <1>1, <1>2, <1>3, <1>4, <1>5, <1>6, <1>7, <1>8 DEF Next, Over

\* Once the wrapper is away a rescue finds it away: a claimed execution is not
\* claimed again.
LEMMA ClaimRespectedNext ==
    ASSUME Orderly, BaseInv, Submitting, NothingLeft, QueriesHold, ClaimRespected, [Next]_vars
    PROVE  ClaimRespected'
<1> USE ProcFacts
<1>q. Quiet => Quiet'
  BY QuietStays
<1>b. BaseInv'
  BY BaseNext
<1>w. Quiet' => pc'["wrapper"] \notin PastClaim
  BY <1>b DEF BaseInv, SchedInv, Quiet, PastClaim
<1>c. rec.claimed \/ Quiet => rec'.claimed \/ Quiet'
  BY <1>q, RecordSteps
<1>1. pc'["wrapper"] \in PastClaim => ~Terminal(rec') /\ rec'.claimed
  <2> SUFFICES ASSUME pc'["wrapper"] \in PastClaim PROVE ~Terminal(rec') /\ rec'.claimed
    OBVIOUS
  <2>1. CASE pc["wrapper"] \in PastClaim
    <3>1. ~Terminal(rec) /\ rec.claimed /\ ~Quiet
      BY <2>1, <1>q, <1>w DEF ClaimRespected
    <3>2. ~Settling /\ ~Failing /\ ~WritingBack /\ ~Removing
      BY <2>1, <3>1 DEF Settling, Failing, WritingBack, Removing
    <3>3. rec'.status = rec.status \/ Opening
      BY <3>2, RecordSteps
    <3> QED
      BY <3>1, <3>3, <1>c, <1>w DEF Opening, Terminal
  <2>2. CASE pc["wrapper"] \notin PastClaim
    BY <2>2, WrapperSteps DEF WrapperStep, Moves, PastClaim
  <2> QED
    BY <2>1, <2>2
<1>2. ASSUME NEW p \in Proc, buf'[p].claimed PROVE rec'.claimed \/ Quiet'
  <2>1. ~Absent.claimed
    BY DEF Absent, Prepared
  <2>2. buf'[p] \in {buf[p], rec, rec', Absent}
    BY RecordSteps
  <2> QED
    BY <1>2, <2>1, <2>2, <1>c DEF ClaimRespected
<1>3. ASSUME NEW c \in Ctl, pc'[c] = "rescue"
      PROVE  pc'["wrapper"] \notin PastClaim /\ (rec'.claimed \/ Quiet')
  <2>1. pc["wrapper"] \notin PastClaim /\ (rec.claimed \/ Quiet)
    <3>1. CASE pc[c] = "rescue"
      BY <3>1 DEF ClaimRespected
    <3>2. CASE pc[c] # "rescue"
      <4>1. CCheck(c) /\ Orphaned(buf[c]) /\ svc \in {"none", "idle"}
        BY <1>3, <3>2, RescueEntry
      <4> QED
        BY <4>1 DEF Orphaned, ClaimRespected, BaseInv, SchedInv, PastClaim
    <3> QED
      BY <3>1, <3>2
  <2>2. CASE Quiet
    BY <2>2, <1>q, <1>w
  <2>3. CASE ~Quiet
    BY <2>1, <2>3, <1>c, WrapperSteps DEF WrapperStep, Moves, PastClaim
  <2> QED
    BY <2>2, <2>3
<1> QED
  BY <1>1, <1>2, <1>3 DEF ClaimRespected

-----------------------------------------------------------------------------
(* Outcomes.                                                               *)

\* Only prune takes a history away, together with the record.
LEMMA HistoryRemoved ==
    ASSUME BaseInv, [Next]_vars, Quiet
    PROVE  rec' = Absent \/ hist' = hist
<1> USE ProcFacts DEF run
<1>b. pc["wrapper"] = "off"
  BY DEF BaseInv, SchedInv, Quiet
<1>1. ASSUME NEW p \in Proc, Enter(p) PROVE hist' = hist
  BY <1>1 DEF Enter
<1>2. ASSUME NEW p \in Owners, Missing(p) PROVE hist' = hist
  BY <1>2 DEF Missing
<1>3. Submit \/ Scheduler \/ Finish \/ Fault \/ OrphanDies => hist' = hist
  BY DEF OrphanDies, Submit, SubmitPrepare, SubmitPlist, SubmitCall, SubmitReturn, Scheduler, Register,
         TimerFire, TimerElapse, Collect, DeadlinePasses, Finish, Section, FStopTimer, FExit,
         Fault, SubmitCrash, WCrash, FCrash, ManagerExit
<1>4. ~Wrapper
  BY <1>b DEF Wrapper, WClaim, WWait, WGate, WExec, WRaise, WNoStart, WStart, WEnd, WFinalize,
         WRecord, WCleanup, WUnlink, WBootout, WExit, Section, Holding
<1>5. ASSUME NEW c \in Ctl, NEW o \in Commands, CStart(c, o) PROVE hist' = hist
  BY <1>5 DEF CStart
<1>6. ASSUME NEW c \in Ctl, Control(c) PROVE rec' = Absent \/ hist' = hist
  BY <1>6 DEF Control, CRequest, CCheck, CRescue, Section, CStopTimer, CStopService, CAwait, CLook,
              CSettle, CFail, CMissing, CCandidates, CRemove
<1>7. UNCHANGED vars => hist' = hist
  BY DEF vars
<1> QED
  BY <1>1, <1>2, <1>3, <1>4, <1>5, <1>6, <1>7 DEF Next, Over

\* Record and history agree on the outcome, but for an error of the wrapper's
\* own, and until the wrapper has
\* finalized the run there is none in the history.
Agreement ==
    /\ Terminal(rec) /\ HistoryTerminal => rec.status \in {hist, "error"}
    /\ pc["wrapper"] \in PastClaim \ {"record"} => ~HistoryTerminal
    /\ pc["wrapper"] = "record" => hist = result
    /\ hist # "none" => rec.claimed \/ Quiet

\* Every step keeps them in agreement.
LEMMA AgreementNext ==
    ASSUME Orderly, BaseInv, Submitting, NothingLeft, QueriesHold, ClaimRespected, Agreement,
           [Next]_vars
    PROVE  Agreement'
<1> USE ProcFacts
<1>q. Quiet => Quiet' /\ pc["wrapper"] = "off" /\ pc'["wrapper"] = "off"
  <2>1. BaseInv'
    BY BaseNext
  <2> QED
    BY <2>1, QuietStays DEF BaseInv, SchedInv, Quiet
<1>c. rec.claimed \/ Quiet => rec'.claimed \/ Quiet'
  BY <1>q, RecordSteps
<1>s. WrapperStep
  BY WrapperSteps
<1>n. "none" \notin TERMINAL /\ "running" \notin TERMINAL
  BY DEF TERMINAL, Finished
\* What the history may turn into.
<1>h. \/ hist' = hist
      \/ hist' = "running" /\ pc["wrapper"] \in PastClaim
      \/ pc["wrapper"] = "finalize" /\ pc'["wrapper"] = "record" /\ hist' = result /\ UNCHANGED result
      \/ Quiet
  BY <1>s DEF WrapperStep, Moves, run, PastClaim
<1>1. Terminal(rec') /\ HistoryTerminal' => rec'.status \in {hist', "error"}
  <2> SUFFICES ASSUME Terminal(rec'), HistoryTerminal' PROVE rec'.status \in {hist', "error"}
    OBVIOUS
  <2>1. CASE rec'.status = rec.status
    <3>1. Terminal(rec) /\ pc["wrapper"] \notin PastClaim
      BY <2>1 DEF Terminal, ClaimRespected
    <3>2. hist' = hist \/ Quiet
      BY <3>1, <1>h DEF PastClaim
    <3>3. CASE hist' = hist
      BY <2>1, <3>1, <3>3 DEF Agreement, HistoryTerminal
    <3>4. CASE hist' # hist
      <4>1. rec' = Absent \/ hist' = hist
        BY <3>2, <3>4, HistoryRemoved
      <4> QED
        BY <3>4, <4>1 DEF Absent, Prepared, Terminal, TERMINAL, Finished
    <3> QED
      BY <3>3, <3>4
  <2>2. CASE Settling
    BY <2>2, <1>n DEF Settling, run, Agreement, HistoryTerminal, PastClaim
  <2>5. CASE Failing
    BY <2>5 DEF Failing
  <2>3. CASE WritingBack
    <3>1. hist' = "none"
      BY <2>3 DEF WritingBack, run, NothingLeft, Quiet
    <3> QED
      BY <3>1, <1>n DEF HistoryTerminal
  <2>4. CASE Opening \/ Removing
    BY <2>4 DEF Opening, Removing, Absent, Prepared, Terminal, TERMINAL, Finished
  <2> QED
    BY <2>1, <2>2, <2>3, <2>4, <2>5, RecordSteps
<1>2. ASSUME pc'["wrapper"] \in PastClaim \ {"record"} PROVE ~HistoryTerminal'
  <2>1. CASE pc["wrapper"] \in PastClaim \ {"record"}
    BY <1>2, <2>1, <1>h, <1>q, <1>n DEF Agreement, HistoryTerminal, PastClaim
  <2>2. CASE pc["wrapper"] \notin PastClaim \ {"record"}
    <3>1. pc["wrapper"] = "claim" /\ ~rec.claimed /\ UNCHANGED hist
      BY <1>2, <2>2, <1>s DEF WrapperStep, Moves, run, PastClaim
    <3>2. hist = "none"
      BY <3>1, <1>q DEF Agreement
    <3> QED
      BY <3>1, <3>2, <1>n DEF HistoryTerminal
  <2> QED
    BY <2>1, <2>2
<1>3. ASSUME pc'["wrapper"] = "record" PROVE hist' = result'
  <2>1. CASE pc["wrapper"] = "record"
    BY <1>3, <2>1, <1>s, <1>q DEF WrapperStep, Moves, Agreement
  <2>2. CASE pc["wrapper"] # "record"
    BY <1>3, <2>2, <1>s DEF WrapperStep, Moves
  <2> QED
    BY <2>1, <2>2
<1>4. ASSUME hist' # "none" PROVE rec'.claimed \/ Quiet'
  <2>1. pc["wrapper"] \in PastClaim => rec.claimed
    BY DEF ClaimRespected
  <2> QED
    BY <1>4, <2>1, <1>h, <1>c DEF Agreement, PastClaim
<1> QED
  BY <1>1, <1>2, <1>3, <1>4 DEF Agreement

\* Outcome s is possible after what has been started.
Likely(s) == (s \in {"ok", "failed", "timeout"} => starts > 0) /\ (s = "skipped" => starts = 0)

\* Every recorded or pending outcome is true to the start of the workload.
OutcomeTrue ==
    /\ Likely(rec.status) /\ Likely(hist) /\ Likely(result)
    /\ lock \in Proc => Likely(buf[lock].status)
    /\ pc["wrapper"] \in {"off", "claim", "wait", "gate", "exec", "launch", "running"} =>
          result = "none"
    /\ pc["wrapper"] = "running" => starts > 0

\* A copy in a locked block outlives the removal of the record unchanged.
LEMMA CopyOutlives ==
    ASSUME BaseInv, [Next]_vars, lock' \in Proc, ~Exists'
    PROVE  lock' = lock /\ buf'[lock'] = buf[lock]
<1> USE ProcFacts DEF store
<1> DEFINE G == lock' = lock /\ buf'[lock'] = buf[lock]
<1>1. ASSUME NEW p \in Proc, Enter(p) PROVE G
  BY <1>1 DEF Enter, Exists
<1>2. ASSUME NEW p \in Owners, Missing(p) PROVE G
  BY <1>2 DEF Missing
<1>3. Submit => G
  BY DEF Submit, SubmitPrepare, SubmitPlist, SubmitCall, SubmitReturn, Commit
<1>4. Scheduler => G
  BY DEF Scheduler, Register, TimerFire, TimerElapse, Collect, DeadlinePasses
<1>5. Wrapper => G
  BY DEF Wrapper, WClaim, WWait, WGate, WExec, WRaise, WNoStart, WStart, WEnd, WFinalize,
         WRecord, WCleanup, WUnlink, WBootout, WExit, Section, Commit, Drop
<1>6. Finish => G
  BY DEF Finish, Section, Commit, FStopTimer, FExit
<1>7. ASSUME NEW c \in Ctl, NEW o \in Commands, CStart(c, o) PROVE G
  BY <1>7 DEF CStart, Exists
<1>8. ASSUME NEW c \in Ctl, Control(c) PROVE G
  <2>1. CASE CRequest(c) \/ CRescue(c) \/ CSettle(c) \/ CFail(c)
    BY <2>1 DEF CRequest, CRescue, CSettle, CFail, Section, Commit
  <2>2. CASE CCheck(c) \/ CMissing(c)
    <3>1. lock # c
      BY <2>2 DEF CCheck, CMissing, BaseInv, ClaimInv, LockInv, Locked
    <3> QED
      BY <2>2, <3>1 DEF CCheck, CMissing, BaseInv, TypeOK
  <2>3. CASE CStopTimer(c) \/ CStopService(c) \/ CAwait(c) \/ CLook(c) \/ CCandidates(c) \/ CRemove(c)
    BY <2>3 DEF CStopTimer, CStopService, CAwait, CLook, CCandidates, CRemove
  <2> QED
    BY <1>8, <2>1, <2>2, <2>3 DEF Control
<1>9. Fault => G
  BY DEF Fault, SubmitCrash, WCrash, FCrash, ManagerExit, Drop
<1>10. OrphanDies \/ UNCHANGED vars => G
  BY DEF OrphanDies, vars
<1> QED
  BY <1>1, <1>2, <1>3, <1>4, <1>5, <1>6, <1>7, <1>8, <1>9, <1>10 DEF Next, Over

\* Every step keeps the outcomes true.
LEMMA OutcomeTrueNext ==
    ASSUME Orderly, BaseInv, Submitting, NothingLeft, QueriesHold, ClaimRespected, Agreement,
           OutcomeTrue, [Next]_vars
    PROVE  OutcomeTrue'
<1> USE ProcFacts
<1>t. starts \in Nat
  BY DEF BaseInv, TypeOK
<1>s. WrapperStep
  BY WrapperSteps
<1>b. BaseInv' /\ NothingLeft'
  BY BaseNext, NothingLeftNext
<1>1. CASE starts' # starts
  <2>1. /\ pc["wrapper"] = "launch" /\ pc'["wrapper"] = "running"
        /\ starts' = starts + 1 /\ UNCHANGED <<hist, result>>
    BY <1>1, <1>s DEF WrapperStep, Moves, run
  <2>2. ~HistoryTerminal /\ result = "none"
    BY <2>1 DEF Agreement, PastClaim, OutcomeTrue
  <2>3. ~Terminal(rec')
    BY <2>1, ClaimRespectedNext DEF ClaimRespected, PastClaim
  <2>4. Exists'
    BY <2>1, <1>b DEF BaseInv, NothingLeft, SchedInv, Quiet
  <2>5. lock' \in Proc => buf'[lock'] = rec'
    BY <2>4, <1>b DEF BaseInv, LockFresh
  <2>6. starts' > 0
    BY <2>1, <1>t
  <2> QED
    BY <2>1, <2>2, <2>3, <2>5, <2>6 DEF OutcomeTrue, Likely, HistoryTerminal, Terminal, TERMINAL, Finished
<1>2. CASE starts' = starts
  <2>a. \A s : Likely(s)' <=> Likely(s)
    BY <1>2 DEF Likely
  <2>b. \A s \in {"none", "running", "cancelled", "abandoned", "error", "absent"} : Likely(s)
    BY DEF Likely
  <2>c. pc["wrapper"] = "launch" => Likely("skipped")
    BY DEF Likely, BaseInv, ClaimInv, StartOnce, BeforeStart
  <2>d. pc["wrapper"] = "running" => \A s \in {"ok", "failed", "timeout"} : Likely(s)
    BY DEF Likely, OutcomeTrue
  <2>1. Likely(result')
    BY <1>s, <2>b, <2>c, <2>d DEF WrapperStep, Moves, run, OutcomeTrue
  <2>2. Likely(hist')
    <3>1. CASE hist' \in {hist, result, "running"}
      BY <3>1, <2>b DEF OutcomeTrue
    <3>2. CASE hist' \notin {hist, result, "running"}
      <4>1. Quiet
        BY <3>2, <1>s DEF WrapperStep, Moves, run
      <4>2. rec' = Absent
        BY <3>2, <4>1, HistoryRemoved
      <4>3. hist' = "none"
        BY <4>1, <4>2, <1>b, QuietStays DEF NothingLeft, Absent, Prepared, Exists, Quiet
      <4> QED
        BY <4>3, <2>b
    <3> QED
      BY <3>1, <3>2
  <2>3. Likely(rec'.status)
    <3>1. CASE rec'.status = rec.status
      BY <3>1 DEF OutcomeTrue
    <3>2. CASE Opening
      BY <3>2 DEF Opening, Likely, Terminal, TERMINAL, Finished
    <3>3. CASE Settling
      BY <3>3, <2>b DEF Settling, OutcomeTrue
    <3>6. CASE Failing
      BY <3>6, <2>b DEF Failing
    <3>4. CASE WritingBack
      BY <3>4 DEF WritingBack, OutcomeTrue
    <3>5. CASE Removing
      BY <3>5, <2>b DEF Removing, Absent, Prepared
    <3> QED
      BY <3>1, <3>2, <3>3, <3>4, <3>5, <3>6, RecordSteps
  <2>4. ASSUME lock' \in Proc PROVE Likely(buf'[lock'].status)
    <3>1. CASE Exists'
      BY <2>4, <3>1, <2>3, <1>b DEF BaseInv, LockFresh
    <3>2. CASE ~Exists'
      BY <2>4, <3>2, CopyOutlives DEF OutcomeTrue
    <3> QED
      BY <3>1, <3>2
  <2>5. pc'["wrapper"] \in {"off", "claim", "wait", "gate", "exec", "launch", "running"} =>
          result' = "none"
    BY <1>s DEF WrapperStep, Moves, run, OutcomeTrue
  <2>6. pc'["wrapper"] = "running" => starts' > 0
    BY <1>2, <1>t, <1>s DEF WrapperStep, Moves, OutcomeTrue
  <2> QED
    BY <2>a, <2>1, <2>2, <2>3, <2>4, <2>5, <2>6 DEF OutcomeTrue
<1> QED
  BY <1>1, <1>2

-----------------------------------------------------------------------------
(* The theorems about orderly submissions.                                 *)

OrderlyInv ==
    BaseInv /\ Submitting /\ NothingLeft /\ QueriesHold /\ ClaimRespected /\ Agreement /\ OutcomeTrue

\* The inductive invariant of an orderly submission holds initially.
LEMMA OrderlyInit == Init => OrderlyInv
<1> SUFFICES ASSUME Init PROVE OrderlyInv
  OBVIOUS
<1> USE ProcFacts DEF Init
<1>1. Submitting
  BY DEF Submitting
<1>2. NothingLeft /\ QueriesHold
  BY DEF NothingLeft, QueriesHold, Absent, Prepared
<1>3. ClaimRespected /\ Agreement
  BY DEF ClaimRespected, Agreement, PastClaim, HistoryTerminal, TERMINAL, Finished, Absent, Prepared
<1>4. OutcomeTrue
  BY DEF OutcomeTrue, Likely, Absent, Prepared
<1> QED
  BY <1>1, <1>2, <1>3, <1>4, BaseInit DEF OrderlyInv

\* Every step keeps it.
LEMMA OrderlyNext == ASSUME Orderly, OrderlyInv, [Next]_vars PROVE OrderlyInv'
BY BaseNext, SubmittingNext, NothingLeftNext, QueriesNext, ClaimRespectedNext, AgreementNext,
   OutcomeTrueNext DEF OrderlyInv

\* Once a terminal status is on record the workload neither runs nor is about
\* to: what reconcile and finish write off is over, for every number of
\* operators, every backend and all faults.
THEOREM WrittenOffIsOver == ASSUME Orderly PROVE Spec => []TerminalMeansOver
<1>1. Init => OrderlyInv
  BY OrderlyInit
<1>2. OrderlyInv /\ [Next]_vars => OrderlyInv'
  BY OrderlyNext
<1>3. OrderlyInv => TerminalMeansOver
  BY DEF OrderlyInv, BaseInv, SchedInv, ClaimRespected, PastClaim, TerminalMeansOver, Running,
         Doomed
<1> QED
  BY <1>1, <1>2, <1>3, PTL DEF Spec

\* A record that says `collected' has nothing left in the scheduler and no
\* plist: what reconcile's queries did not find does not come back.
THEOREM CollectedIsGone == ASSUME Orderly PROVE Spec => []CollectedMeansGone
<1>1. Init => OrderlyInv
  BY OrderlyInit
<1>2. OrderlyInv /\ [Next]_vars => OrderlyInv'
  BY OrderlyNext
<1>3. OrderlyInv => CollectedMeansGone
  BY DEF OrderlyInv, NothingLeft, Quiet, CollectedMeansGone
<1> QED
  BY <1>1, <1>2, <1>3, PTL DEF Spec

\* An outcome that reached the run history is the one on record once the
\* wrapper is gone, whoever recovered it and whatever crashed.
THEOREM HistoryOutcomeKept == ASSUME Orderly PROVE Spec => []OutcomeKept
<1>1. Init => OrderlyInv
  BY OrderlyInit
<1>2. OrderlyInv /\ [Next]_vars => OrderlyInv'
  BY OrderlyNext
<1>3. OrderlyInv => OutcomeKept
  BY DEF OrderlyInv, Agreement, OutcomeKept
<1> QED
  BY <1>1, <1>2, <1>3, PTL DEF Spec

\* A removal of the record finds the scheduler empty.
LEMMA RemovalIsQuiet ==
    ASSUME Orderly, OrderlyInv, [Next]_vars, Exists, rec'.status = "absent"
    PROVE  Quiet
<1> USE DEF OrderlyInv
<1>1. "absent" \notin TERMINAL
  BY DEF TERMINAL, Finished
<1>2. ~Settling
  BY <1>1 DEF Settling, HistoryTerminal, BaseInv, ResultReady
<1>3. rec'.status # rec.status /\ ~Opening /\ ~Failing /\ ~WritingBack
  BY DEF Exists, Opening, Failing, WritingBack
<1>4. Removing
  BY <1>2, <1>3, RecordSteps
<1> QED
  BY <1>4 DEF Removing

\* prune removes nothing that the scheduler, a wrapper or a hook still holds,
\* although its rmtree takes no lock.
THEOREM PrunedIsDead == ASSUME Orderly PROVE Spec => PruneRemovesDead
<1>1. Init => OrderlyInv
  BY OrderlyInit
<1>2. OrderlyInv /\ [Next]_vars => OrderlyInv'
  BY OrderlyNext
<1>3. OrderlyInv /\ [Next]_vars =>
        [Exists /\ rec'.status = "absent" =>
          timer = 0 /\ svc = "none" /\ pc["wrapper"] = "off" /\ pc["finish"] = "off"]_vars
  <2> SUFFICES ASSUME OrderlyInv, [Next]_vars, Exists, rec'.status = "absent"
               PROVE  timer = 0 /\ svc = "none" /\ pc["wrapper"] = "off" /\ pc["finish"] = "off"
    OBVIOUS
  <2>1. Quiet
    BY RemovalIsQuiet
  <2> QED
    BY <2>1 DEF Quiet, OrderlyInv, BaseInv, SchedInv
<1> QED
  BY <1>1, <1>2, <1>3, PTL DEF Spec, PruneRemovesDead

-----------------------------------------------------------------------------
(* The refinement.                                                         *)

\* Only the clock changes due, and changes nothing else.
LEMMA ClockSteps == ASSUME TypeOK, [Next]_vars PROVE due' = due \/ DeadlinePasses
<1>1. ASSUME NEW p \in Proc, Enter(p) PROVE due' = due
  BY <1>1 DEF Enter
<1>2. ASSUME NEW p \in Owners, Missing(p) PROVE due' = due
  BY <1>2 DEF Missing
<1>3. Submit \/ Scheduler \/ Finish \/ Fault \/ OrphanDies => due' = due \/ DeadlinePasses
  BY DEF OrphanDies, Submit, SubmitPrepare, SubmitPlist, SubmitCall, SubmitReturn, Scheduler, Register,
         TimerFire, TimerElapse, Collect, Finish, Section, FStopTimer, FExit,
         Fault, SubmitCrash, WCrash, FCrash, ManagerExit
<1>4. Wrapper => due' = due
  BY DEF Wrapper, WClaim, WWait, WGate, WExec, WRaise, WNoStart, WStart, WEnd, WFinalize,
         WRecord, WCleanup, WUnlink, WBootout, WExit, Section
<1>5. ASSUME NEW c \in Ctl, NEW o \in Commands, CStart(c, o) PROVE due' = due
  BY <1>5 DEF CStart
<1>6. ASSUME NEW c \in Ctl, Control(c) PROVE due' = due
  BY <1>6 DEF Control, CRequest, CCheck, CRescue, Section, CStopTimer, CStopService, CAwait, CLook,
              CSettle, CFail, CMissing, CCandidates, CRemove
<1>7. UNCHANGED vars => due' = due
  BY DEF vars
<1> QED
  BY <1>1, <1>2, <1>3, <1>4, <1>5, <1>6, <1>7 DEF Next, Over

\* What the mapped outcome does when the record takes a step.
LEMMA OutcomeSteps ==
    ASSUME Orderly, OrderlyInv, [Next]_vars
    PROVE  \/ UNCHANGED MappedOutcome
           \/ /\ MappedOutcome = "none" /\ MappedOutcome' \in TERMINAL
              /\ Settling /\ MappedAlive # "yes"
           \/ /\ MappedOutcome \in TERMINAL /\ MappedOutcome' = "error"
              /\ Failing
           \/ /\ MappedOutcome = "forgotten" /\ MappedOutcome' \in TERMINAL
              /\ WritingBack
           \/ /\ MappedOutcome # "none" /\ MappedOutcome' = "forgotten"
              /\ Removing
<1> USE DEF OrderlyInv
<1>n. "none" \notin TERMINAL /\ "forgotten" \notin TERMINAL /\ "absent" \notin TERMINAL
  BY DEF TERMINAL, Finished
<1>o. ~Exists /\ pc["submit"] # "prepare" => Quiet /\ Quiet' /\ pc'["submit"] = "over"
  BY QuietStays DEF NothingLeft, Quiet
<1>1. CASE rec'.status = rec.status
  <2>1. CASE pc["submit"] = "prepare"
    <3>1. rec = Absent
      BY <2>1 DEF BaseInv, Unprepared
    <3>2. pc'["submit"] = "prepare"
      <4>1. ~SubmitPrepare
        BY <1>1, <3>1 DEF SubmitPrepare, Absent, Prepared
      <4>2. CASE DeadlinePasses \/ UNCHANGED vars
        BY <2>1, <4>2 DEF DeadlinePasses, vars
      <4> QED
        BY <2>1, <4>1, <4>2, FirstStep DEF BaseInv
    <3> QED
      BY <1>1, <2>1, <3>2 DEF MappedOutcome, Exists, Terminal
  <2>2. CASE pc["submit"] # "prepare"
    BY <1>1, <2>2, <1>o DEF MappedOutcome, Exists, Terminal
  <2> QED
    BY <2>1, <2>2
<1>2. CASE Opening
  BY <1>2 DEF Opening, MappedOutcome
<1>3. CASE Settling
  <2>1. MappedOutcome = "none"
    BY <1>3 DEF Settling, MappedOutcome
  <2>2. Terminal(rec')
    BY <1>3 DEF Settling, Terminal, HistoryTerminal, BaseInv, ResultReady, TERMINAL, Finished
  <2>3. pc["wrapper"] # "running"
    BY <1>3 DEF Settling, PastClaim
  <2>4. MappedAlive # "yes"
    BY <2>3 DEF MappedAlive, Doomed, BaseInv, SchedInv
  <2> QED
    BY <1>3, <2>1, <2>2, <2>4 DEF MappedOutcome, Terminal
<1>6. CASE Failing
  BY <1>6 DEF Failing, MappedOutcome, Terminal, TERMINAL, Finished
<1>4. CASE WritingBack
  BY <1>4, <1>n DEF WritingBack, MappedOutcome, Terminal, Exists, Quiet
<1>5. CASE Removing
  <2>1. MappedOutcome # "none"
    BY <1>5, <1>n DEF Removing, MappedOutcome, Terminal, Quiet
  <2>2. MappedOutcome' = "forgotten"
    BY <1>5, <1>n, QuietStays DEF Removing, MappedOutcome, Terminal, Quiet, Exists, Absent, Prepared
  <2> QED
    BY <1>5, <2>1, <2>2 DEF Removing
<1> QED
  BY <1>1, <1>2, <1>3, <1>4, <1>5, <1>6, RecordSteps

\* A workload that is about to run or runs has no outcome yet, before the step
\* and after it.
LEMMA NoOutcomeYet ==
    ASSUME Orderly, OrderlyInv, [Next]_vars, pc["wrapper"] \in {"launch", "running"}
    PROVE  MappedOutcome = "none" /\ MappedOutcome' = "none"
<1> USE DEF OrderlyInv
<1>1. ~Terminal(rec) /\ pc["submit"] = "over" /\ ~Quiet
  BY DEF ClaimRespected, PastClaim, Submitting, BaseInv, SchedInv, Quiet
<1>2. Exists
  BY <1>1 DEF NothingLeft
<1>3. MappedOutcome = "none"
  BY <1>1, <1>2 DEF MappedOutcome
<1>4. ~Settling
  BY DEF Settling, PastClaim
<1>5. MappedOutcome \notin TERMINAL \cup {"forgotten"}
  BY <1>3 DEF TERMINAL, Finished
<1> QED
  BY <1>3, <1>4, <1>5, OutcomeSteps

\* What the workload does when it does not start: it may lose its wrapper or
\* end, before there is an outcome, or end without its wrapper.
LEMMA AliveSteps ==
    ASSUME Orderly, OrderlyInv, [Next]_vars, starts' = starts, MappedAlive' # MappedAlive
    PROVE  /\ UNCHANGED MappedOutcome
           /\ \/ MappedAlive = "yes" /\ MappedAlive' \in {"doomed", "no"}
              \/ MappedAlive = "doomed" /\ MappedAlive' = "no"
<1> USE DEF OrderlyInv
<1>t. starts \in Nat /\ alive \in BOOLEAN /\ alive' \in BOOLEAN
  BY OrderlyNext DEF BaseInv, TypeOK
<1>a. /\ MappedAlive = IF ~alive THEN "no"
                       ELSE IF pc["wrapper"] = "running" THEN "yes" ELSE "doomed"
      /\ MappedAlive' = IF ~alive' THEN "no"
                        ELSE IF pc'["wrapper"] = "running" THEN "yes" ELSE "doomed"
  BY OrderlyNext DEF MappedAlive, Doomed, BaseInv, SchedInv
<1>s. WrapperStep /\ starts + 1 # starts
  BY <1>t, WrapperSteps
<1>1. pc'["wrapper"] = "running" => pc["wrapper"] = "running" /\ alive' = alive
  BY <1>s DEF WrapperStep, Moves, run, Orphans
<1>2. alive' => alive
  BY <1>s DEF WrapperStep, Moves, run, Orphans
<1>3. CASE pc["wrapper"] = "running"
  BY <1>3, <1>a, <1>1, <1>2, NoOutcomeYet
<1>4. CASE pc["wrapper"] # "running"
  <2>1. alive /\ ~alive' /\ pc'["wrapper"] # "running"
    BY <1>4, <1>a, <1>1, <1>2
  <2>2. alive => Backend = "launchd"
    BY <1>4 DEF BaseInv, SchedInv
  <2>3. UNCHANGED <<rec, pc>>
    BY <1>4, <1>s, <2>1, <2>2 DEF WrapperStep, Moves, run, Orphans
  <2>4. UNCHANGED MappedOutcome
    BY <2>3 DEF MappedOutcome, Exists, Terminal
  <2> QED
    BY <1>4, <1>a, <2>1, <2>4
<1> QED
  BY <1>3, <1>4

\* Every step of the execution is a step of OneShot, or changes nothing that
\* OneShot speaks of.
LEMMA ShotStep == ASSUME Orderly, OrderlyInv, [Next]_vars PROVE [Shot!Next]_(Shot!shot)
<1> USE DEF OrderlyInv
<1>t. starts \in Nat /\ starts' \in Nat /\ due \in BOOLEAN
  BY OrderlyNext DEF BaseInv, TypeOK
<1>s. WrapperStep
  BY WrapperSteps
<1>o. TERMINAL = Shot!Outcome
  BY DEF TERMINAL, Finished, Shot!Outcome, Shot!Ran, Shot!NeverRan, Shot!Other
<1>p. ASSUME MappedOutcome' \in TERMINAL, UNCHANGED starts PROVE Shot!Possible(MappedOutcome')
  <2>1. MappedOutcome' = rec'.status
    BY <1>p DEF MappedOutcome, TERMINAL, Finished
  <2>2. Likely(rec'.status)
    BY <1>p, OrderlyNext DEF OutcomeTrue, Likely
  <2> QED
    BY <1>t, <2>1, <2>2 DEF Likely, Shot!Possible, Shot!Ran, Shot!NeverRan
<1>1. CASE DeadlinePasses
  <2>1. ~due /\ due' = TRUE /\ UNCHANGED <<rec, pc, starts, alive>>
    BY <1>1 DEF DeadlinePasses, store, run
  <2>2. UNCHANGED MappedOutcome /\ UNCHANGED MappedAlive
    BY <2>1 DEF MappedOutcome, Exists, Terminal, MappedAlive, Doomed
  <2>3. Shot!ComeDue
    BY <2>1, <2>2 DEF Shot!ComeDue
  <2> QED
    BY <2>3 DEF Shot!Next
<1>2. CASE due' = due /\ starts' # starts
  <2>1. /\ pc["wrapper"] = "launch" /\ pc'["wrapper"] = "running"
        /\ starts' = starts + 1 /\ alive'
    BY <1>2, <1>s DEF WrapperStep, Moves, run
  <2>2. starts = 0 /\ due /\ ~alive
    BY <2>1 DEF BaseInv, ClaimInv, StartOnce, BeforeStart, OnTime, SchedInv
  <2>3. MappedOutcome = "none" /\ MappedOutcome' = "none"
    BY <2>1, NoOutcomeYet
  <2>4. starts' > 0 /\ ~(starts > 0)
    BY <2>1, <2>2
  <2>5. MappedAlive' = "yes"
    BY <2>1 DEF MappedAlive, Doomed
  <2>6. Shot!Start
    BY <1>2, <2>2, <2>3, <2>4, <2>5 DEF Shot!Start
  <2> QED
    BY <2>6 DEF Shot!Next
<1>3. CASE due' = due /\ starts' = starts /\ MappedAlive' # MappedAlive
  <2>1. Shot!Doom \/ Shot!End
    BY <1>3, AliveSteps DEF Shot!Doom, Shot!End
  <2> QED
    BY <2>1 DEF Shot!Next
<1>4. CASE due' = due /\ starts' = starts /\ MappedAlive' = MappedAlive
  <2>1. CASE UNCHANGED MappedOutcome
    BY <1>4, <2>1 DEF Shot!shot
  <2>2. CASE MappedOutcome = "none" /\ MappedOutcome' \in TERMINAL /\ MappedAlive # "yes"
    <3>1. Shot!Settle
      BY <1>4, <2>2, <1>o, <1>p DEF Shot!Settle
    <3> QED
      BY <3>1 DEF Shot!Next
  <2>3. CASE MappedOutcome = "forgotten" /\ MappedOutcome' \in TERMINAL
    <3>1. Shot!WriteBack
      BY <1>4, <2>3, <1>o, <1>p DEF Shot!WriteBack
    <3> QED
      BY <3>1 DEF Shot!Next
  <2>4. CASE MappedOutcome # "none" /\ MappedOutcome' = "forgotten"
    <3>1. Shot!Forget
      BY <1>4, <2>4 DEF Shot!Forget
    <3> QED
      BY <3>1 DEF Shot!Next
  <2>5. CASE MappedOutcome \in TERMINAL /\ MappedOutcome' = "error"
    <3>1. Shot!Fail
      BY <1>4, <2>5, <1>o DEF Shot!Fail
    <3> QED
      BY <3>1 DEF Shot!Next
  <2> QED
    BY <2>1, <2>2, <2>3, <2>4, <2>5, OutcomeSteps
<1> QED
  BY <1>1, <1>2, <1>3, <1>4, ClockSteps DEF BaseInv

\* Whatever is delivered twice, early or not at all, cancelled, killed,
\* recovered or pruned, by however many operators: the execution is a OneShot,
\* a workload that starts at most once, and one outcome that is true and final
\* (transient.py as a whole).
THEOREM RefinesOneShot == ASSUME Orderly PROVE Spec => ImplementsOneShot
<1>1. Init => OrderlyInv /\ Shot!Init
  <2>1. Init => Shot!Init
    <3> SUFFICES ASSUME Init PROVE Shot!Init
      OBVIOUS
    <3>1. due \in BOOLEAN
      BY TypesInit DEF TypeOK
    <3>2. MappedOutcome = "none" /\ ~(starts > 0) /\ MappedAlive = "no"
      BY ProcFacts DEF Init, MappedAlive, MappedOutcome, Absent, Prepared, Exists, Terminal, TERMINAL, Finished
    <3> QED
      BY <3>1, <3>2 DEF Shot!Init
  <2> QED
    BY <2>1, OrderlyInit
<1>2. OrderlyInv /\ [Next]_vars => OrderlyInv' /\ [Shot!Next]_(Shot!shot)
  BY OrderlyNext, ShotStep
<1> QED
  BY <1>1, <1>2, PTL DEF Spec, ImplementsOneShot, Shot!Spec
=============================================================================
