------------------------ MODULE InstallationProofs --------------------------
(***************************************************************************)
(* Installed definitions, for every set of tasks and of control processes, *)
(* either backend and all faults.  Files are under the management lock;    *)
(* what concerns the scheduler also needs that pause and resume, which     *)
(* take no lock, do not overlap a locked operation (~ Overlap).            *)
(***************************************************************************)
EXTENDS Installation, TLAPS

-----------------------------------------------------------------------------
(* Types.                                                                  *)

Pc == {"idle", "wait", "disable", "stop", "files", "reload", "activate", "sweep", "enable",
       "look", "bootout", "bootstrap", "accept", "bar", "barlook", "barout"}

\* Operators that the code evaluates for the process at hand.
LEMMA OperatorTypes ==
    ASSUME TypeOK, NEW c \in Ctl
    PROVE  /\ op[c] \in Command /\ op[c].task \in Task /\ op[c].label \in Label
           /\ op[c].kind \in Kind \cup {"none"}
           /\ After(c) \in [Task -> Kind \cup {"none", "corrupt"}]
           /\ \A l : Want(c, l) \in Content \cup {"none"}
           /\ SweepWanted(c) \in BOOLEAN
           /\ Scope(c) \subseteq Label
           /\ PlanOf(c) \in [gone : SUBSET Label, put : SUBSET Label, sweep : BOOLEAN]
<1>1. /\ op[c] \in Command /\ op[c].task \in Task /\ op[c].label \in Label
      /\ op[c].kind \in Kind \cup {"none"}
  BY DEF TypeOK, Command
<1>2. After(c) \in [Task -> Kind \cup {"none", "corrupt"}]
  BY <1>1 DEF TypeOK, After
<1>3. \A l : Want(c, l) \in Content \cup {"none"}
  BY <1>1 DEF Want, TriggerOf, Kind, Content
<1>4. SweepWanted(c) \in BOOLEAN
  BY DEF SweepWanted, Qualifying
<1>5. Scope(c) \subseteq Label
  BY <1>1 DEF Scope, Label
<1>6. PlanOf(c) \in [gone : SUBSET Label, put : SUBSET Label, sweep : BOOLEAN]
  BY <1>4, <1>5 DEF PlanOf
<1> QED
  BY <1>1, <1>2, <1>3, <1>4, <1>5, <1>6

\* NoCommand is one.
LEMMA NoCommandType == NoCommand \in Command
<1>1. (CHOOSE t \in Task : TRUE) \in Task
  BY ConstantsAssumption
<1> QED
  BY <1>1 DEF NoCommand, Command, Label

\* The initial state is well typed.
LEMMA TypesInit == Init => TypeOK
<1> SUFFICES ASSUME Init PROVE TypeOK
  OBVIOUS
<1>1. /\ def \in [Task -> Kind \cup {"none", "corrupt"}]
      /\ trig \in [Label -> Content \cup {"none"}] /\ loaded \in [Label -> Content \cup {"none"}]
      /\ activation \in [Label -> Content \cup {"none"}]
      /\ settled \in [Task -> Kind \cup {"none", "unknown"}]
  BY DEF Init
<1>2. barred \in [Label -> BOOLEAN]
  BY DEF Init
<1>3. plan \in [gone : SUBSET Label, put : SUBSET Label, sweep : BOOLEAN]
  BY DEF Init, NoPlan
<1>4. refused \in BOOLEAN /\ clean \in BOOLEAN
  BY Zenon DEF Init
<1>5. /\ lock \in Ctl \cup {"free"} /\ todo \subseteq Label /\ pc \in [Ctl -> Pc]
      /\ op \in [Ctl -> Command]
  BY NoCommandType DEF Init, Pc
<1> QED
  BY <1>1, <1>2, <1>3, <1>4, <1>5 DEF TypeOK, Pc

\* The end of a command keeps its types.
LEMMA EndTypes ==
    ASSUME TypeOK, NEW c \in Ctl, Abort(c) \/ Succeed(c) \/ (UNCHANGED busy /\ \E l \in Pc : Goto(c, l))
    PROVE  /\ lock' \in Ctl \cup {"free"} /\ op' \in [Ctl -> Command] /\ pc' \in [Ctl -> Pc]
           /\ settled' \in [Task -> Kind \cup {"none", "unknown"}] /\ clean' \in BOOLEAN
<1>1. CASE Abort(c)
  BY <1>1, NoCommandType DEF TypeOK, Abort, Leave, Goto, ghost, Pc
<1>2. CASE Succeed(c)
  <2>1. lock' \in Ctl \cup {"free"} /\ op' \in [Ctl -> Command] /\ pc' \in [Ctl -> Pc]
    BY <1>2, NoCommandType DEF TypeOK, Succeed, Leave, Goto, Pc
  <2>2. settled' \in [Task -> Kind \cup {"none", "unknown"}]
    BY <1>2, OperatorTypes DEF TypeOK, Succeed, ghost
  <2>3. clean' \in BOOLEAN
    BY <1>2, Zenon DEF TypeOK, Succeed, ghost
  <2> QED
    BY <2>1, <2>2, <2>3
<1>3. CASE UNCHANGED busy /\ \E l \in Pc : Goto(c, l)
  BY <1>3 DEF TypeOK, Goto, busy, ghost, Pc
<1> QED
  BY <1>1, <1>2, <1>3

\* Every step keeps the types.
LEMMA TypesNext == TypeOK /\ [Next]_vars => TypeOK'
<1> SUFFICES ASSUME TypeOK, [Next]_vars PROVE TypeOK'
  OBVIOUS
<1> USE DEF files, sched, hold, ghost
<1>1. CASE UNCHANGED vars
  BY <1>1 DEF vars, TypeOK
<1> SUFFICES ASSUME NEW c \in Ctl,
                    \/ StartInstall(c) \/ StartRemove(c) \/ StartSwitch(c) \/ Lock(c)
                    \/ Apply(c) \/ Activate(c) \/ Launchctl(c) \/ Crash(c)
             PROVE  TypeOK'
  BY <1>1 DEF Next
<1>o. /\ op[c].task \in Task /\ op[c].label \in Label /\ L(c) \in Label
      /\ After(c) \in [Task -> Kind \cup {"none", "corrupt"}]
      /\ \A l : Want(c, l) \in Content \cup {"none"}
      /\ PlanOf(c) \in [gone : SUBSET Label, put : SUBSET Label, sweep : BOOLEAN]
      /\ Catchup \in Label /\ op[c].task \in Label
  BY OperatorTypes DEF L, Label
<1>e. ASSUME \/ Abort(c) \/ Succeed(c)
             \/ UNCHANGED busy /\ \E l \in Pc : Goto(c, l),
             UNCHANGED <<files, hold>>,
             loaded' \in [Label -> Content \cup {"none"}],
             barred' \in [Label -> BOOLEAN],
             activation' \in [Label -> Content \cup {"none"}]
      PROVE  TypeOK'
  BY <1>e, EndTypes DEF TypeOK, Pc
<1>u. ASSUME NEW l \in Label, Unload(l) PROVE loaded' \in [Label -> Content \cup {"none"}]
  BY <1>u DEF Unload, TypeOK
<1>t. ASSUME NEW l \in Label, EnableTimer(l) PROVE loaded' \in [Label -> Content \cup {"none"}]
  BY <1>t DEF EnableTimer, TypeOK
<1>2. CASE StartInstall(c)
  <2>1. \E t \in Task, k \in Kind, r \in BOOLEAN :
          op' = [op EXCEPT ![c] = [name |-> "install", task |-> t, kind |-> k,
                                   replace |-> r, label |-> t]]
    BY <1>2 DEF StartInstall
  <2>2. op' \in [Ctl -> Command]
    BY <2>1 DEF TypeOK, Command, Label
  <2> QED
    BY <1>2, <2>2 DEF StartInstall, Goto, TypeOK
<1>3. CASE StartRemove(c)
  <2>1. op' \in [Ctl -> Command]
    BY <1>3 DEF StartRemove, TypeOK, Command, Label
  <2> QED
    BY <1>3, <2>1 DEF StartRemove, Goto, TypeOK
<1>4. CASE StartSwitch(c)
  <2>1. PICK n \in {"pause", "resume"} \cap Ops, t \in Task :
          /\ def[t] \in Scheduled
          /\ op' = [op EXCEPT ![c] = [name |-> n, task |-> t, kind |-> def[t],
                                      replace |-> FALSE, label |-> t]]
          /\ settled' = [settled EXCEPT ![t] = "unknown"]
          /\ Goto(c, IF n = "pause" THEN "bar" ELSE "enable")
    BY <1>4 DEF StartSwitch
  <2>2. op' \in [Ctl -> Command]
    BY <2>1 DEF TypeOK, Command, Label, Kind, Scheduled
  <2>3. lock' \in Ctl \cup {"free"} /\ UNCHANGED <<files, sched, activation, hold, clean>>
    BY <1>4 DEF StartSwitch, TypeOK
  <2> QED
    BY <2>1, <2>2, <2>3 DEF Goto, TypeOK
<1>5. CASE Lock(c)
  <2>1. CASE Occupied(c)
    BY <1>5, <2>1, <1>e DEF Lock, TypeOK
  <2>2. CASE ~Occupied(c)
    <3>1. clean' \in BOOLEAN /\ refused' \in BOOLEAN
      BY <1>5, <2>2, Zenon DEF Lock
    <3>2. /\ plan' \in [gone : SUBSET Label, put : SUBSET Label, sweep : BOOLEAN]
          /\ todo' \subseteq Label
      BY <1>5, <2>2, <1>o DEF Lock
    <3>3. settled' \in [Task -> Kind \cup {"none", "unknown"}]
      BY <1>5, <2>2, <1>o DEF Lock, TypeOK
    <3> QED
      BY <1>5, <2>2, <3>1, <3>2, <3>3 DEF Lock, Goto, TypeOK
  <2> QED
    BY <2>1, <2>2
<1>6. CASE Apply(c)
  <2>1. CASE DisableTimer(c)
    BY <2>1, <1>u DEF DisableTimer, TypeOK
  <2>2. CASE BootoutLabel(c)
    BY <2>2, <1>u DEF BootoutLabel, TypeOK
  <2>3. CASE Deactivated(c)
    <3>1. activation' \in [Label -> Content \cup {"none"}]
      BY <2>3, <1>o DEF Deactivated, TypeOK
    <3>2. todo' \subseteq Label
      BY <2>3 DEF Deactivated, TypeOK
    <3>3. Abort(c) \/ (UNCHANGED busy /\ \E l \in Pc : Goto(c, l))
      BY <2>3 DEF Deactivated, Pc
    <3> QED
      BY <2>3, <3>1, <3>2, <3>3, EndTypes DEF Deactivated, TypeOK, Pc
  <2>4. CASE StopServices(c)
    BY <2>4, <1>e DEF StopServices, Pc, TypeOK
  <2>5. CASE WriteFile(c)
    BY <2>5, <1>o DEF WriteFile, TypeOK
  <2>6. CASE WriteDefinition(c)
    BY <2>6, <1>o DEF WriteDefinition, Goto, TypeOK
  <2>7. CASE Reload(c)
    <3>1. loaded' \in [Label -> Content \cup {"none"}]
      BY <2>7 DEF Reload, TypeOK
    <3> QED
      BY <2>7, <3>1, <1>e DEF Reload, Pc, TypeOK
  <2> QED
    BY <1>6, <2>1, <2>2, <2>3, <2>4, <2>5, <2>6, <2>7 DEF Apply
<1>7. CASE Activate(c)
  <2>1. CASE ActivateTask(c)
    <3>1. loaded' \in [Label -> Content \cup {"none"}]
      BY <2>1, <1>o, <1>u, <1>t DEF ActivateTask, TypeOK
    <3> QED
      BY <2>1, <3>1, <1>e DEF ActivateTask, Pc, TypeOK
  <2>2. CASE ActivateLabel(c)
    BY <2>2 DEF ActivateLabel, Goto, TypeOK
  <2>3. CASE SweepTimer(c)
    <3>1. /\ loaded' \in [Label -> Content \cup {"none"}]
          /\ activation' \in [Label -> Content \cup {"none"}]
      BY <2>3, <1>o, <1>t DEF SweepTimer, TypeOK, Content
    <3> QED
      BY <2>3, <3>1, <1>e DEF SweepTimer, TypeOK
  <2>4. CASE SweepLabel(c)
    <3>1. CASE plan.sweep
      <4>1. op' \in [Ctl -> Command]
        BY <2>4, <3>1, <1>o DEF SweepLabel, TypeOK, Command
      <4> QED
        BY <2>4, <3>1, <4>1 DEF SweepLabel, Goto, TypeOK
    <3>2. CASE ~plan.sweep
      BY <2>4, <3>2, <1>e DEF SweepLabel, TypeOK
    <3> QED
      BY <3>1, <3>2
  <2>5. CASE SwitchTimer(c)
    <3>1. loaded' \in [Label -> Content \cup {"none"}]
      BY <2>5, <1>o, <1>u, <1>t DEF SwitchTimer, TypeOK
    <3> QED
      BY <2>5, <3>1, <1>e DEF SwitchTimer, TypeOK
  <2> QED
    BY <1>7, <2>1, <2>2, <2>3, <2>4, <2>5 DEF Activate
<1>8. CASE Launchctl(c)
  <2>r. ASSUME NEW i, Refuse(c, i) PROVE TypeOK'
    BY <2>r, <1>e DEF Refuse, TypeOK
  <2>1. CASE EnableLabel(c) \/ Bar(c)
    <3>1. CASE /\ \E b \in BOOLEAN : barred' = [barred EXCEPT ![L(c)] = b]
               /\ pc' = [pc EXCEPT ![c] = "look"] \/ pc' = [pc EXCEPT ![c] = "barlook"]
               /\ UNCHANGED <<files, loaded, activation, lock, op, hold, ghost>>
      <4>1. barred' \in [Label -> BOOLEAN]
        BY <3>1, <1>o DEF TypeOK
      <4>2. pc' \in [Ctl -> Pc]
        BY <3>1 DEF TypeOK, Pc
      <4> QED
        BY <3>1, <4>1, <4>2 DEF TypeOK, Pc
    <3>2. CASE Abort(c) /\ UNCHANGED <<files, sched, activation, hold>>
      BY <3>2, <1>e DEF TypeOK
    <3> QED
      BY <2>1, <3>1, <3>2 DEF EnableLabel, Bar, Refuse, Goto
  <2>2. CASE Look(c) \/ BarLook(c)
    BY <2>2, <1>e DEF Look, BarLook, Barred, Pc, TypeOK
  <2>3. CASE Bootout(c)
    <3>1. CASE /\ Unload(L(c)) /\ Goto(c, "bootstrap")
               /\ UNCHANGED <<files, barred, activation, lock, op, hold, ghost>>
      BY <3>1, <1>o, <1>u DEF Goto, TypeOK
    <3> QED
      BY <2>3, <3>1, <2>r DEF Bootout
  <2>4. CASE Bootstrap(c)
    <3>1. CASE /\ loaded' = [loaded EXCEPT ![L(c)] = trig[L(c)]]
               /\ IF Locked(c) THEN Goto(c, "accept") /\ UNCHANGED busy ELSE Succeed(c)
               /\ UNCHANGED <<files, barred, activation, hold>>
      <4>1. loaded' \in [Label -> Content \cup {"none"}]
        BY <3>1, <1>o DEF TypeOK
      <4> QED
        BY <3>1, <4>1, <1>e DEF TypeOK, Pc
    <3> QED
      BY <2>4, <3>1, <2>r DEF Bootstrap
  <2>5. CASE Accept(c)
    <3>1. activation' \in [Label -> Content \cup {"none"}]
      BY <2>5, <1>o DEF Accept, TypeOK
    <3> QED
      BY <2>5, <3>1, <1>e DEF Accept, TypeOK, Pc
  <2>6. CASE BarOut(c)
    <3>1. CASE Unload(L(c)) /\ Barred(c) /\ UNCHANGED <<files, barred, activation, hold>>
      BY <3>1, <1>o, <1>u, <1>e DEF Barred, Pc, TypeOK
    <3> QED
      BY <2>6, <3>1, <2>r DEF BarOut
  <2> QED
    BY <1>8, <2>1, <2>2, <2>3, <2>4, <2>5, <2>6 DEF Launchctl
<1>9. CASE Crash(c)
  BY <1>9, <1>e DEF Crash, TypeOK
<1> QED
  BY <1>2, <1>3, <1>4, <1>5, <1>6, <1>7, <1>8, <1>9

\* Definitions, trigger files, scheduler state, activation records and every
\* command stay within their types.
THEOREM InstallTypeCorrect == Spec => []TypeOK
BY TypesInit, TypesNext, PTL DEF Spec

-----------------------------------------------------------------------------
(* The management lock.                                                    *)

\* A step of process c.
Step(c) == \/ StartInstall(c) \/ StartRemove(c) \/ StartSwitch(c) \/ Lock(c)
           \/ Apply(c) \/ Activate(c) \/ Launchctl(c) \/ Crash(c)

\* c is past the lock with an install or a remove.
Working(c) == Locked(c) /\ pc[c] \notin {"idle", "wait"}

\* What a command looks like on its way, and who holds the lock.
WellFormed(c) ==
    /\ pc[c] = "idle" => op[c] = NoCommand
    /\ op[c].name = "none" => pc[c] = "idle"
    /\ pc[c] \in {"wait", "disable", "stop", "files", "reload", "activate", "sweep", "accept"}
          => Locked(c)
    /\ Working(c) => lock = c
    /\ ~Overlap /\ pc[c] \notin {"idle", "wait"} => lock = c
    /\ lock = c => pc[c] \notin {"idle", "wait"}
    /\ op[c].name = "remove" =>
          /\ op[c].kind = "none" /\ op[c].label = Catchup
          /\ pc[c] \notin {"activate", "bar", "barlook", "barout"}
    /\ op[c].name = "install" =>
          /\ op[c].kind \in Kind /\ op[c].label \in {op[c].task, Catchup}
          /\ pc[c] \in {"wait", "disable", "stop", "files", "reload", "activate"} =>
                op[c].label = op[c].task
          /\ pc[c] \in {"bar", "barlook", "barout"} =>
                op[c].kind = "disabled" /\ op[c].label = op[c].task
          /\ pc[c] \in {"enable", "look", "bootout", "bootstrap", "accept"}
                /\ op[c].label = op[c].task =>
                op[c].kind \notin {"disabled", "dormant"}
    /\ op[c].name \in {"pause", "resume"} => op[c].label = op[c].task
    /\ Backend = "systemd" =>
          /\ pc[c] \notin {"look", "bootout", "bootstrap", "accept", "barlook", "barout"}
          /\ Locked(c) => pc[c] \notin {"enable", "bar"}

CommandInv == \A c \in Ctl : WellFormed(c)

\* NoCommand is neither locked nor a switch.
LEMMA NoCommandFacts == NoCommand.name = "none" /\ NoCommand.kind = "none" /\ NoCommand.label = Catchup
BY DEF NoCommand

\* What a step of c leaves alone: the other processes, the lock of another,
\* and, outside the steps named for it, files and plan.
LEMMA OthersUntouched ==
    ASSUME TypeOK, NEW c \in Ctl, Step(c)
    PROVE  /\ \A k \in Ctl \ {c} : pc'[k] = pc[k] /\ op'[k] = op[k]
           /\ lock' = lock \/ (lock = "free" /\ lock' = c) \/ (lock = c /\ lock' = "free")
           /\ pc[c] # "files" => UNCHANGED files
           /\ pc[c] \notin {"disable", "files"} /\ ~Lock(c) => UNCHANGED hold
           /\ Lock(c) => lock = "free" /\ pc[c] = "wait"
<1> USE DEF files, sched, hold, ghost, busy, Goto, TypeOK
<1>e. ASSUME Abort(c) \/ Succeed(c)
      PROVE  /\ \A k \in Ctl \ {c} : pc'[k] = pc[k] /\ op'[k] = op[k]
             /\ lock' = lock \/ (lock = c /\ lock' = "free")
  BY <1>e DEF Abort, Succeed, Leave
<1>1. CASE StartInstall(c)
  BY <1>1 DEF StartInstall, Lock
<1>2. CASE StartRemove(c)
  BY <1>2 DEF StartRemove, Lock
<1>3. CASE StartSwitch(c)
  BY <1>3 DEF StartSwitch, Lock
<1>4. CASE Lock(c)
  BY <1>4, <1>e DEF Lock
<1>n. ASSUME pc[c] # "wait" PROVE ~Lock(c)
  BY <1>n DEF Lock
<1>5. CASE Apply(c)
  BY <1>5, <1>e, <1>n DEF Apply, DisableTimer, BootoutLabel, Deactivated, StopServices, WriteFile,
                          WriteDefinition, Reload
<1>6. CASE Activate(c)
  <2>1. CASE ActivateTask(c) \/ ActivateLabel(c)
    BY <2>1, <1>e, <1>n DEF ActivateTask, ActivateLabel
  <2>2. CASE SweepTimer(c) \/ SweepLabel(c)
    BY <2>2, <1>e, <1>n DEF SweepTimer, SweepLabel
  <2>3. CASE SwitchTimer(c)
    BY <2>3, <1>e, <1>n DEF SwitchTimer
  <2> QED
    BY <1>6, <2>1, <2>2, <2>3 DEF Activate
<1>7. CASE Launchctl(c)
  <2>r. ASSUME NEW i, Refuse(c, i)
        PROVE  /\ \A k \in Ctl \ {c} : pc'[k] = pc[k] /\ op'[k] = op[k]
               /\ lock' = lock \/ (lock = c /\ lock' = "free")
               /\ UNCHANGED <<files, hold>>
    BY <2>r, <1>e DEF Refuse
  <2>0. CASE EnableLabel(c)
    BY <2>0, <1>e, <1>n DEF EnableLabel, Refuse
  <2>1. CASE Bar(c)
    BY <2>1, <1>e, <1>n DEF Bar, Refuse
  <2>2. CASE Look(c) \/ BarLook(c)
    BY <2>2, <1>e, <1>n DEF Look, BarLook, Barred
  <2>3. CASE Bootout(c) \/ BarOut(c)
    BY <2>3, <2>r, <1>e, <1>n DEF Bootout, BarOut, Barred
  <2>4. CASE Bootstrap(c)
    BY <2>4, <2>r, <1>e, <1>n DEF Bootstrap
  <2>5. CASE Accept(c)
    BY <2>5, <1>e, <1>n DEF Accept
  <2> QED
    BY <1>7, <2>0, <2>1, <2>2, <2>3, <2>4, <2>5 DEF Launchctl
<1>8. CASE Crash(c)
  <2>1. pc'[c] = "idle" /\ (lock = "free" => lock' = "free")
    BY <1>8, ConstantsAssumption DEF Crash, Abort, Leave
  <2> QED
    BY <1>8, <2>1, <1>e DEF Crash, Lock, Abort, Leave
<1> QED
  BY <1>1, <1>2, <1>3, <1>4, <1>5, <1>6, <1>7, <1>8 DEF Step

\* A process that ends its command is well formed.
LEMMA EndWellFormed ==
    ASSUME TypeOK, NEW c \in Ctl, Abort(c) \/ Succeed(c) PROVE WellFormed(c)'
<1>1. pc'[c] = "idle" /\ op'[c] = NoCommand /\ lock' # c
  BY ConstantsAssumption DEF Abort, Succeed, Leave, Goto, TypeOK
<1> QED
  BY <1>1, NoCommandFacts DEF WellFormed, Working, Locked

\* A process stays well formed.
LEMMA CommandNext == TypeOK /\ CommandInv /\ [Next]_vars => CommandInv'
<1> SUFFICES ASSUME TypeOK, CommandInv, [Next]_vars, NEW k \in Ctl PROVE WellFormed(k)'
  BY DEF CommandInv
<1>k. WellFormed(k)
  BY DEF CommandInv
<1>1. CASE UNCHANGED vars
  BY <1>1, <1>k DEF vars, busy, ghost, WellFormed, Working, Locked
<1> SUFFICES ASSUME NEW c \in Ctl, Step(c) PROVE WellFormed(k)'
  BY <1>1 DEF Next, Step
<1>2. CASE k # c
  <2>1. pc'[k] = pc[k] /\ op'[k] = op[k] /\ (lock' = k <=> lock = k)
    BY <1>2, OthersUntouched, ConstantsAssumption
  <2> QED
    BY <2>1, <1>k DEF WellFormed, Working, Locked
<1>3. CASE k = c
  <2> SUFFICES WellFormed(c)'
    BY <1>3
  <2>k. WellFormed(c)
    BY <1>k, <1>3
  <2>0. ASSUME StartInstall(c)
        PROVE  \E t \in Task, r \in Kind, b \in BOOLEAN :
                  op' = [op EXCEPT ![c] = [name |-> "install", task |-> t, kind |-> r,
                                           replace |-> b, label |-> t]]
    BY <2>0 DEF StartInstall
  <2> USE DEF ghost, busy, Goto, TypeOK, Working, Locked
  <2>e. ASSUME Abort(c) \/ Succeed(c) PROVE WellFormed(c)'
    BY <2>e, EndWellFormed
  <2>1. CASE StartInstall(c)
    <3>1. PICK t \in Task, r \in Kind, b \in BOOLEAN :
             op' = [op EXCEPT ![c] = [name |-> "install", task |-> t, kind |-> r,
                                      replace |-> b, label |-> t]]
      BY <2>0, <2>1
    <3>2. lock # c /\ lock' = lock /\ pc'[c] = "wait"
      BY <2>1, <2>k DEF StartInstall, WellFormed
    <3> QED
      BY <3>1, <3>2 DEF WellFormed
  <2>2. CASE StartRemove(c)
    BY <2>2, <2>k DEF StartRemove, WellFormed
  <2>3. CASE StartSwitch(c)
    <3>1. PICK n \in {"pause", "resume"} \cap Ops, t \in Task :
             /\ op' = [op EXCEPT ![c] = [name |-> n, task |-> t, kind |-> def[t],
                                         replace |-> FALSE, label |-> t]]
             /\ pc' = [pc EXCEPT ![c] = IF n = "pause" THEN "bar" ELSE "enable"]
      BY <2>3 DEF StartSwitch
    <3>2. ~Overlap => lock' = c
      BY <2>3 DEF StartSwitch
    <3> QED
      BY <3>1, <3>2 DEF WellFormed
  <2>4. CASE Lock(c)
    <3>1. CASE Occupied(c)
      BY <2>4, <3>1, <2>e DEF Lock
    <3>2. CASE ~Occupied(c)
      BY <2>4, <3>2, <2>k DEF Lock, WellFormed
    <3> QED
      BY <3>1, <3>2
  <2>5. CASE Apply(c)
    <3>1. CASE DisableTimer(c) \/ BootoutLabel(c) \/ WriteFile(c)
      BY <3>1, <2>k DEF DisableTimer, BootoutLabel, WriteFile, WellFormed
    <3>2. CASE Deactivated(c)
      BY <3>2, <2>k, <2>e DEF Deactivated, WellFormed
    <3>3. CASE StopServices(c)
      BY <3>3, <2>k, <2>e DEF StopServices, WellFormed
    <3>4. CASE WriteDefinition(c)
      BY <3>4, <2>k DEF WriteDefinition, WellFormed
    <3>5. CASE Reload(c)
      BY <3>5, <2>k, <2>e DEF Reload, WellFormed
    <3> QED
      BY <2>5, <3>1, <3>2, <3>3, <3>4, <3>5 DEF Apply
  <2>6. CASE Activate(c)
    <3>1. CASE ActivateTask(c)
      BY <3>1, <2>k, <2>e DEF ActivateTask, WellFormed
    <3>2. CASE ActivateLabel(c)
      BY <3>2, <2>k DEF ActivateLabel, WellFormed
    <3>3. CASE SweepTimer(c) \/ SwitchTimer(c)
      BY <3>3, <2>e DEF SweepTimer, SwitchTimer
    <3>4. CASE SweepLabel(c)
      <4>1. CASE plan.sweep
        <5>1. /\ op'[c] = [op[c] EXCEPT !.label = Catchup] /\ pc'[c] = "enable"
              /\ lock' = lock /\ op[c] \in Command /\ Backend = "launchd"
          BY <3>4, <4>1 DEF SweepLabel
        <5>2. /\ op'[c].name = op[c].name /\ op'[c].kind = op[c].kind
              /\ op'[c].task = op[c].task /\ op'[c].label = Catchup
          BY <5>1 DEF Command
        <5>3. op[c].task # Catchup
          BY <5>1, ConstantsAssumption DEF Command
        <5> QED
          BY <5>1, <5>2, <5>3, <2>k, <3>4 DEF WellFormed, SweepLabel
      <4> QED
        BY <3>4, <4>1, <2>e DEF SweepLabel
    <3> QED
      BY <2>6, <3>1, <3>2, <3>3, <3>4 DEF Activate
  <2>7. CASE Launchctl(c)
    <3>r. ASSUME NEW i, Refuse(c, i) PROVE WellFormed(c)'
      BY <3>r, <2>e DEF Refuse
    <3>0. CASE EnableLabel(c)
      BY <3>0, <2>k, <2>e DEF EnableLabel, Refuse, WellFormed
    <3>1. CASE Bar(c)
      BY <3>1, <2>k, <2>e DEF Bar, Refuse, WellFormed
    <3>2. CASE Look(c)
      BY <3>2, <2>k, <2>e DEF Look, WellFormed
    <3>3. CASE BarLook(c)
      BY <3>3, <2>k, <2>e DEF BarLook, Barred, WellFormed
    <3>4. CASE Bootout(c)
      BY <3>4, <2>k, <3>r DEF Bootout, WellFormed
    <3>5. CASE Bootstrap(c)
      BY <3>5, <2>k, <2>e, <3>r DEF Bootstrap, WellFormed
    <3>6. CASE Accept(c)
      BY <3>6, <2>k, <2>e DEF Accept, WellFormed
    <3>7. CASE BarOut(c)
      BY <3>7, <2>k, <2>e, <3>r DEF BarOut, Barred, WellFormed
    <3> QED
      BY <2>7, <3>0, <3>1, <3>2, <3>3, <3>4, <3>5, <3>6, <3>7 DEF Launchctl
  <2>8. CASE Crash(c)
    BY <2>8, <2>e DEF Crash
  <2> QED
    BY <2>1, <2>2, <2>3, <2>4, <2>5, <2>6, <2>7, <2>8 DEF Step
<1> QED
  BY <1>2, <1>3

-----------------------------------------------------------------------------
(* Files under the lock.                                                   *)

\* Before the definition is written: what the plan says of each file in scope
\* is still true, and the files handled are as wanted.
Planned(k) ==
    LET t == op[k].task  hit == plan.gone \cup plan.put IN
    /\ hit \subseteq Scope(k)
    /\ \A l \in plan.gone : Want(k, l) = "none"
    /\ \A l \in plan.put : Want(k, l) # "none"
    /\ \A l \in Scope(k) \ hit : trig[l] = Want(k, l)
    /\ op[k].name = "install" /\ ~ op[k].replace => def[t] = "none"
    /\ pc[k] = "disable" => todo \subseteq plan.gone
    /\ pc[k] = "stop" => todo = hit
    /\ pc[k] = "files" => todo \subseteq hit /\ \A l \in hit \ todo : trig[l] = Want(k, l)

\* Afterwards: the files are the wanted ones.
Written(k) == def[op[k].task] = op[k].kind /\ \A l \in Scope(k) : trig[l] = Want(k, l)

Early == {"disable", "stop", "files"}

\* What the lock holder relies on.
HolderInv(k) ==
    /\ plan.sweep = SweepWanted(k) /\ ~ clean /\ settled[op[k].task] = "unknown"
    /\ pc[k] \in Early => Planned(k)
    /\ pc[k] \notin Early => Written(k)

CleanCatchup == clean => trig[Catchup] = IF Qualifying(def) THEN "sweep" ELSE "none"

FilesInv == (\A k \in Ctl : Working(k) => HolderInv(k)) /\ CleanCatchup

\* The start of pause or resume.
LEMMA SwitchStep ==
    ASSUME TypeOK, NEW c \in Ctl, StartSwitch(c)
    PROVE  /\ op'[c].name \in {"pause", "resume"} /\ op'[c].task \in Task
           /\ def[op'[c].task] # "none" /\ settled' = [settled EXCEPT ![op'[c].task] = "unknown"]
           /\ pc[c] = "idle" /\ pc'[c] \in {"bar", "enable"}
           /\ UNCHANGED <<files, sched, activation, hold, clean>>
           /\ ~Overlap => lock = "free" /\ lock' = c
<1>1. PICK n \in {"pause", "resume"} \cap Ops, t \in Task :
          /\ def[t] \in Scheduled
          /\ op' = [op EXCEPT ![c] = [name |-> n, task |-> t, kind |-> def[t],
                                      replace |-> FALSE, label |-> t]]
          /\ settled' = [settled EXCEPT ![t] = "unknown"]
          /\ Goto(c, IF n = "pause" THEN "bar" ELSE "enable")
  BY DEF StartSwitch
<1>2. op'[c].name = n /\ op'[c].task = t
  BY <1>1 DEF TypeOK
<1>3. pc'[c] \in {"bar", "enable"}
  BY <1>1 DEF Goto, TypeOK
<1>4. /\ pc[c] = "idle" /\ UNCHANGED <<files, sched, activation, hold, clean>>
      /\ ~Overlap => lock = "free" /\ lock' = c
  BY DEF StartSwitch
<1> QED
  BY <1>1, <1>2, <1>3, <1>4 DEF Scheduled

\* A command's wishes do not change while it works, nor when it has written
\* its definition.
LEMMA SameWishes ==
    ASSUME TypeOK, NEW k \in Ctl, op'[k].task = op[k].task, op'[k].kind = op[k].kind,
           def' = def \/ def' = After(k)
    PROVE  /\ SweepWanted(k)' = SweepWanted(k) /\ Scope(k)' = Scope(k)
           /\ \A l : Want(k, l)' = Want(k, l)
<1>1. After(k)' = After(k)
  BY DEF After, TypeOK
<1>2. SweepWanted(k)' = SweepWanted(k)
  BY <1>1 DEF SweepWanted, Qualifying
<1> QED
  BY <1>2 DEF Scope, Want, TriggerOf

\* Who changes the record of what completed.
LEMMA GhostSteps ==
    ASSUME TypeOK, CommandInv, NEW c \in Ctl, Step(c)
    PROVE  \/ UNCHANGED ghost
           \/ StartSwitch(c)
           \/ Lock(c)
           \/ Succeed(c) /\ Working(c) /\ pc[c] \notin Early
<1>k. WellFormed(c)
  BY DEF CommandInv
<1>s. ASSUME Succeed(c), pc[c] \notin {"idle", "wait"} \cup Early
      PROVE  UNCHANGED ghost \/ (Succeed(c) /\ Working(c) /\ pc[c] \notin Early)
  BY <1>s DEF Succeed, Working
<1> USE DEF busy, Early
<1>1. CASE StartInstall(c) \/ StartRemove(c)
  BY <1>1 DEF StartInstall, StartRemove
<1>2. CASE Apply(c)
  BY <1>2 DEF Apply, DisableTimer, BootoutLabel, Deactivated, StopServices, WriteFile,
              WriteDefinition, Reload, Abort
<1>3. CASE Activate(c)
  <2>1. CASE ActivateTask(c) \/ ActivateLabel(c)
    BY <2>1 DEF ActivateTask, ActivateLabel, Abort
  <2>2. CASE SweepTimer(c) \/ SweepLabel(c)
    BY <2>2, <1>s DEF SweepTimer, SweepLabel, Abort, ghost
  <2>3. CASE SwitchTimer(c)
    BY <2>3, <1>s DEF SwitchTimer, Abort
  <2> QED
    BY <1>3, <2>1, <2>2, <2>3 DEF Activate
<1>4. CASE Launchctl(c)
  <2>1. CASE EnableLabel(c) \/ Bar(c) \/ Bootout(c)
    BY <2>1 DEF EnableLabel, Bar, Bootout, Refuse, Abort
  <2>2. CASE Look(c) \/ BarLook(c)
    BY <2>2, <1>s DEF Look, BarLook, Barred
  <2>3. CASE Bootstrap(c)
    BY <2>3, <1>s DEF Bootstrap, Refuse, Abort
  <2>4. CASE Accept(c)
    BY <2>4, <1>s DEF Accept
  <2>5. CASE BarOut(c)
    BY <2>5, <1>s DEF BarOut, Barred, Refuse, Abort
  <2> QED
    BY <1>4, <2>1, <2>2, <2>3, <2>4, <2>5 DEF Launchctl
<1>5. CASE Crash(c)
  BY <1>5 DEF Crash, Abort
<1> QED
  BY <1>1, <1>2, <1>3, <1>4, <1>5 DEF Step

\* After its definition is written a command that goes on touches no file.
LEMMA LateSteps ==
    ASSUME TypeOK, CommandInv, NEW c \in Ctl, Step(c), Working(c), Working(c)', pc[c] \notin Early
    PROVE  /\ UNCHANGED <<files, hold, ghost>> /\ pc'[c] \notin Early
           /\ op'[c].task = op[c].task /\ op'[c].kind = op[c].kind
           /\ op'[c].name = op[c].name /\ op'[c].replace = op[c].replace
           /\ op'[c].label = op[c].label \/ SweepLabel(c)
<1>k. WellFormed(c) /\ pc[c] \notin {"idle", "wait"}
  BY DEF CommandInv, Working
<1>e. ~Abort(c) /\ ~Succeed(c)
  <2>1. ASSUME Abort(c) \/ Succeed(c) PROVE op'[c].name = "none"
    BY <2>1, NoCommandFacts DEF Abort, Succeed, Leave, TypeOK
  <2> QED
    BY <2>1 DEF Working, Locked
<1>s. ~StartInstall(c) /\ ~StartRemove(c) /\ ~StartSwitch(c) /\ ~Lock(c) /\ ~Crash(c)
  BY <1>k, <1>e DEF StartInstall, StartRemove, StartSwitch, Lock, Crash
<1> SUFFICES /\ UNCHANGED ghost /\ pc'[c] \notin Early
             /\ UNCHANGED op \/ (SweepLabel(c) /\ op' = [op EXCEPT ![c].label = Catchup])
  <2>1. UNCHANGED <<files, hold>>
    BY <1>s, OthersUntouched DEF Early
  <2>2. op[c] \in Command
    BY DEF TypeOK
  <2>3. CASE UNCHANGED op
    BY <2>1, <2>3
  <2>4. CASE SweepLabel(c) /\ op' = [op EXCEPT ![c].label = Catchup]
    <3>1. op'[c] = [op[c] EXCEPT !.label = Catchup]
      BY <2>4 DEF TypeOK
    <3> QED
      BY <2>1, <2>2, <2>4, <3>1 DEF Command
  <2> QED
    BY <2>1, <2>3, <2>4
<1> USE DEF busy, Early, Goto, TypeOK
<1>1. CASE Apply(c)
  BY <1>1, <1>e DEF Apply, DisableTimer, BootoutLabel, Deactivated, StopServices, WriteFile,
                    WriteDefinition, Reload
<1>2. CASE Activate(c)
  BY <1>2, <1>e DEF Activate, ActivateTask, ActivateLabel, SweepTimer, SweepLabel, SwitchTimer
<1>3. CASE Launchctl(c)
  <2>1. CASE EnableLabel(c) \/ Bar(c) \/ Bootout(c)
    BY <2>1, <1>e DEF EnableLabel, Bar, Bootout, Refuse
  <2>2. CASE Look(c) \/ BarLook(c)
    BY <2>2, <1>e DEF Look, BarLook, Barred
  <2>3. CASE Bootstrap(c) \/ Accept(c)
    BY <2>3, <1>e DEF Bootstrap, Accept, Refuse
  <2>4. CASE BarOut(c)
    BY <2>4, <1>e DEF BarOut, Barred, Refuse
  <2> QED
    BY <1>3, <2>1, <2>2, <2>3, <2>4 DEF Launchctl
<1> QED
  BY <1>s, <1>1, <1>2, <1>3 DEF Step

\* Steps that leave alone what the lock holder k relies on.
LEMMA HolderKept ==
    ASSUME TypeOK, NEW k \in Ctl, HolderInv(k), UNCHANGED <<files, hold>>, clean' = clean,
           pc'[k] = pc[k] \/ (pc[k] \notin Early /\ pc'[k] \notin Early),
           op'[k].task = op[k].task, op'[k].kind = op[k].kind,
           op'[k].name = op[k].name, op'[k].replace = op[k].replace,
           settled'[op[k].task] \in {settled[op[k].task], "unknown"}
    PROVE  HolderInv(k)'
<1>1. /\ SweepWanted(k)' = SweepWanted(k) /\ Scope(k)' = Scope(k)
      /\ \A l : Want(k, l)' = Want(k, l)
  BY SameWishes DEF files
<1>2. UNCHANGED <<def, trig, plan, todo, refused>>
  BY DEF files, hold
<1>3. Planned(k) => Planned(k)' \/ pc'[k] # pc[k]
  BY <1>1, <1>2 DEF Planned
<1>4. Written(k) => Written(k)'
  BY <1>1, <1>2 DEF Written
<1> QED
  BY <1>1, <1>2, <1>3, <1>4 DEF HolderInv

\* The lock holder's own steps, from the plan to the definition.
LEMMA EarlySteps ==
    ASSUME TypeOK, CommandInv, NEW c \in Ctl, Step(c), Working(c)',
           Working(c) => HolderInv(c), ~Working(c) \/ pc[c] \in Early
    PROVE  HolderInv(c)'
<1>k. WellFormed(c) /\ op[c] \in Command
  BY DEF CommandInv, TypeOK
<1>e. ~Abort(c) /\ ~Succeed(c)
  <2>1. ASSUME Abort(c) \/ Succeed(c) PROVE op'[c].name = "none"
    BY <2>1, NoCommandFacts DEF Abort, Succeed, Leave, TypeOK
  <2> QED
    BY <2>1 DEF Working, Locked
<1>w. ASSUME Working(c)
      PROVE  /\ plan.sweep = SweepWanted(c) /\ ~clean /\ settled[op[c].task] = "unknown"
             /\ Planned(c) /\ pc[c] \in Early
  BY <1>w DEF HolderInv
<1>same. ASSUME UNCHANGED op, def' = def \/ def' = After(c)
         PROVE  /\ SweepWanted(c)' = SweepWanted(c) /\ Scope(c)' = Scope(c)
                /\ \A l : Want(c, l)' = Want(c, l)
  BY <1>same, SameWishes
<1> USE DEF files, sched, hold, ghost, busy, Goto, TypeOK
<1>1. CASE StartInstall(c) \/ StartRemove(c) \/ StartSwitch(c)
  <2>1. pc'[c] = "wait" \/ ~Locked(c)'
    <3>1. CASE StartSwitch(c)
      BY <3>1, SwitchStep DEF Locked
    <3> QED
      BY <1>1, <3>1 DEF StartInstall, StartRemove
  <2> QED
    BY <2>1 DEF Working
<1>2. CASE Lock(c)
  <2>1. /\ ~Occupied(c) /\ UNCHANGED <<files, op>> /\ plan' = PlanOf(c) /\ todo' = PlanOf(c).gone
        /\ settled' = [settled EXCEPT ![op[c].task] = "unknown"] /\ clean' = FALSE
        /\ pc'[c] = "disable"
    BY <1>2, <1>e DEF Lock
  <2>2. /\ SweepWanted(c)' = SweepWanted(c) /\ Scope(c)' = Scope(c)
        /\ \A l : Want(c, l)' = Want(c, l)
    BY <2>1, <1>same
  <2>3. /\ plan'.gone = {l \in Scope(c) : trig[l] # "none" /\ Want(c, l) = "none"}
        /\ plan'.put = {l \in Scope(c) : Want(c, l) \notin {"none", trig[l]}}
        /\ plan'.sweep = SweepWanted(c) /\ todo' = plan'.gone
    BY <2>1 DEF PlanOf
  <2>4. settled'[op'[c].task] = "unknown"
    BY <2>1, <1>k DEF Command
  <2>5. op[c].name = "install" /\ ~ op[c].replace => def[op[c].task] = "none"
    BY <2>1 DEF Occupied
  <2>6. Planned(c)'
    BY <2>1, <2>2, <2>3, <2>5 DEF Planned
  <2> QED
    BY <2>1, <2>2, <2>3, <2>4, <2>6 DEF HolderInv, Early
<1>3. CASE Apply(c)
  <2>w. Working(c) /\ op'[c] = op[c]
    <3>1. pc[c] \notin {"idle", "wait"} /\ UNCHANGED op
      BY <1>3, <1>e DEF Apply, DisableTimer, BootoutLabel, Deactivated, StopServices, WriteFile,
                   WriteDefinition, Reload
    <3> QED
      BY <3>1 DEF Working, Locked
  <2>p. /\ plan.sweep = SweepWanted(c) /\ ~clean /\ settled[op[c].task] = "unknown"
        /\ Planned(c)
    BY <2>w, <1>w
  <2>1. CASE DisableTimer(c) \/ BootoutLabel(c)
    <3>1. /\ UNCHANGED <<files, pc, op, plan, ghost>> /\ todo' \subseteq todo /\ pc[c] = "disable"
      BY <2>1 DEF DisableTimer, BootoutLabel
    <3>2. Planned(c)'
      BY <3>1, <2>p, <1>same DEF Planned
    <3> QED
      BY <3>1, <3>2, <2>p, <1>same DEF HolderInv, Early
  <2>2. CASE Deactivated(c)
    <3>1. /\ UNCHANGED <<files, op, plan, ghost>> /\ todo' = plan.gone \cup plan.put
          /\ pc'[c] \in {"stop", "files"}
      BY <2>2, <1>e DEF Deactivated
    <3>2. Planned(c)'
      BY <3>1, <2>p, <1>same DEF Planned
    <3> QED
      BY <3>1, <3>2, <2>p, <1>same DEF HolderInv, Early
  <2>3. CASE StopServices(c)
    <3>1. /\ UNCHANGED <<files, op, hold, ghost>> /\ pc[c] = "stop" /\ pc'[c] = "files"
      BY <2>3, <1>e DEF StopServices
    <3>2. Planned(c)'
      BY <3>1, <2>p, <1>same DEF Planned
    <3> QED
      BY <3>1, <3>2, <2>p, <1>same DEF HolderInv, Early
  <2>4. CASE WriteFile(c)
    <3>1. PICK l \in todo : trig' = [trig EXCEPT ![l] = Want(c, l)] /\ todo' = todo \ {l}
      BY <2>4 DEF WriteFile
    <3>2. UNCHANGED <<def, pc, op, plan, ghost>> /\ pc[c] = "files"
      BY <2>4 DEF WriteFile
    <3>3. l \in plan.gone \cup plan.put
      BY <2>p, <3>2 DEF Planned
    <3>4. Scope(c) \subseteq DOMAIN trig
      BY OperatorTypes
    <3>5. Planned(c)'
      BY <3>1, <3>2, <3>3, <3>4, <2>p, <1>same DEF Planned
    <3> QED
      BY <3>2, <3>5, <2>p, <1>same DEF HolderInv, Early
  <2>5. CASE WriteDefinition(c)
    <3>1. /\ UNCHANGED <<trig, op, hold, ghost>> /\ pc[c] = "files" /\ todo = {}
          /\ def' = After(c) /\ pc'[c] = "reload"
      BY <2>5 DEF WriteDefinition
    <3>2. def'[op[c].task] = op[c].kind
      BY <3>1, OperatorTypes DEF After
    <3>3. Written(c)'
      BY <3>1, <3>2, <2>p, <1>same DEF Planned, Written
    <3> QED
      BY <3>1, <3>3, <2>p, <1>same DEF HolderInv, Early
  <2>6. CASE Reload(c)
    BY <2>6, <1>w, <2>w DEF Reload, Early
  <2> QED
    BY <1>3, <2>1, <2>2, <2>3, <2>4, <2>5, <2>6 DEF Apply
<1>4. CASE Activate(c) \/ Launchctl(c)
  <2>1. pc[c] \notin {"idle", "wait"} \cup Early
    <3>1. CASE Activate(c)
      BY <3>1 DEF Early, Activate, ActivateTask, ActivateLabel, SweepTimer, SweepLabel, SwitchTimer
    <3>2. CASE Launchctl(c)
      BY <3>2 DEF Early, Launchctl, EnableLabel, Look, Bootout, Bootstrap, Accept, Bar, BarLook, BarOut
    <3> QED
      BY <1>4, <3>1, <3>2
  <2>2. ~Locked(c)
    BY <2>1, <1>w DEF Working
  <2>3. UNCHANGED op \/ Abort(c) \/ Succeed(c) \/ SweepLabel(c)
    <3>1. CASE Activate(c)
      BY <3>1 DEF Activate, ActivateTask, ActivateLabel, SweepTimer, SwitchTimer
    <3>2. CASE Launchctl(c)
      BY <3>2 DEF Launchctl, EnableLabel, Look, Bootout, Bootstrap, Accept, Bar, BarLook, BarOut,
                  Barred, Refuse
    <3> QED
      BY <1>4, <3>1, <3>2
  <2>4. ~SweepLabel(c)
    BY <2>2, <1>k DEF SweepLabel, WellFormed
  <2> QED
    BY <2>2, <2>3, <2>4, <1>e DEF Working, Locked
<1>5. CASE Crash(c)
  BY <1>5, <1>e DEF Crash
<1> QED
  BY <1>1, <1>2, <1>3, <1>4, <1>5 DEF Step

\* What another process does while k works: it may start or end a pause or a
\* resume, wait, or die, but touches neither files nor plan.
LEMMA Bystander ==
    ASSUME TypeOK, CommandInv, NEW c \in Ctl, NEW k \in Ctl \ {c}, Step(c), Working(k)'
    PROVE  /\ Working(k) /\ pc'[k] = pc[k] /\ op'[k] = op[k]
           /\ UNCHANGED <<files, hold>> /\ clean' = clean
           /\ \A t \in Task : settled'[t] \in {settled[t], "unknown"}
           /\ ~Locked(c) \/ pc[c] \in {"idle", "wait"}
<1>1. pc'[k] = pc[k] /\ op'[k] = op[k] /\ Working(k)
  BY OthersUntouched DEF Working, Locked
<1>2. lock = k
  BY <1>1 DEF CommandInv, WellFormed
<1>3. ~Working(c) /\ pc[c] \notin {"disable", "files"}
  BY <1>2 DEF CommandInv, WellFormed, Working
<1>4. ~Lock(c)
  BY <1>2, ConstantsAssumption DEF Lock
<1>5. UNCHANGED <<files, hold>>
  BY <1>3, <1>4, OthersUntouched
<1>6. clean' = clean /\ \A t \in Task : settled'[t] \in {settled[t], "unknown"}
  BY <1>3, <1>4, GhostSteps, SwitchStep DEF ghost, TypeOK
<1> QED
  BY <1>1, <1>3, <1>5, <1>6 DEF Working

\* Every step keeps what the lock holder relies on, and the catch-up file.
LEMMA FilesNext == TypeOK /\ CommandInv /\ FilesInv /\ [Next]_vars => FilesInv'
<1> SUFFICES ASSUME TypeOK, CommandInv, FilesInv, [Next]_vars PROVE FilesInv'
  OBVIOUS
<1>1. CASE UNCHANGED vars
  <2>1. ASSUME NEW k \in Ctl, Working(k)' PROVE HolderInv(k)'
    <3>1. Working(k) /\ op'[k] = op[k] /\ pc'[k] = pc[k] /\ UNCHANGED <<files, hold, ghost>>
      BY <1>1, <2>1 DEF vars, Working, Locked
    <3> QED
      BY <3>1, HolderKept DEF FilesInv, ghost
  <2>2. CleanCatchup'
    BY <1>1 DEF vars, files, ghost, FilesInv, CleanCatchup, Qualifying
  <2> QED
    BY <2>1, <2>2 DEF FilesInv
<1> SUFFICES ASSUME NEW c \in Ctl, Step(c) PROVE FilesInv'
  BY <1>1 DEF Next, Step
<1>2. ASSUME NEW k \in Ctl, Working(k)' PROVE HolderInv(k)'
  <2>1. CASE k # c
    <3>1. op[k].task \in Task
      BY OperatorTypes
    <3> QED
      BY <1>2, <2>1, <3>1, Bystander, HolderKept DEF FilesInv
  <2>2. CASE k = c /\ Working(c) /\ pc[c] \notin Early
    <3>1. HolderInv(c)
      BY <2>2 DEF FilesInv
    <3> QED
      BY <1>2, <2>2, <3>1, LateSteps, HolderKept DEF ghost
  <2>3. CASE k = c /\ (~Working(c) \/ pc[c] \in Early)
    BY <1>2, <2>3, EarlySteps DEF FilesInv
  <2> QED
    BY <2>1, <2>2, <2>3
<1>3. CleanCatchup'
  <2> SUFFICES ASSUME clean' PROVE trig'[Catchup] = IF Qualifying(def') THEN "sweep" ELSE "none"
    BY DEF CleanCatchup, Qualifying
  <2>1. CASE Succeed(c) /\ Working(c) /\ pc[c] \notin Early
    <3>1. UNCHANGED files /\ Written(c)
      BY <2>1, OthersUntouched DEF FilesInv, HolderInv, Early
    <3>2. trig[Catchup] = Want(c, Catchup)
      BY <3>1 DEF Written, Scope
    <3>3. After(c) = def
      BY <3>1, OperatorTypes DEF Written, After, TypeOK
    <3> QED
      BY <3>1, <3>2, <3>3 DEF Want, SweepWanted, files
  <2>2. CASE clean /\ ~(Succeed(c) /\ Working(c) /\ pc[c] \notin Early)
    <3>1. ~Working(c)
      BY <2>2 DEF FilesInv, HolderInv
    <3>2. UNCHANGED files
      BY <3>1, OthersUntouched DEF CommandInv, WellFormed, Working
    <3> QED
      BY <2>2, <3>2 DEF FilesInv, CleanCatchup, files
  <2>3. CASE ~clean /\ ~(Succeed(c) /\ Working(c) /\ pc[c] \notin Early)
    <3>1. clean' = clean \/ clean' = FALSE
      BY <2>3, GhostSteps, SwitchStep DEF Lock, Abort, ghost
    <3> QED
      BY <2>3, <3>1
  <2> QED
    BY <2>1, <2>2, <2>3
<1> QED
  BY <1>2, <1>3 DEF FilesInv

\* What the lock protects.
LockInv == TypeOK /\ CommandInv /\ FilesInv

\* It holds initially.
LEMMA LockInit == Init => LockInv
<1> SUFFICES ASSUME Init PROVE LockInv
  OBVIOUS
<1>1. \A c \in Ctl : pc[c] = "idle" /\ op[c] = NoCommand /\ lock # c
  BY ConstantsAssumption DEF Init
<1>2. CommandInv
  BY <1>1, NoCommandFacts DEF CommandInv, WellFormed, Working, Locked
<1>3. FilesInv
  BY <1>1 DEF FilesInv, Working, CleanCatchup, Init
<1> QED
  BY <1>2, <1>3, TypesInit DEF LockInv

\* The lock protocol, for every interleaving, refusal and crash.
LEMMA LockSafe == Spec => []LockInv
<1>1. Init => LockInv
  BY LockInit
<1>2. LockInv /\ [Next]_vars => LockInv'
  BY TypesNext, CommandNext, FilesNext DEF LockInv
<1> QED
  BY <1>1, <1>2, PTL DEF Spec

\* An installation without --replace never overwrites a definition, though
\* many processes may see the name free before they reach the lock: the second
\* look is under it (_install_task).
THEOREM NameNotClobbered == Spec => NoClobber
<1>1. LockInv /\ [Next]_vars
        => [\A c \in Ctl : WriteDefinition(c) /\ op[c].name = "install" /\ ~ op[c].replace
               => def[op[c].task] = "none"]_vars
  <2> SUFFICES ASSUME LockInv, NEW c \in Ctl, WriteDefinition(c), op[c].name = "install",
                      ~ op[c].replace
               PROVE  def[op[c].task] = "none"
    OBVIOUS
  <2>1. pc[c] = "files" /\ Working(c)
    BY DEF WriteDefinition, Working, Locked
  <2>2. Planned(c)
    BY <2>1 DEF LockInv, FilesInv, HolderInv, Early
  <2> QED
    BY <2>2 DEF Planned
<1> QED
  BY <1>1, LockSafe, PTL DEF Spec, NoClobber

\* Whenever the last locked operation completed, the catch-up trigger file
\* exists exactly if a valid definition qualifies, whatever operations failed
\* or died before it and whatever pause and resume do (_catchup_desired).
THEOREM CatchupMatches == Spec => []CatchupKept
<1>1. LockInv => CatchupKept
  BY DEF LockInv, FilesInv, CleanCatchup, CatchupKept
<1> QED
  BY <1>1, LockSafe, PTL

-----------------------------------------------------------------------------
(* The scheduler, when pause and resume overlap no locked operation.       *)

\* A trigger in the scheduler has its file and its definition.
Sound(l) == loaded[l] # "none" => trig[l] # "none" /\ (l \in Task => def[l] # "none")

\* The scheduler has a trigger for t exactly if one is to fire, unless nothing
\* is promised of it.
Armed(t, k) ==
    Unattended(k) \/ ((loaded[t] # "none") <=> (k # "disabled" /\ trig[t] # "none"))

Holds(t) == settled[t] # "unknown" => /\ def[t] = settled[t] /\ trig[t] = TriggerOf(settled[t])
                                      /\ Armed(t, settled[t])

Current(t) == settled[t] # "unknown" => loaded[t] \in {"none", trig[t]}

\* The deletions of the plan are unloaded before files go.
TakenDown(k) ==
    /\ pc[k] = "disable" /\ ~ refused => \A l \in plan.gone \ todo : loaded[l] = "none"
    /\ pc[k] \in {"stop", "files"} => \A l \in plan.gone : loaded[l] = "none"

\* k is dealing with the shared catch-up artifact.
Sweeping(k) ==
    \/ pc[k] = "sweep"
    \/ op[k].label = Catchup /\ pc[k] \in {"enable", "look", "bootout", "bootstrap", "accept"}

\* The task is dealt with before catch-up is.
Activated(k) ==
    LET t == op[k].task IN
    /\ Sweeping(k) => Armed(t, op[k].kind)
    /\ pc[k] = "accept" => loaded[op[k].label] # "none"
    /\ Backend = "systemd" /\ pc[k] \in {"activate", "sweep"} => loaded[t] \in {"none", trig[t]}

\* pause and resume act on an installed task.
SwitchInv(k) == op[k].name \in {"pause", "resume"} =>
                   def[op[k].task] # "none" /\ settled[op[k].task] = "unknown"

CatchupContent == trig[Catchup] \in {"none", "sweep"} /\ loaded[Catchup] \in {"none", "sweep"}

CleanArmed == Backend = "launchd" /\ clean => loaded[Catchup] = trig[Catchup]

SchedulerInv ==
    /\ \A l \in Label : Sound(l)
    /\ \A t \in Task : Holds(t) /\ (Backend = "systemd" => Current(t))
    /\ CatchupContent /\ CleanArmed
    /\ \A k \in Ctl : (Working(k) => TakenDown(k) /\ Activated(k)) /\ SwitchInv(k)

SerialInv == LockInv /\ SchedulerInv

\* While one process is past the lock, every other one is idle or waits for it.
LEMMA OneAtATime ==
    ASSUME ~Overlap, CommandInv, NEW c \in Ctl, NEW k \in Ctl \ {c}, pc[c] \notin {"idle", "wait"}
    PROVE  lock = c /\ pc[k] \in {"idle", "wait"} /\ ~Working(k)
           /\ op[k].name \notin {"pause", "resume"}
<1>1. WellFormed(c) /\ WellFormed(k)
  BY DEF CommandInv
<1>2. lock = c /\ pc[k] \in {"idle", "wait"}
  BY <1>1 DEF WellFormed
<1>3. op[k].name \notin {"pause", "resume"}
  BY <1>1, <1>2, NoCommandFacts DEF WellFormed, Locked
<1> QED
  BY <1>2, <1>3 DEF Working

\* A process that is idle or waits: it starts a command, takes the lock or dies.
LEMMA OutsideStep ==
    ASSUME ~Overlap, SerialInv, NEW c \in Ctl, Step(c), pc[c] \in {"idle", "wait"}
    PROVE  SchedulerInv'
<1>t. TypeOK /\ CommandInv /\ WellFormed(c) /\ SchedulerInv
  BY DEF SerialInv, LockInv, CommandInv
<1>1. /\ UNCHANGED <<def, trig, loaded>>
      /\ StartInstall(c) \/ StartRemove(c) \/ StartSwitch(c) \/ Lock(c) \/ Abort(c)
      /\ UNCHANGED <<hold, ghost>> \/ Lock(c) \/ StartSwitch(c)
  <2>1. ~Apply(c) /\ ~Activate(c) /\ ~Launchctl(c)
    <3>1. ~Apply(c)
      BY DEF Apply, DisableTimer, BootoutLabel, Deactivated, StopServices, WriteFile,
             WriteDefinition, Reload
    <3>2. ~Activate(c)
      BY DEF Activate, ActivateTask, ActivateLabel, SweepTimer, SweepLabel, SwitchTimer
    <3>3. ~Launchctl(c)
      BY DEF Launchctl, EnableLabel, Look, Bootout, Bootstrap, Accept, Bar, BarLook, BarOut
    <3> QED
      BY <3>1, <3>2, <3>3
  <2> QED
    BY <2>1 DEF Step, StartInstall, StartRemove, StartSwitch, Lock, Crash, Abort, files, sched
<1>2. /\ \A t \in Task : settled'[t] \in {settled[t], "unknown"}
      /\ clean' => clean
  <2>1. CASE StartSwitch(c)
    BY <2>1, <1>t, SwitchStep DEF TypeOK
  <2>2. CASE Lock(c)
    BY <2>2, <1>t DEF Lock, Abort, TypeOK, ghost
  <2> QED
    BY <1>1, <2>1, <2>2 DEF ghost
<1>3. /\ \A l \in Label : Sound(l)'
      /\ \A t \in Task : Holds(t)' /\ (Backend = "systemd" => Current(t)')
      /\ CatchupContent' /\ CleanArmed'
  <2>1. \A l \in Label : Sound(l)'
    BY <1>1, <1>t DEF SchedulerInv, Sound
  <2>2. ASSUME NEW t \in Task PROVE Holds(t)' /\ (Backend = "systemd" => Current(t)')
    BY <1>1, <1>2, <1>t DEF SchedulerInv, Holds, Current, Armed, TriggerOf
  <2> QED
    BY <2>1, <2>2, <1>1, <1>2, <1>t DEF SchedulerInv, CatchupContent, CleanArmed
<1>4. ASSUME NEW k \in Ctl
      PROVE  (Working(k)' => TakenDown(k)' /\ Activated(k)') /\ SwitchInv(k)'
  <2>1. CASE k = c
    <3>1. CASE Abort(c)
      <4>1. op'[c].name = "none"
        BY <3>1, <1>t, NoCommandFacts DEF Abort, Leave, TypeOK
      <4> QED
        BY <2>1, <4>1 DEF Working, Locked, SwitchInv
    <3>2. CASE StartSwitch(c)
      <4>1. op'[c].name \in {"pause", "resume"} /\ def'[op'[c].task] # "none"
            /\ settled'[op'[c].task] = "unknown"
        BY <3>2, <1>1, <1>t, SwitchStep DEF TypeOK
      <4> QED
        BY <2>1, <4>1 DEF Working, Locked, SwitchInv
    <3>3. CASE (StartInstall(c) \/ StartRemove(c)) /\ ~Abort(c)
      <4>1. pc'[c] = "wait" /\ op'[c].name \in {"install", "remove"}
        BY <3>3, <1>t DEF StartInstall, StartRemove, Goto, TypeOK
      <4> QED
        BY <2>1, <4>1 DEF Working, SwitchInv
    <3>4. CASE Lock(c) /\ ~Abort(c)
      <4>1. /\ pc'[c] = "disable" /\ plan' = PlanOf(c) /\ todo' = PlanOf(c).gone
            /\ op'[c].name \in {"install", "remove"}
        BY <3>4, <1>t DEF Lock, Goto, TypeOK, WellFormed, Locked
      <4> QED
        BY <2>1, <4>1 DEF TakenDown, Activated, Sweeping, SwitchInv
    <3> QED
      BY <1>1, <3>1, <3>2, <3>3, <3>4
  <2>2. CASE k # c /\ pc[k] \in {"idle", "wait"}
    <3>1. pc'[k] = pc[k] /\ op'[k] = op[k] /\ WellFormed(k)
      BY <2>2, <1>t, OthersUntouched DEF CommandInv
    <3>2. op[k].name \notin {"pause", "resume"}
      BY <2>2, <3>1, NoCommandFacts DEF WellFormed, Locked
    <3> QED
      BY <2>2, <3>1, <3>2 DEF Working, SwitchInv
  <2>3. CASE k # c /\ pc[k] \notin {"idle", "wait"}
    <3>1. pc'[k] = pc[k] /\ op'[k] = op[k] /\ lock = k
      BY <2>3, <1>t, OthersUntouched, OneAtATime
    <3>2. UNCHANGED <<plan, todo, refused, settled>>
      <4>1. ~Lock(c) /\ ~StartSwitch(c)
        BY <3>1, <1>t, SwitchStep, ConstantsAssumption DEF Lock
      <4> QED
        BY <4>1, <1>1 DEF hold, ghost
    <3> QED
      BY <3>1, <3>2, <1>1, <1>t DEF SchedulerInv, Working, Locked, TakenDown, Activated, Sweeping,
                                    Armed, SwitchInv
  <2> QED
    BY <2>1, <2>2, <2>3
<1> QED
  BY <1>3, <1>4 DEF SchedulerInv

\* A step of c that concerns, besides its own task and catch-up, nothing but
\* what a daemon-reload refreshes.
Outside(c) ==
    \A u \in Task \ {op[c].task} :
        /\ def'[u] = def[u] /\ trig'[u] = trig[u]
        /\ \/ loaded'[u] = loaded[u]
           \/ /\ Backend = "systemd" /\ loaded[u] # "none" /\ trig[u] # "none"
              /\ loaded'[u] = trig[u]

\* What such a step leaves to show.
LEMMA ProcessStep ==
    ASSUME ~Overlap, SerialInv, NEW c \in Ctl, Step(c), pc[c] \notin {"idle", "wait"}, Outside(c),
           NEW own \in Task, own = op[c].task,
           \A u \in Task \ {own} : settled'[u] = settled[u],
           Sound(own)', Sound(Catchup)', CatchupContent', CleanArmed',
           Holds(own)' /\ (Backend = "systemd" => Current(own)'),
           (Working(c)' => TakenDown(c)' /\ Activated(c)') /\ SwitchInv(c)'
    PROVE  SchedulerInv'
<1>t. TypeOK /\ CommandInv /\ SchedulerInv
  BY DEF SerialInv, LockInv
<1>1. ASSUME NEW l \in Label PROVE Sound(l)'
  <2>1. CASE l \in Task \ {own}
    BY <2>1, <1>t DEF Outside, SchedulerInv, Sound
  <2> QED
    BY <2>1 DEF Label
<1>2. ASSUME NEW t \in Task PROVE Holds(t)' /\ (Backend = "systemd" => Current(t)')
  <2>1. CASE t # own
    <3>1. Holds(t) /\ (Backend = "systemd" => Current(t))
      BY <1>t DEF SchedulerInv
    <3> QED
      BY <2>1, <3>1 DEF Outside, Holds, Current, Armed, TriggerOf
  <2> QED
    BY <2>1
<1>3. ASSUME NEW k \in Ctl
      PROVE  (Working(k)' => TakenDown(k)' /\ Activated(k)') /\ SwitchInv(k)'
  <2>1. CASE k # c
    <3>1. pc'[k] = pc[k] /\ op'[k] = op[k]
      BY <2>1, <1>t, OthersUntouched
    <3> QED
      BY <2>1, <3>1, <1>t, OneAtATime DEF Working, Locked, SwitchInv
  <2> QED
    BY <2>1
<1> QED
  BY <1>1, <1>2, <1>3 DEF SchedulerInv

\* The task of a process past the lock is not settled.
LEMMA Unsettled ==
    ASSUME SerialInv, NEW c \in Ctl, pc[c] \notin {"idle", "wait"}
    PROVE  /\ settled[op[c].task] = "unknown" /\ op[c].task \in Task /\ op[c].task # Catchup
           /\ Sound(op[c].task) /\ Sound(Catchup) /\ CatchupContent /\ CleanArmed
           /\ Locked(c) => /\ Working(c) /\ HolderInv(c) /\ TakenDown(c) /\ Activated(c) /\ ~clean
           /\ ~Locked(c) => op[c].name \in {"pause", "resume"} /\ def[op[c].task] # "none"
<1>t. TypeOK /\ WellFormed(c) /\ FilesInv /\ SchedulerInv
  BY DEF SerialInv, LockInv, CommandInv
<1>1. op[c].task \in Task /\ op[c].task # Catchup /\ op[c] \in Command
  BY <1>t, OperatorTypes, ConstantsAssumption
<1>2. Sound(op[c].task) /\ Sound(Catchup) /\ CatchupContent /\ CleanArmed
  BY <1>t, <1>1 DEF SchedulerInv, Label
<1>3. ASSUME Locked(c)
      PROVE  Working(c) /\ HolderInv(c) /\ TakenDown(c) /\ Activated(c) /\ ~clean
             /\ settled[op[c].task] = "unknown"
  <2>1. Working(c)
    BY <1>3 DEF Working
  <2> QED
    BY <2>1, <1>t DEF FilesInv, SchedulerInv, HolderInv
<1>4. ASSUME ~Locked(c)
      PROVE  op[c].name \in {"pause", "resume"} /\ def[op[c].task] # "none"
             /\ settled[op[c].task] = "unknown"
  <2>1. op[c].name \in {"pause", "resume"}
    BY <1>t, <1>1, <1>4 DEF WellFormed, Locked, Command
  <2> QED
    BY <2>1, <1>t DEF SchedulerInv, SwitchInv
<1> QED
  BY <1>1, <1>2, <1>3, <1>4

\* A step after which the command is still on its way, or has given up, or was
\* a pause or a resume.
LEMMA GoingOn ==
    ASSUME ~Overlap, SerialInv, NEW c \in Ctl, Step(c), pc[c] \notin {"idle", "wait"}, Outside(c),
           UNCHANGED ghost, NEW own \in Task, own = op[c].task,
           Sound(own)', Sound(Catchup)', CatchupContent',
           Locked(c) \/ UNCHANGED <<def, trig[Catchup], loaded[Catchup]>>,
           op'[c] \in {op[c], NoCommand, [op[c] EXCEPT !.label = Catchup]},
           Working(c)' => TakenDown(c)' /\ Activated(c)'
    PROVE  SchedulerInv'
<1>u. settled[op[c].task] = "unknown" /\ op[c].task \in Task /\ op[c] \in Command
  BY Unsettled DEF SerialInv, LockInv, TypeOK
<1>1. \A u \in Task : settled'[u] = settled[u]
  BY DEF ghost
<1>2. Holds(own)' /\ (Backend = "systemd" => Current(own)')
  BY <1>u, <1>1 DEF Holds, Current
<1>3. CleanArmed'
  BY Unsettled DEF CleanArmed, ghost
<1>4. SwitchInv(c)'
  <2>1. CASE op'[c] = NoCommand
    BY <2>1, NoCommandFacts DEF SwitchInv
  <2>2. CASE op'[c] \in {op[c], [op[c] EXCEPT !.label = Catchup]}
    <3>1. op'[c].name = op[c].name /\ op'[c].task = op[c].task
      BY <2>2, <1>u DEF Command
    <3> QED
      BY <3>1, <1>u, <1>1, Unsettled DEF SwitchInv, Locked
  <2> QED
    BY <2>1, <2>2
<1> QED
  BY <1>1, <1>2, <1>3, <1>4, ProcessStep

\* c gives up or dies, and leaves files and scheduler as they are.
Quits(c) == Abort(c) /\ UNCHANGED <<def, trig, loaded>>

\* That harms nothing.
LEMMA GivenUp ==
    ASSUME ~Overlap, SerialInv, NEW c \in Ctl, Step(c), pc[c] \notin {"idle", "wait"}, Quits(c)
    PROVE  SchedulerInv'
<1> USE DEF Quits
<1>1. op'[c] = NoCommand
  BY DEF Abort, Leave, SerialInv, LockInv, TypeOK
<1>2. ~Working(c)'
  BY <1>1, NoCommandFacts DEF Working, Locked
<1>3. UNCHANGED ghost
  BY DEF Abort
<1>4. Outside(c)
  BY DEF Outside
<1>5. (\A l \in Label : Sound(l)') /\ CatchupContent'
  BY DEF SerialInv, SchedulerInv, Sound, CatchupContent
<1>6. PICK own \in Task : own = op[c].task
  BY Unsettled
<1>7. Sound(own)' /\ Sound(Catchup)'
  BY <1>5 DEF Label
<1> QED
  BY <1>1, <1>2, <1>3, <1>4, <1>5, <1>6, <1>7, GoingOn

\* A completed install or remove.
LEMMA Completed ==
    ASSUME ~Overlap, SerialInv, NEW c \in Ctl, Step(c), pc[c] \notin {"idle", "wait"}, Locked(c),
           Succeed(c), pc[c] \notin Early, Sweeping(c), UNCHANGED <<def, trig>>,
           \A u \in Task : loaded'[u] = loaded[u],
           loaded'[Catchup] \in {loaded[Catchup], trig[Catchup]},
           Backend = "launchd" => loaded'[Catchup] = trig[Catchup],
           Backend = "systemd" => pc[c] = "sweep"
    PROVE  SchedulerInv'
<1>t. TypeOK
  BY DEF SerialInv, LockInv
<1>0. PICK own \in Task : own = op[c].task /\ own # Catchup
  BY Unsettled
<1>h. HolderInv(c) /\ Activated(c) /\ Sound(own) /\ Sound(Catchup) /\ CatchupContent
  BY <1>0, Unsettled
<1>1. op'[c] = NoCommand
  BY <1>t DEF Succeed, Leave, TypeOK
<1>2. ~Working(c)' /\ SwitchInv(c)'
  BY <1>1, NoCommandFacts DEF Working, Locked, SwitchInv
<1>3. Outside(c)
  BY DEF Outside
<1>4. /\ settled' = [settled EXCEPT ![op[c].task] = op[c].kind]
  BY DEF Succeed
<1>5. CleanArmed' /\ CatchupContent' /\ Sound(own)' /\ Sound(Catchup)'
  <2>1. CleanArmed'
    BY DEF CleanArmed
  <2>2. CatchupContent'
    BY <1>h DEF CatchupContent
  <2>3. Sound(own)' /\ Sound(Catchup)'
    BY <1>h, <1>0, ConstantsAssumption DEF Sound
  <2> QED
    BY <2>1, <2>2, <2>3
<1>6. Written(c) /\ Armed(own, op[c].kind)
  BY <1>0, <1>h DEF HolderInv, Activated
<1>7. Holds(own)' /\ (Backend = "systemd" => Current(own)')
  <2>1. settled'[own] = op[c].kind /\ def[own] = op[c].kind
    BY <1>0, <1>4, <1>6, <1>t DEF TypeOK, Written
  <2>2. trig[own] = TriggerOf(op[c].kind)
    BY <1>0, <1>6 DEF Written, Scope, Want
  <2>3. Holds(own)'
    BY <2>1, <2>2, <1>6 DEF Holds, Armed, TriggerOf
  <2>4. Backend = "systemd" => Current(own)'
    BY <2>1, <1>0, <1>h DEF Current, Activated
  <2> QED
    BY <2>3, <2>4
<1>8. \A u \in Task \ {own} : settled'[u] = settled[u]
  BY <1>0, <1>4, <1>t DEF TypeOK
<1> QED
  BY <1>0, <1>2, <1>3, <1>5, <1>7, <1>8, ProcessStep

\* A step that loads or unloads one label, or none.
LEMMA LabelStep ==
    ASSUME ~Overlap, SerialInv, NEW c \in Ctl, Step(c), pc[c] \notin {"idle", "wait"},
           UNCHANGED <<def, trig, ghost>>,
           NEW l \in {op[c].task, Catchup}, NEW v \in {"none", loaded[l], trig[l]},
           loaded' = [loaded EXCEPT ![l] = v], Locked(c) \/ l = op[c].task,
           l = op[c].task => v \in {"none", loaded[l]} \/ def[l] # "none",
           op'[c] \in {op[c], NoCommand, [op[c] EXCEPT !.label = Catchup]},
           Working(c)' => TakenDown(c)' /\ Activated(c)'
    PROVE  SchedulerInv'
<1>t. TypeOK
  BY DEF SerialInv, LockInv
<1>0. PICK own \in Task : own = op[c].task /\ own # Catchup
  BY Unsettled
<1>1. \A x \in Label : loaded'[x] = IF x = l THEN v ELSE loaded[x]
  BY <1>t, <1>0 DEF TypeOK, Label
<1>2. Outside(c)
  BY <1>0, <1>1, ConstantsAssumption DEF Outside, Label
<1>3. Sound(own)' /\ Sound(Catchup)' /\ CatchupContent'
  <2>1. Sound(own) /\ Sound(Catchup) /\ CatchupContent
    BY <1>0, Unsettled
  <2>2. Sound(own)'
    BY <2>1, <1>0, <1>1 DEF Sound, Label
  <2>3. Sound(Catchup)' /\ CatchupContent'
    BY <2>1, <1>0, <1>1, ConstantsAssumption DEF Sound, CatchupContent, Label
  <2> QED
    BY <2>2, <2>3
<1>4. Locked(c) \/ UNCHANGED <<def, trig[Catchup], loaded[Catchup]>>
  BY <1>0, <1>1 DEF Label
<1> QED
  BY <1>0, <1>2, <1>3, <1>4, GoingOn

\* A step that leaves files and scheduler as they are.
LEMMA NoEffect ==
    ASSUME ~Overlap, SerialInv, NEW c \in Ctl, Step(c), pc[c] \notin {"idle", "wait"},
           UNCHANGED <<def, trig, loaded, ghost>>,
           op'[c] \in {op[c], NoCommand, [op[c] EXCEPT !.label = Catchup]},
           Working(c)' => TakenDown(c)' /\ Activated(c)'
    PROVE  SchedulerInv'
<1>1. op[c].task \in Task
  BY Unsettled
<1>2. loaded' = [loaded EXCEPT ![op[c].task] = loaded[op[c].task]]
  BY DEF SerialInv, LockInv, TypeOK
<1> QED
  BY <1>2, LabelStep

\* apply, under the lock.
LEMMA ApplyStep ==
    ASSUME ~Overlap, SerialInv, NEW c \in Ctl, Apply(c), ~Quits(c)
    PROVE  SchedulerInv'
<1>t. TypeOK /\ WellFormed(c) /\ Step(c)
  BY DEF SerialInv, LockInv, CommandInv, Step
<1>p. pc[c] \in {"disable", "stop", "files", "reload"}
  BY DEF Apply, DisableTimer, BootoutLabel, Deactivated, StopServices, WriteFile, WriteDefinition,
         Reload
<1>0. PICK own \in Task : own = op[c].task /\ own # Catchup
  BY <1>p, Unsettled
<1>h. /\ Locked(c) /\ HolderInv(c) /\ TakenDown(c) /\ Activated(c)
      /\ Sound(own) /\ Sound(Catchup) /\ CatchupContent
  BY <1>0, <1>p, <1>t, Unsettled DEF WellFormed
<1>q. pc[c] \in Early => Planned(c)
  BY <1>h DEF HolderInv
<1>s. Scope(c) = {own, Catchup} /\ Scope(c) \subseteq Label
  BY <1>0 DEF Scope, Label
<1> USE DEF files, sched, hold, ghost, busy, Goto, Quits
<1>1. CASE DisableTimer(c) \/ BootoutLabel(c)
  <2>1. pc[c] = "disable" /\ UNCHANGED <<def, trig, ghost, pc, op, plan>> /\ todo \subseteq Scope(c)
    BY <1>1, <1>q DEF DisableTimer, BootoutLabel, Planned, Early
  <2>2. CASE refused'
    <3>1. Working(c)' => TakenDown(c)' /\ Activated(c)'
      BY <2>1, <2>2 DEF TakenDown, Activated, Sweeping
    <3>2. UNCHANGED loaded \/ \E l \in todo : loaded' = [loaded EXCEPT ![l] = "none"]
      BY <1>1 DEF DisableTimer, BootoutLabel, Unload
    <3>3. CASE UNCHANGED loaded
      BY <2>1, <3>1, <3>3, <1>p, <1>t, NoEffect
    <3>4. CASE \E l \in todo : loaded' = [loaded EXCEPT ![l] = "none"]
      <4>1. PICK l \in {op[c].task, Catchup} : loaded' = [loaded EXCEPT ![l] = "none"]
        BY <2>1, <3>4, <1>s, <1>0
      <4> QED
        BY <2>1, <3>1, <4>1, <1>p, <1>h, <1>t, LabelStep
    <3> QED
      BY <3>2, <3>3, <3>4
  <2>3. CASE ~refused'
    <3>1. PICK l \in todo : loaded' = [loaded EXCEPT ![l] = "none"] /\ todo' = todo \ {l} /\ ~refused
      BY <1>1, <2>3 DEF DisableTimer, BootoutLabel, Unload
    <3>2. TakenDown(c)' /\ Activated(c)'
      BY <2>1, <3>1, <1>h, <1>t DEF TakenDown, Activated, Sweeping, TypeOK
    <3>3. l \in {op[c].task, Catchup}
      BY <2>1, <1>s, <1>0
    <3> QED
      BY <2>1, <3>1, <3>2, <3>3, <1>p, <1>h, <1>t, LabelStep
  <2> QED
    BY <2>2, <2>3
<1>2. CASE Deactivated(c)
  <2>1. /\ pc[c] = "disable" /\ ~refused /\ todo = {} /\ pc'[c] \in {"stop", "files"}
        /\ UNCHANGED <<def, trig, loaded, ghost, op, plan>>
    BY <1>2, <1>t DEF Deactivated, MayDelete, TypeOK
  <2>2. TakenDown(c)' /\ Activated(c)'
    BY <2>1, <1>h DEF TakenDown, Activated, Sweeping
  <2> QED
    BY <2>1, <2>2, <1>p, <1>t, NoEffect
<1>3. CASE StopServices(c)
  <2>1. /\ pc[c] = "stop" /\ pc'[c] = "files"
        /\ UNCHANGED <<def, trig, loaded, ghost, op, plan>>
    BY <1>3, <1>t DEF StopServices, TypeOK
  <2>2. TakenDown(c)' /\ Activated(c)'
    BY <2>1, <1>h DEF TakenDown, Activated, Sweeping
  <2> QED
    BY <2>1, <2>2, <1>p, <1>t, NoEffect
<1>4. CASE WriteFile(c)
  <2>1. PICK l \in todo : trig' = [trig EXCEPT ![l] = Want(c, l)]
    BY <1>4 DEF WriteFile
  <2>2. pc[c] = "files" /\ UNCHANGED <<def, loaded, ghost, pc, op, plan>>
    BY <1>4 DEF WriteFile
  <2>3. /\ l \in Scope(c) /\ l \in plan.gone \cup plan.put
        /\ l \in plan.gone => loaded[l] = "none"
        /\ l \in plan.put => Want(c, l) # "none"
    BY <2>2, <1>q, <1>h DEF Planned, Early, TakenDown
  <2>4. \A x \in Label : trig'[x] = IF x = l THEN Want(c, l) ELSE trig[x]
    BY <2>1, <2>3, <1>s, <1>t DEF TypeOK
  <2>5. Outside(c)
    BY <2>2, <2>3, <2>4, <1>s, <1>0, ConstantsAssumption DEF Outside, Label
  <2>6. Sound(own)' /\ Sound(Catchup)'
    BY <2>2, <2>3, <2>4, <1>h, <1>s, ConstantsAssumption DEF Sound
  <2>7. CatchupContent'
    BY <2>2, <2>3, <2>4, <1>h, <1>s DEF CatchupContent, Want
  <2>8. TakenDown(c)' /\ Activated(c)'
    BY <2>2, <1>h DEF TakenDown, Activated, Sweeping
  <2> QED
    BY <2>2, <2>5, <2>6, <2>7, <2>8, <1>0, <1>h, <1>p, <1>t, GoingOn
<1>5. CASE WriteDefinition(c)
  <2>1. /\ pc[c] = "files" /\ todo = {} /\ pc'[c] = "reload" /\ def' = After(c)
        /\ UNCHANGED <<trig, loaded, ghost, op>>
    BY <1>5, <1>t DEF WriteDefinition, TypeOK
  <2>2. trig[own] = Want(c, own)
    BY <2>1, <1>q, <1>s DEF Planned, Early
  <2>3. \A u \in Task : def'[u] = IF u = own THEN op[c].kind ELSE def[u]
    BY <2>1, <1>0, <1>t DEF After, TypeOK
  <2>4. Outside(c)
    BY <2>1, <2>3, <1>0 DEF Outside
  <2>5. Sound(own)' /\ Sound(Catchup)' /\ CatchupContent'
    BY <2>1, <2>2, <2>3, <1>0, <1>h, ConstantsAssumption
       DEF Sound, CatchupContent, Want, TriggerOf
  <2>6. TakenDown(c)' /\ Activated(c)'
    BY <2>1 DEF TakenDown, Activated, Sweeping
  <2> QED
    BY <2>1, <2>4, <2>5, <2>6, <1>0, <1>h, <1>p, <1>t, GoingOn
<1>6. CASE Reload(c)
  <2>1. /\ pc[c] = "reload" /\ UNCHANGED <<def, trig, ghost, op>>
        /\ loaded' = [l \in Label |->
                        IF Backend = "systemd" /\ loaded[l] # "none" /\ trig[l] # "none"
                        THEN trig[l] ELSE loaded[l]]
        /\ pc'[c] = IF op[c].name = "install" THEN "activate" ELSE "sweep"
    BY <1>6, <1>t DEF Reload, TypeOK
  <2>2. own \in Label /\ Catchup \in Label
    BY DEF Label
  <2>3. Outside(c)
    BY <2>1 DEF Outside, Label
  <2>4. Sound(own)' /\ Sound(Catchup)' /\ CatchupContent'
    BY <2>1, <2>2, <1>h DEF Sound, CatchupContent
  <2>5. TakenDown(c)' /\ Activated(c)'
    <3>1. Backend = "systemd" => loaded'[own] \in {"none", trig'[own]}
      BY <2>1, <2>2, <1>h DEF Sound
    <3>2. CASE op[c].name = "install"
      BY <2>1, <3>1, <3>2, <1>0 DEF TakenDown, Activated, Sweeping
    <3>3. CASE op[c].name = "remove"
      <4>1. op[c].kind = "none" /\ Written(c)
        BY <2>1, <3>3, <1>h, <1>t DEF WellFormed, HolderInv, Early
      <4>2. trig[own] = "none" /\ loaded[own] = "none"
        BY <4>1, <1>0, <1>s, <1>h DEF Written, Want, TriggerOf, Sound
      <4>3. loaded'[own] = "none" /\ trig'[own] = "none"
        BY <2>1, <2>2, <4>2
      <4> QED
        BY <2>1, <3>3, <4>3, <1>0 DEF TakenDown, Activated, Armed
    <3> QED
      BY <3>2, <3>3, <1>h DEF Locked
  <2> QED
    BY <2>1, <2>3, <2>4, <2>5, <1>0, <1>h, <1>p, <1>t, GoingOn
<1> QED
  BY <1>1, <1>2, <1>3, <1>4, <1>5, <1>6 DEF Apply

\* A pause or a resume that ends leaves no record.
LEMMA SwitchEnds ==
    ASSUME TypeOK, NEW c \in Ctl, ~Locked(c), Succeed(c)
    PROVE  UNCHANGED ghost /\ op'[c] = NoCommand /\ ~Working(c)'
<1>1. UNCHANGED ghost /\ op'[c] = NoCommand
  BY DEF Succeed, Leave, TypeOK
<1> QED
  BY <1>1, NoCommandFacts DEF Working, Locked

\* Activation by systemctl, and the way to it with launchctl.
LEMMA ActivateStep ==
    ASSUME ~Overlap, SerialInv, NEW c \in Ctl, Activate(c), ~Quits(c)
    PROVE  SchedulerInv'
<1>t. TypeOK /\ WellFormed(c) /\ Step(c) /\ Backend \in {"systemd", "launchd"}
  BY ConstantsAssumption DEF SerialInv, LockInv, CommandInv, Step
<1>p. pc[c] \in {"activate", "sweep", "enable", "bar"}
  BY DEF Activate, ActivateTask, ActivateLabel, SweepTimer, SweepLabel, SwitchTimer
<1>0. PICK own \in Task : own = op[c].task /\ own # Catchup
  BY <1>p, Unsettled
<1>h. /\ Sound(own) /\ Sound(Catchup) /\ CatchupContent
      /\ Locked(c) => HolderInv(c) /\ Activated(c)
      /\ ~Locked(c) => def[own] # "none"
  BY <1>0, <1>p, Unsettled
<1>w. Locked(c) => Written(c) /\ trig[own] = TriggerOf(op[c].kind)
  BY <1>h, <1>p, <1>0 DEF HolderInv, Early, Written, Scope, Want
<1> USE DEF files, sched, hold, ghost, busy, Goto, Quits
<1>1. CASE ActivateTask(c)
  <2>1. /\ Backend = "systemd" /\ pc[c] = "activate" /\ pc'[c] = "sweep"
        /\ UNCHANGED <<def, trig, ghost, op>> /\ Locked(c) /\ op[c].kind \in Kind
    BY <1>1, <1>t DEF ActivateTask, TypeOK, WellFormed, Locked
  <2>2. loaded[own] \in {"none", trig[own]} /\ def[own] = op[c].kind
    BY <2>1, <1>h, <1>w, <1>0 DEF Activated, Written
  <2>3. PICK v \in {"none", loaded[own], trig[own]} :
           /\ loaded' = [loaded EXCEPT ![own] = v] /\ v \in {"none", trig[own]}
           /\ (v # "none") <=> (op[c].kind # "disabled" /\ trig[own] # "none")
    <3>n. loaded = [loaded EXCEPT ![own] = loaded[own]]
      BY <1>t DEF TypeOK
    <3>1. CASE op[c].kind \in {"manual", "dormant"}
      <4>1. UNCHANGED loaded /\ trig[own] = "none" /\ loaded[own] = "none"
        BY <1>1, <2>1, <3>1, <1>w, <1>h DEF ActivateTask, Scheduled, TriggerOf, Sound
      <4> QED
        BY <3>n, <4>1
    <3>2. CASE op[c].kind = "disabled"
      BY <1>1, <3>2, <1>0 DEF ActivateTask, Scheduled, Unload
    <3>3. CASE op[c].kind \in {"calendar", "interval"}
      <4>1. EnableTimer(own)
        BY <1>1, <3>3, <1>0 DEF ActivateTask, Scheduled
      <4> QED
        BY <3>3, <3>n, <4>1, <2>2 DEF EnableTimer
    <3> QED
      BY <2>1, <3>1, <3>2, <3>3 DEF Kind
  <2>4. loaded'[own] = v
    BY <2>3, <1>t DEF TypeOK, Label
  <2>5. TakenDown(c)' /\ Activated(c)'
    BY <2>1, <2>3, <2>4, <1>0 DEF TakenDown, Activated, Armed
  <2>6. def[own] # "none"
    BY <2>1, <2>2 DEF Kind
  <2> QED
    BY <2>1, <2>3, <2>5, <2>6, <1>0, <1>p, <1>t, LabelStep
<1>2. CASE ActivateLabel(c)
  <2>1. /\ Backend = "launchd" /\ pc[c] = "activate"
        /\ \/ pc'[c] \in {"bar", "enable"}
           \/ pc'[c] = "sweep" /\ op[c].kind = "dormant"
        /\ UNCHANGED <<def, trig, loaded, ghost, op>> /\ op[c].label = own
    BY <1>2, <1>t, <1>0 DEF ActivateLabel, TypeOK, WellFormed, Locked
  <2>2. TakenDown(c)' /\ Activated(c)'
    BY <2>1, <1>0 DEF TakenDown, Activated, Sweeping, Armed, Unattended
  <2> QED
    BY <2>1, <2>2, <1>p, <1>t, NoEffect
<1>3. CASE SweepTimer(c)
  <2>1. /\ Backend = "systemd" /\ pc[c] = "sweep" /\ Succeed(c) /\ Locked(c)
        /\ UNCHANGED <<def, trig>>
        /\ UNCHANGED loaded \/ loaded' = [loaded EXCEPT ![Catchup] = trig[Catchup]]
    BY <1>3, <1>t DEF SweepTimer, EnableTimer, WellFormed
  <2>2. (\A u \in Task : loaded'[u] = loaded[u]) /\ loaded'[Catchup] \in {loaded[Catchup], trig[Catchup]}
    BY <2>1, <1>t, ConstantsAssumption DEF TypeOK, Label
  <2> QED
    BY <2>1, <2>2, <1>p, <1>t, Completed DEF Sweeping, Early
<1>4. CASE SweepLabel(c)
  <2>1. /\ Backend = "launchd" /\ pc[c] = "sweep" /\ Locked(c) /\ UNCHANGED <<def, trig, loaded>>
    BY <1>4, <1>t DEF SweepLabel, WellFormed
  <2>2. CASE plan.sweep
    <3>1. op'[c] = [op[c] EXCEPT !.label = Catchup] /\ pc'[c] = "enable" /\ UNCHANGED ghost
      BY <1>4, <2>2, <1>t DEF SweepLabel, TypeOK
    <3>2. op'[c].task = own /\ op'[c].kind = op[c].kind
      BY <3>1, <1>0, <1>t DEF TypeOK, Command
    <3>3. Armed(own, op[c].kind)
      BY <2>1, <1>h, <1>0 DEF Activated, Sweeping
    <3>4. TakenDown(c)' /\ Activated(c)'
      BY <2>1, <3>1, <3>2, <3>3 DEF TakenDown, Activated, Armed
    <3> QED
      BY <2>1, <3>1, <3>4, <1>p, <1>t, NoEffect
  <2>3. CASE ~plan.sweep
    <3>1. trig[Catchup] = "none" /\ loaded[Catchup] = "none"
      BY <2>1, <2>3, <1>h, <1>w DEF HolderInv, Written, Scope, Want, Sound
    <3>2. Succeed(c)
      BY <1>4, <2>3 DEF SweepLabel
    <3> QED
      BY <2>1, <3>1, <3>2, <1>p, <1>t, Completed DEF Sweeping, Early
  <2> QED
    BY <2>2, <2>3
<1>5. CASE SwitchTimer(c)
  <2>1. /\ Succeed(c) /\ ~Locked(c) /\ UNCHANGED <<def, trig>>
        /\ Unload(own) \/ EnableTimer(own)
    BY <1>5, <1>t, <1>0 DEF SwitchTimer, WellFormed
  <2>2. \E v \in {"none", loaded[own], trig[own]} : loaded' = [loaded EXCEPT ![own] = v]
    <3>1. loaded = [loaded EXCEPT ![own] = loaded[own]]
      BY <1>t DEF TypeOK
    <3> QED
      BY <2>1, <3>1 DEF Unload, EnableTimer
  <2> QED
    BY <2>1, <2>2, <1>0, <1>h, <1>p, <1>t, SwitchEnds, LabelStep
<1> QED
  BY <1>1, <1>2, <1>3, <1>4, <1>5 DEF Activate

\* launchctl: _activate_label, pause and resume.
LEMMA LaunchctlStep ==
    ASSUME ~Overlap, SerialInv, NEW c \in Ctl, Launchctl(c), ~Quits(c)
    PROVE  SchedulerInv'
<1>t. TypeOK /\ WellFormed(c) /\ Step(c) /\ Backend \in {"systemd", "launchd"}
  BY ConstantsAssumption DEF SerialInv, LockInv, CommandInv, Step
<1>p. pc[c] \in {"enable", "look", "bootout", "bootstrap", "accept", "bar", "barlook", "barout"}
  BY DEF Launchctl, EnableLabel, Look, Bootout, Bootstrap, Accept, Bar, BarLook, BarOut
<1>0. PICK own \in Task : own = op[c].task /\ own # Catchup
  BY <1>p, Unsettled
<1>h. /\ Sound(own) /\ Sound(Catchup) /\ CatchupContent
      /\ Locked(c) => HolderInv(c) /\ Activated(c)
      /\ ~Locked(c) => def[own] # "none" /\ op[c].name \in {"pause", "resume"}
  BY <1>0, <1>p, Unsettled
<1>w. Locked(c) => Written(c)
  BY <1>h, <1>p DEF HolderInv, Early
<1>l. /\ L(c) = op[c].label /\ L(c) \in {own, Catchup} /\ (~Locked(c) => L(c) = own)
      /\ L(c) = own => def[own] # "none"
  <2>1. CASE op[c].name = "install"
    BY <2>1, <1>t, <1>0, <1>w DEF WellFormed, L, Locked, Written, Kind
  <2>2. CASE op[c].name = "remove"
    BY <2>2, <1>t, <1>0 DEF WellFormed, L, Locked
  <2>3. CASE ~Locked(c)
    BY <2>3, <1>t, <1>0, <1>h DEF WellFormed, L
  <2> QED
    BY <2>1, <2>2, <2>3 DEF Locked
<1>r. \A i : ~Refuse(c, i)
  BY DEF Refuse, Quits, files, sched
<1>f. ~Refuse(c, FALSE)
  BY DEF Refuse, Quits, files, sched
<1>g. ASSUME Locked(c), L(c) = Catchup, pc[c] \in {"enable", "look", "bootout", "bootstrap", "accept"}
      PROVE  Armed(own, op[c].kind)
  BY <1>g, <1>h, <1>0, <1>l DEF Activated, Sweeping
<1>n. loaded = [loaded EXCEPT ![own] = loaded[own]] /\ own \in Label /\ Catchup \in Label
  BY <1>t DEF TypeOK, Label
<1> USE DEF files, sched, hold, ghost, busy, Goto
<1>1. CASE EnableLabel(c) \/ Bar(c)
  <2>1. /\ UNCHANGED <<def, trig, loaded, ghost, op>>
        /\ \/ pc[c] = "enable" /\ pc'[c] = "look"
           \/ pc[c] = "bar" /\ pc'[c] = "barlook"
    BY <1>1, <1>f, <1>t DEF EnableLabel, Bar, TypeOK
  <2>2. Working(c)' => TakenDown(c)' /\ Activated(c)'
    BY <2>1, <1>0, <1>g, <1>l DEF TakenDown, Activated, Sweeping, Armed, Working, Locked
  <2> QED
    BY <2>1, <2>2, <1>p, <1>t, NoEffect
<1>2. CASE Look(c)
  <2>1. pc[c] = "look" /\ UNCHANGED <<def, trig, loaded>>
    BY <1>2 DEF Look
  <2>2. CASE ~Locked(c) /\ Succeed(c)
    BY <2>1, <2>2, <1>p, <1>t, SwitchEnds, NoEffect
  <2>3. CASE /\ UNCHANGED <<ghost, op>> /\ pc'[c] \in {"bootout", "bootstrap", "accept"}
             /\ pc'[c] = "accept" => loaded[L(c)] # "none"
    <3>1. Working(c)' => TakenDown(c)' /\ Activated(c)'
      BY <2>1, <2>3, <1>0, <1>g, <1>l DEF TakenDown, Activated, Sweeping, Armed, Working, Locked
    <3> QED
      BY <2>1, <2>3, <3>1, <1>p, <1>t, NoEffect
  <2>4. \/ ~Locked(c) /\ Succeed(c)
        \/ /\ UNCHANGED <<ghost, op>> /\ pc'[c] \in {"bootout", "bootstrap", "accept"}
           /\ pc'[c] = "accept" => loaded[L(c)] # "none"
    BY <1>2, <1>t DEF Look, LoadState, TypeOK
  <2> QED
    BY <2>2, <2>3, <2>4
<1>3. CASE Bootout(c)
  <2>1. /\ pc[c] = "bootout" /\ pc'[c] = "bootstrap" /\ UNCHANGED <<def, trig, ghost, op>>
        /\ loaded' = [loaded EXCEPT ![L(c)] = "none"]
    BY <1>3, <1>r, <1>t DEF Bootout, Unload, TypeOK
  <2>2. Working(c)' => TakenDown(c)' /\ Activated(c)'
    BY <2>1, <1>0, <1>g, <1>l, <1>n, <1>t DEF TakenDown, Activated, Sweeping, Armed, Working, Locked, TypeOK
  <2> QED
    BY <2>1, <2>2, <1>0, <1>l, <1>p, <1>t, LabelStep
<1>4. CASE Bootstrap(c)
  <2>1. /\ pc[c] = "bootstrap" /\ UNCHANGED <<def, trig>>
        /\ loaded' = [loaded EXCEPT ![L(c)] = trig[L(c)]] /\ trig[L(c)] # "none"
        /\ IF Locked(c) THEN pc'[c] = "accept" /\ UNCHANGED <<ghost, op>> ELSE Succeed(c)
    BY <1>4, <1>r, <1>t DEF Bootstrap, TypeOK
  <2>2. UNCHANGED ghost /\ op'[c] \in {op[c], NoCommand}
    BY <2>1, <1>t, SwitchEnds
  <2>3. Working(c)' => TakenDown(c)' /\ Activated(c)'
    <3>1. CASE ~Locked(c)
      BY <2>1, <3>1, <1>t, SwitchEnds
    <3>2. CASE Locked(c)
      BY <2>1, <3>2, <1>0, <1>g, <1>l, <1>n, <1>t DEF TakenDown, Activated, Sweeping, Armed, TypeOK,
          WellFormed
    <3> QED
      BY <3>1, <3>2
  <2> QED
    BY <2>1, <2>2, <2>3, <1>0, <1>l, <1>p, <1>t, LabelStep
<1>5. CASE Accept(c)
  <2>1. /\ pc[c] = "accept" /\ UNCHANGED <<def, trig, loaded>> /\ Locked(c) /\ Backend = "launchd"
        /\ loaded[L(c)] # "none"
    BY <1>5, <1>t, <1>h, <1>l DEF Accept, WellFormed, Activated
  <2>2. CASE L(c) = Catchup
    <3>1. Succeed(c)
      BY <1>5, <2>2 DEF Accept
    <3>2. loaded[Catchup] = trig[Catchup]
      BY <2>1, <2>2, <1>h DEF Sound, CatchupContent
    <3> QED
      BY <2>1, <2>2, <3>1, <3>2, <1>l, <1>p, <1>t, Completed DEF Sweeping, Early
  <2>3. CASE L(c) # Catchup
    <3>1. pc'[c] = "sweep" /\ UNCHANGED <<ghost, op>> /\ L(c) = own
      BY <1>5, <2>3, <1>l, <1>t DEF Accept, TypeOK
    <3>2. op[c].kind \notin {"disabled", "dormant"}
      BY <2>1, <3>1, <1>t, <1>0, <1>l DEF WellFormed, Locked
    <3>3. Armed(own, op[c].kind)
      BY <2>1, <3>1, <3>2, <1>h DEF Armed, Sound
    <3>4. TakenDown(c)' /\ Activated(c)'
      BY <2>1, <3>1, <3>3, <1>0 DEF TakenDown, Activated, Armed
    <3> QED
      BY <2>1, <3>1, <3>4, <1>p, <1>t, NoEffect
  <2> QED
    BY <2>2, <2>3
<1>6. CASE BarLook(c) \/ BarOut(c)
  <2>1. /\ UNCHANGED <<def, trig>> /\ pc[c] \in {"barlook", "barout"}
        /\ loaded' = loaded \/ loaded' = [loaded EXCEPT ![L(c)] = "none"]
        /\ \/ Barred(c) /\ loaded'[L(c)] = "none"
           \/ UNCHANGED <<ghost, op>> /\ pc'[c] = "barout"
    BY <1>6, <1>r, <1>l, <1>n, <1>t DEF BarLook, BarOut, Unload, LoadState, TypeOK
  <2>2. Locked(c) => L(c) = own /\ op[c].kind = "disabled"
    BY <2>1, <1>t, <1>l, <1>0 DEF WellFormed, Locked
  <2>3. L(c) = own
    BY <2>2, <1>l
  <2>4. UNCHANGED ghost /\ op'[c] \in {op[c], NoCommand}
    BY <2>1, <1>t, SwitchEnds DEF Barred
  <2>5. Working(c)' => TakenDown(c)' /\ Activated(c)'
    <3>1. CASE Barred(c) /\ loaded'[L(c)] = "none" /\ ~Locked(c)
      BY <3>1, <1>t, SwitchEnds DEF Barred
    <3>2. CASE Barred(c) /\ loaded'[L(c)] = "none" /\ Locked(c)
      <4>1. pc'[c] = "sweep" /\ UNCHANGED op /\ loaded'[own] = "none" /\ op[c].kind = "disabled"
        BY <3>2, <2>1, <2>2, <2>3, <1>t DEF Barred, TypeOK
      <4> QED
        BY <4>1, <1>0 DEF TakenDown, Activated, Armed
    <3>3. CASE UNCHANGED <<ghost, op>> /\ pc'[c] = "barout"
      BY <3>3 DEF TakenDown, Activated, Sweeping
    <3> QED
      BY <2>1, <3>1, <3>2, <3>3
  <2>6. \E v \in {"none", loaded[own]} : loaded' = [loaded EXCEPT ![own] = v]
    BY <2>1, <2>3, <1>n
  <2> QED
    BY <2>1, <2>4, <2>5, <2>6, <1>0, <1>p, <1>t, LabelStep
<1> QED
  BY <1>1, <1>2, <1>3, <1>4, <1>5, <1>6 DEF Launchctl

\* Every step keeps what the scheduler has in line with the files.
LEMMA SchedulerNext ==
    ASSUME ~Overlap PROVE SerialInv /\ [Next]_vars => SchedulerInv'
<1> SUFFICES ASSUME SerialInv, [Next]_vars PROVE SchedulerInv'
  OBVIOUS
<1>1. CASE UNCHANGED vars
  <2>1. UNCHANGED <<def, trig, loaded, pc, op, plan, todo, refused, settled, clean>>
    BY <1>1 DEF vars, files, sched, hold, ghost
  <2> QED
    BY <2>1 DEF SerialInv, SchedulerInv, Sound, Holds, Current, Armed, TriggerOf, CatchupContent,
                CleanArmed, Working, Locked, TakenDown, Activated, Sweeping, SwitchInv
<1> SUFFICES ASSUME NEW c \in Ctl, Step(c) PROVE SchedulerInv'
  BY <1>1 DEF Next, Step
<1>2. CASE pc[c] \in {"idle", "wait"}
  BY <1>2, OutsideStep
<1>3. CASE pc[c] \notin {"idle", "wait"}
  <2>1. ~StartInstall(c) /\ ~StartRemove(c) /\ ~StartSwitch(c) /\ ~Lock(c)
    BY <1>3 DEF StartInstall, StartRemove, StartSwitch, Lock
  <2>2. Crash(c) => Quits(c)
    BY DEF Crash, Quits, files, sched
  <2> QED
    BY <1>3, <2>1, <2>2, GivenUp, ApplyStep, ActivateStep, LaunchctlStep DEF Step
<1> QED
  BY <1>2, <1>3

\* Files and scheduler stay in line, for every refusal and crash.
LEMMA SerialSafe == ASSUME ~Overlap PROVE Spec => []SerialInv
<1>1. Init => SchedulerInv
  <2> SUFFICES ASSUME Init PROVE SchedulerInv
    OBVIOUS
  <2>1. /\ \A c \in Ctl : op[c].name = "none"
        /\ \A l \in Label : trig[l] = "none" /\ loaded[l] = "none"
        /\ \A t \in Task : settled[t] = "unknown"
        /\ Catchup \in Label
    BY NoCommandFacts DEF Init, Label
  <2>2. CatchupContent /\ CleanArmed /\ \A l \in Label : Sound(l)
    BY <2>1 DEF CatchupContent, CleanArmed, Sound
  <2>3. \A t \in Task : Holds(t) /\ Current(t)
    BY <2>1 DEF Holds, Current
  <2>4. \A k \in Ctl : ~Working(k) /\ SwitchInv(k)
    BY <2>1 DEF Working, Locked, SwitchInv
  <2> QED
    BY <2>2, <2>3, <2>4 DEF SchedulerInv
<1>2. SerialInv /\ [Next]_vars => SerialInv'
  BY SchedulerNext, TypesNext, CommandNext, FilesNext DEF SerialInv, LockInv
<1>3. Init => LockInv
  BY LockInit
<1>4. Init => SerialInv
  BY <1>1, <1>3 DEF SerialInv
<1> QED
  BY <1>2, <1>4, PTL DEF Spec

\* The scheduler acts on no trigger without file and definition: wherever an
\* install or a remove is refused or dies, files go after their trigger is
\* down, and nothing loads one whose definition is gone (Backend.apply).
THEOREM NoOrphans == ASSUME ~Overlap PROVE Spec => []NoOrphanTrigger
<1>1. SerialInv => NoOrphanTrigger
  BY DEF SerialInv, SchedulerInv, Sound, NoOrphanTrigger
<1> QED
  BY <1>1, SerialSafe, PTL

\* A completed install or remove has done what it says, on either backend (for a
\* task disabled without schedule, in the files), and nothing but a later command on the same task undoes it (_install_task,
\* remove_task).
THEOREM CompletedHolds == ASSUME ~Overlap PROVE Spec => []InstallHolds
<1>1. SerialInv => InstallHolds
  BY DEF SerialInv, SchedulerInv, Holds, Armed, InstallHolds
<1> QED
  BY <1>1, SerialSafe, PTL

\* On systemd the timer loaded for a completed install is the one on disk, even
\* if a failed attempt left an older one active: daemon-reload and enable come
\* after the files (SystemdBackend.activate).
THEOREM LoadedFromDisk == ASSUME ~Overlap, Backend = "systemd" PROVE Spec => []LoadedIsCurrent
<1>1. SerialInv => LoadedIsCurrent
  BY DEF SerialInv, SchedulerInv, Current, LoadedIsCurrent
<1> QED
  BY <1>1, SerialSafe, PTL

\* On launchd a completed operation leaves catch-up loaded exactly if its file
\* is there: a record of an earlier activation is believed only if the label
\* is still loaded (LaunchdBackend._activate_label).
THEOREM CatchupLoaded == ASSUME ~Overlap, Backend = "launchd" PROVE Spec => []CatchupArmed
<1>1. SerialInv => CatchupArmed
  BY DEF SerialInv, SchedulerInv, CleanArmed, CatchupArmed
<1> QED
  BY <1>1, SerialSafe, PTL
=============================================================================
