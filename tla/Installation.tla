---------------------------- MODULE Installation ----------------------------
(***************************************************************************)
(* Installed definitions and the scheduler: cli._install_task, remove_task,*)
(* pause and resume over backends.Backend.plan and apply, the systemd and  *)
(* launchd backends and the activation records.  Each control process      *)
(* c \in Ctl is one actl command.  A label stands for the files of a task, *)
(* or of the shared catch-up artifact: its trigger file (timer or plist)   *)
(* is modelled; a systemd service file is written and deleted along with   *)
(* the definition and no decision reads it.                                *)
(***************************************************************************)
EXTENDS Naturals, FiniteSets

CONSTANTS
    Task,       \* the task names
    Catchup,    \* the label of the shared catch-up artifact
    Ctl,        \* the control processes
    Backend,    \* "systemd" or "launchd"
    Ops,        \* the commands issued
    Faults,     \* "refuse": a scheduler command fails; "unknown": launchctl
                \* print fails; "crash": a control process dies
    Overlap     \* may pause and resume overlap a locked operation?

ASSUME ConstantsAssumption ==
    /\ Task # {} /\ Catchup \notin Task
    /\ Ctl \cap {"free"} = {}
    /\ Backend \in {"systemd", "launchd"}
    /\ Ops \subseteq {"install", "remove", "pause", "resume"}
    /\ Faults \subseteq {"refuse", "unknown", "crash"}
    /\ Overlap \in BOOLEAN

Label == Task \cup {Catchup}

\* What a definition can be: without schedule, on a calendar (persistent, so
\* that it qualifies for catch-up), on an interval, on a calendar but disabled,
\* or disabled without schedule ("dormant").
Kind      == {"manual", "calendar", "interval", "disabled", "dormant"}
Scheduled == {"calendar", "interval", "disabled"}
Content   == {"manual", "calendar", "interval", "sweep"}

VARIABLES
    def,         \* def[t]: tasks/<t>.toml; "corrupt" if it does not parse
    trig,        \* trig[l]: content of the trigger file, or "none"
    loaded,      \* loaded[l]: content the scheduler acts on, or "none"
    barred,      \* launchctl disable, per label
    activation,  \* activated/<backend>.json
    lock,        \* holder of .manage.lock, or "free"
    pc, op,      \* per process: where it is; its command, NoCommand without one
    plan,        \* of the lock holder: labels to delete and to write, and
                 \* whether catch-up is wanted
    todo,        \* of the lock holder: labels still to handle
    refused,     \* of the lock holder: has a deactivation been refused?
    settled,     \* settled[t]: what the last command on t completed, if it did
    clean        \* did the last locked operation complete?

files == <<def, trig>>
sched == <<loaded, barred>>
hold  == <<plan, todo, refused>>
ghost == <<settled, clean>>
busy  == <<lock, op, ghost>>
vars  == <<files, sched, activation, lock, pc, op, hold, ghost>>

Command == [name : {"none", "install", "remove", "pause", "resume"}, task : Task,
            kind : Kind \cup {"none"}, replace : BOOLEAN, label : Label]
NoCommand == [name |-> "none", task |-> CHOOSE t \in Task : TRUE, kind |-> "none",
              replace |-> FALSE, label |-> Catchup]
NoPlan  == [gone |-> {}, put |-> {}, sweep |-> FALSE]

Init ==
    /\ def \in [Task -> {"none", "corrupt"}]
    /\ trig = [l \in Label |-> "none"] /\ loaded = [l \in Label |-> "none"]
    /\ barred = [l \in Label |-> FALSE]
    /\ activation = [l \in Label |-> "none"]
    /\ lock = "free"
    /\ pc = [c \in Ctl |-> "idle"]
    /\ op = [c \in Ctl |-> NoCommand]
    /\ plan = NoPlan /\ todo = {} /\ refused = FALSE
    /\ settled = [t \in Task |-> "unknown"] /\ clean = FALSE

-----------------------------------------------------------------------------
(* Desired artifacts.                                                      *)

\* Every kind rendered as a trigger of its own.
TriggerOfAny(k) == k

\* desired_task_files: systemd gives a task without schedule no timer, launchd
\* a plist to kickstart.
TriggerOf(k) ==
    CASE k = "none" -> "none"
      [] k \in {"manual", "dormant"} -> IF Backend = "systemd" THEN "none" ELSE "manual"
      [] k = "disabled" -> "calendar"
      [] OTHER -> k

\* triggers_wanted over the valid definitions.
Qualifying(d) == \E t \in Task : d[t] = "calendar"

\* The definitions once the command is done; a corrupt one counts for nothing.
After(c) == [def EXCEPT ![op[c].task] = op[c].kind]

\* Catch-up wanted for the task at hand only.
SweepWantedOwn(c) == op[c].kind = "calendar"

\* _catchup_desired.
SweepWanted(c) == Qualifying(After(c))

\* The content desired for l; "none" deletes it.
Want(c, l) == IF l = Catchup THEN (IF SweepWanted(c) THEN "sweep" ELSE "none")
              ELSE IF l = op[c].task THEN TriggerOf(op[c].kind)
              ELSE "none"

\* Every managed file in scope.
ScopeAll(c) == Label

\* possible_task_filenames and desired_catchup_files.
Scope(c) == {op[c].task, Catchup}

\* Backend.plan: a file not desired is deleted, one that differs is written.
PlanOf(c) == [gone  |-> {l \in Scope(c) : trig[l] # "none" /\ Want(c, l) = "none"},
              put   |-> {l \in Scope(c) : Want(c, l) \notin {"none", trig[l]}},
              sweep |-> SweepWanted(c)]

-----------------------------------------------------------------------------
(* The control processes.                                                  *)

Goto(c, l) == pc' = [pc EXCEPT ![c] = l]

\* The command ends, done or not; the lock goes with the process.
Leave(c) ==
    /\ Goto(c, "idle")
    /\ lock' = IF lock = c THEN "free" ELSE lock
    /\ op' = [op EXCEPT ![c] = NoCommand]
Abort(c) == Leave(c) /\ UNCHANGED ghost

Locked(c) == op[c].name \in {"install", "remove"}

Succeed(c) ==
    /\ Leave(c)
    /\ IF Locked(c)
       THEN settled' = [settled EXCEPT ![op[c].task] = op[c].kind] /\ clean' = TRUE
       ELSE UNCHANGED ghost

Refusable == "refuse" \in Faults

\* Deactivation results ignored.
MayDeleteAlways == TRUE

\* apply goes on only if every deactivation was accepted.
MayDelete == ~ refused

\* install and add up to the lock: an occupied name needs --replace.
StartInstall(c) ==
    /\ pc[c] = "idle" /\ "install" \in Ops
    /\ \E t \in Task, k \in Kind, r \in BOOLEAN :
          /\ def[t] = "none" \/ r
          /\ op' = [op EXCEPT ![c] = [name |-> "install", task |-> t, kind |-> k,
                                      replace |-> r, label |-> t]]
    /\ Goto(c, "wait")
    /\ UNCHANGED <<files, sched, activation, lock, hold, ghost>>

StartRemove(c) ==
    /\ pc[c] = "idle" /\ "remove" \in Ops
    /\ \E t \in Task :
          op' = [op EXCEPT ![c] = [name |-> "remove", task |-> t, kind |-> "none",
                                   replace |-> FALSE, label |-> Catchup]]
    /\ Goto(c, "wait")
    /\ UNCHANGED <<files, sched, activation, lock, hold, ghost>>

\* pause and resume: an installed task with a schedule, no management lock.
StartSwitch(c) ==
    /\ pc[c] = "idle"
    /\ \E n \in {"pause", "resume"} \cap Ops, t \in Task :
          /\ def[t] \in Scheduled
          /\ op' = [op EXCEPT ![c] = [name |-> n, task |-> t, kind |-> def[t],
                                      replace |-> FALSE, label |-> t]]
          /\ settled' = [settled EXCEPT ![t] = "unknown"]
          /\ Goto(c, IF n = "pause" THEN "bar" ELSE "enable")
    /\ IF Overlap THEN UNCHANGED lock ELSE lock = "free" /\ lock' = c
    /\ UNCHANGED <<files, sched, activation, hold, clean>>

\* No second look under the lock.
OccupiedNever(c) == FALSE

Occupied(c) == op[c].name = "install" /\ ~ op[c].replace /\ def[op[c].task] # "none"

\* management_lock, the second look at the name, and the plan that counts.
Lock(c) ==
    /\ pc[c] = "wait" /\ lock = "free"
    /\ IF Occupied(c)
       THEN Abort(c) /\ UNCHANGED hold
       ELSE /\ lock' = c /\ UNCHANGED op
            /\ plan' = PlanOf(c) /\ todo' = PlanOf(c).gone /\ refused' = FALSE
            /\ settled' = [settled EXCEPT ![op[c].task] = "unknown"] /\ clean' = FALSE
            /\ Goto(c, "disable")
    /\ UNCHANGED <<files, sched, activation>>

-----------------------------------------------------------------------------
(* Backend.apply: deactivate, then unlink, then write.                     *)

Unload(l) == loaded' = [loaded EXCEPT ![l] = "none"]

\* systemctl disable --now, for every timer even after a refusal.
DisableTimer(c) ==
    /\ Backend = "systemd"
    /\ pc[c] = "disable"
    /\ \E l \in todo :
          /\ todo' = todo \ {l}
          /\ \/ Unload(l) /\ UNCHANGED refused
             \/ Refusable /\ refused' = TRUE /\ UNCHANGED loaded
    /\ UNCHANGED <<files, barred, activation, lock, pc, op, plan, ghost>>

\* launchctl bootout unless print says the label is gone; a refusal stops the
\* loop.  todo keeps the labels not taken down.
BootoutLabel(c) ==
    /\ Backend = "launchd"
    /\ pc[c] = "disable" /\ ~ refused
    /\ \E l \in todo :
          \/ /\ Unload(l) /\ todo' = todo \ {l}
             /\ UNCHANGED refused
          \/ /\ \/ Refusable /\ loaded[l] # "none"
                \/ "unknown" \in Faults /\ loaded[l] = "none"
             /\ refused' = TRUE
             /\ UNCHANGED <<todo, loaded>>
    /\ UNCHANGED <<files, barred, activation, lock, pc, op, plan, ghost>>

\* launchd writes the activation records of what it took down, refused or not;
\* systemd forgets catch-up's only if nothing was refused, then stops services.
Deactivated(c) ==
    /\ pc[c] = "disable"
    /\ todo = {} \/ refused
    /\ activation' = CASE Backend = "launchd" ->
                              [l \in Label |-> IF l \in plan.gone \ todo THEN "none"
                                                                        ELSE activation[l]]
                       [] Backend = "systemd" /\ ~ refused /\ Catchup \in plan.gone ->
                              [activation EXCEPT ![Catchup] = "none"]
                       [] OTHER -> activation
    /\ IF ~ MayDelete
       THEN Abort(c) /\ UNCHANGED todo
       ELSE /\ Goto(c, IF Backend = "systemd" THEN "stop" ELSE "files")
            /\ todo' = plan.gone \cup plan.put
            /\ UNCHANGED busy
    /\ UNCHANGED <<files, sched, plan, refused>>

\* systemctl stop of the services to be deleted.
StopServices(c) ==
    /\ pc[c] = "stop"
    /\ \/ Goto(c, "files") /\ UNCHANGED busy
       \/ /\ Refusable /\ (op[c].name = "remove" \/ Catchup \in plan.gone)
          /\ Abort(c)
    /\ UNCHANGED <<files, sched, activation, hold>>

\* One file after the other, the deletions first.
WriteFile(c) ==
    /\ pc[c] = "files"
    /\ \E l \in todo :
          /\ l \in plan.gone \/ todo \cap plan.gone = {}
          /\ trig' = [trig EXCEPT ![l] = Want(c, l)]
          /\ todo' = todo \ {l}
    /\ UNCHANGED <<def, sched, activation, lock, pc, op, plan, refused, ghost>>

\* write_installed, or unlink of the definition.
WriteDefinition(c) ==
    /\ pc[c] = "files" /\ todo = {}
    /\ def' = After(c)
    /\ Goto(c, "reload")
    /\ UNCHANGED <<trig, sched, activation, lock, op, hold, ghost>>

\* Activation without daemon-reload.
ReloadSkipped(c) ==
    /\ pc[c] = "reload"
    /\ Goto(c, IF op[c].name = "install" THEN "activate" ELSE "sweep")
    /\ UNCHANGED <<files, sched, activation, lock, op, hold, ghost>>

\* systemctl daemon-reload: active timers take their file's content.
Reload(c) ==
    /\ pc[c] = "reload"
    /\ \/ /\ loaded' = [l \in Label |->
                          IF Backend = "systemd" /\ loaded[l] # "none" /\ trig[l] # "none"
                          THEN trig[l] ELSE loaded[l]]
          /\ Goto(c, IF op[c].name = "install" THEN "activate" ELSE "sweep")
          /\ UNCHANGED busy
       \/ Refusable /\ Backend = "systemd" /\ Abort(c) /\ UNCHANGED loaded
    /\ UNCHANGED <<files, barred, activation, hold>>

-----------------------------------------------------------------------------
(* Activation.                                                             *)

\* systemctl enable --now fails without a unit file and leaves an active timer
\* as it is.
EnableTimer(l) ==
    /\ trig[l] # "none"
    /\ loaded' = IF loaded[l] = "none" THEN [loaded EXCEPT ![l] = trig[l]] ELSE loaded

\* SystemdBackend.activate.
ActivateTask(c) ==
    /\ Backend = "systemd"
    /\ pc[c] = "activate"
    /\ LET t == op[c].task IN
       \/ /\ CASE op[c].kind \notin Scheduled -> UNCHANGED loaded
               [] op[c].kind = "disabled"      -> Unload(t)
               [] OTHER                        -> EnableTimer(t)
          /\ Goto(c, "sweep")
          /\ UNCHANGED busy
       \/ Refusable /\ op[c].kind \in Scheduled /\ Abort(c) /\ UNCHANGED loaded
    /\ UNCHANGED <<files, barred, activation, hold>>

\* LaunchdBackend.activate: pause for a disabled task, which does nothing for one
\* without schedule; else _activate_label.
ActivateLabel(c) ==
    /\ Backend = "launchd"
    /\ pc[c] = "activate"
    /\ Goto(c, CASE op[c].kind = "disabled" -> "bar"
                 [] op[c].kind = "dormant"  -> "sweep"
                 [] OTHER                   -> "enable")
    /\ UNCHANGED <<files, sched, activation, lock, op, hold, ghost>>

\* SystemdBackend.activate_catchup: the timer is left alone if its record says
\* that this very content was accepted and the file was not rewritten.
Accepted(l) == activation[l] = "sweep" /\ l \notin plan.put

SweepTimer(c) ==
    /\ Backend = "systemd"
    /\ pc[c] = "sweep"
    /\ \/ /\ ~ plan.sweep \/ Accepted(Catchup)
          /\ Succeed(c) /\ UNCHANGED <<loaded, activation>>
       \/ /\ plan.sweep /\ ~ Accepted(Catchup)
          /\ \/ /\ EnableTimer(Catchup)
                /\ activation' = [activation EXCEPT ![Catchup] = "sweep"]
                /\ Succeed(c)
             \/ Refusable /\ Abort(c) /\ UNCHANGED <<loaded, activation>>
    /\ UNCHANGED <<files, barred, hold>>

SweepLabel(c) ==
    /\ Backend = "launchd"
    /\ pc[c] = "sweep"
    /\ IF plan.sweep
       THEN /\ op' = [op EXCEPT ![c].label = Catchup]
            /\ Goto(c, "enable") /\ UNCHANGED <<lock, ghost>>
       ELSE Succeed(c)
    /\ UNCHANGED <<files, sched, activation, hold>>

\* The systemd pause and resume are one systemctl call each.
SwitchTimer(c) ==
    /\ Backend = "systemd"
    /\ \/ pc[c] = "bar" /\ Unload(op[c].task) /\ Succeed(c)
       \/ pc[c] = "enable" /\ EnableTimer(op[c].task) /\ Succeed(c)
       \/ /\ pc[c] \in {"bar", "enable"}
          /\ Refusable \/ trig[op[c].task] = "none"
          /\ Abort(c) /\ UNCHANGED loaded
    /\ UNCHANGED <<files, barred, activation, hold>>

-----------------------------------------------------------------------------
(* launchd: _activate_label, and pause and resume, which are parts of it.  *)

L(c) == op[c].label

\* A launchctl command is refused, or has nothing to act on.
Refuse(c, impossible) ==
    /\ Refusable \/ impossible
    /\ Abort(c)
    /\ UNCHANGED <<files, sched, activation, hold>>

EnableLabel(c) ==
    /\ Backend = "launchd"
    /\ pc[c] = "enable"
    /\ \/ /\ barred' = [barred EXCEPT ![L(c)] = FALSE]
          /\ Goto(c, "look")
          /\ UNCHANGED <<files, loaded, activation, lock, op, hold, ghost>>
       \/ Refuse(c, FALSE)

\* _load_state: whether the label is loaded, or "unknown".
LoadState(c) == {IF loaded[L(c)] = "none" THEN "no" ELSE "yes"}
                    \cup (Faults \cap {"unknown"})

\* Must a loaded label be loaded again?  resume never asks.
Stale(c) == Locked(c) /\ (activation[L(c)] # Want(c, L(c)) \/ L(c) \in plan.put)

\* Where _activate_label and resume go from here; resume records nothing.
Look(c) ==
    /\ pc[c] = "look"
    /\ \E s \in LoadState(c) :
          \/ /\ s = "unknown" \/ (Stale(c) /\ s = "yes")
             /\ Goto(c, "bootout") /\ UNCHANGED busy
          \/ s = "no" /\ Goto(c, "bootstrap") /\ UNCHANGED busy
          \/ /\ s = "yes" /\ ~ Stale(c)
             /\ IF Locked(c) THEN Goto(c, "accept") /\ UNCHANGED busy
                             ELSE Succeed(c)
    /\ UNCHANGED <<files, sched, activation, hold>>

Bootout(c) ==
    /\ pc[c] = "bootout"
    /\ \/ /\ loaded[L(c)] # "none" /\ Unload(L(c))
          /\ Goto(c, "bootstrap")
          /\ UNCHANGED <<files, barred, activation, lock, op, hold, ghost>>
       \/ Refuse(c, loaded[L(c)] = "none")

Bootstrap(c) ==
    /\ pc[c] = "bootstrap"
    /\ LET possible == loaded[L(c)] = "none" /\ ~ barred[L(c)] /\ trig[L(c)] # "none" IN
       \/ /\ possible
          /\ loaded' = [loaded EXCEPT ![L(c)] = trig[L(c)]]
          /\ IF Locked(c) THEN Goto(c, "accept") /\ UNCHANGED busy
                          ELSE Succeed(c)
          /\ UNCHANGED <<files, barred, activation, hold>>
       \/ Refuse(c, ~ possible)

\* write_activation, once the scheduler has taken the content.
Accept(c) ==
    /\ pc[c] = "accept"
    /\ activation' = [activation EXCEPT ![L(c)] = Want(c, L(c))]
    /\ IF L(c) = Catchup THEN Succeed(c) ELSE Goto(c, "sweep") /\ UNCHANGED busy
    /\ UNCHANGED <<files, sched, hold>>

\* The end of pause: of the command, or of activating a disabled task.
Barred(c) == IF Locked(c) THEN Goto(c, "sweep") /\ UNCHANGED busy ELSE Succeed(c)

Bar(c) ==
    /\ Backend = "launchd"
    /\ pc[c] = "bar"
    /\ \/ /\ barred' = [barred EXCEPT ![L(c)] = TRUE]
          /\ Goto(c, "barlook")
          /\ UNCHANGED <<files, loaded, activation, lock, op, hold, ghost>>
       \/ Refuse(c, FALSE)

\* No answer taken for a label that is not loaded.
BarLookTrusting(c) ==
    /\ pc[c] = "barlook"
    /\ \E s \in LoadState(c) :
          IF s # "yes" THEN Barred(c) ELSE Goto(c, "barout") /\ UNCHANGED busy
    /\ UNCHANGED <<files, sched, activation, hold>>

BarLook(c) ==
    /\ pc[c] = "barlook"
    /\ \E s \in LoadState(c) :
          IF s = "no" THEN Barred(c) ELSE Goto(c, "barout") /\ UNCHANGED busy
    /\ UNCHANGED <<files, sched, activation, hold>>

BarOut(c) ==
    /\ pc[c] = "barout"
    /\ \/ /\ loaded[L(c)] # "none" /\ Unload(L(c))
          /\ Barred(c)
          /\ UNCHANGED <<files, barred, activation, hold>>
       \/ Refuse(c, loaded[L(c)] = "none")

\* The process is killed; flock ends with it.
Crash(c) ==
    /\ "crash" \in Faults /\ pc[c] # "idle"
    /\ Abort(c)
    /\ UNCHANGED <<files, sched, activation, hold>>

Launchctl(c) == \/ EnableLabel(c) \/ Look(c) \/ Bootout(c) \/ Bootstrap(c) \/ Accept(c)
                \/ Bar(c) \/ BarLook(c) \/ BarOut(c)

Apply(c) == \/ DisableTimer(c) \/ BootoutLabel(c) \/ Deactivated(c) \/ StopServices(c)
            \/ WriteFile(c) \/ WriteDefinition(c) \/ Reload(c)

Activate(c) == ActivateTask(c) \/ ActivateLabel(c) \/ SweepTimer(c) \/ SweepLabel(c)
               \/ SwitchTimer(c)

Next == \E c \in Ctl : \/ StartInstall(c) \/ StartRemove(c) \/ StartSwitch(c) \/ Lock(c)
                       \/ Apply(c) \/ Activate(c) \/ Launchctl(c) \/ Crash(c)

Spec == Init /\ [][Next]_vars

-----------------------------------------------------------------------------
TypeOK ==
    /\ def \in [Task -> Kind \cup {"none", "corrupt"}]
    /\ trig \in [Label -> Content \cup {"none"}]
    /\ loaded \in [Label -> Content \cup {"none"}]
    /\ barred \in [Label -> BOOLEAN]
    /\ activation \in [Label -> Content \cup {"none"}]
    /\ lock \in Ctl \cup {"free"}
    /\ pc \in [Ctl -> {"idle", "wait", "disable", "stop", "files", "reload", "activate",
                       "sweep", "enable", "look", "bootout", "bootstrap", "accept",
                       "bar", "barlook", "barout"}]
    /\ op \in [Ctl -> Command]
    /\ plan \in [gone : SUBSET Label, put : SUBSET Label, sweep : BOOLEAN]
    /\ todo \subseteq Label /\ refused \in BOOLEAN
    /\ settled \in [Task -> Kind \cup {"none", "unknown"}] /\ clean \in BOOLEAN

\* The scheduler never acts on a trigger whose file or whose definition is
\* gone: remove and a replacement take a trigger down before they delete its
\* file, whatever is refused and wherever they die (Backend.apply).
NoOrphanTrigger ==
    \A l \in Label : loaded[l] # "none" =>
        trig[l] # "none" /\ (l \in Task => def[l] # "none")

\* What launchd has loaded for a task that is disabled without schedule is left
\* alone: LaunchdBackend.pause does nothing, and an old calendar job goes on firing.
Unattended(k) == Backend = "launchd" /\ k = "dormant"

\* A command that reported success has done what it says, and no later command
\* on another task undoes it, after any history of refusals and crashes: the
\* definition and the trigger file are the requested ones, and the scheduler
\* has a trigger exactly if one is to fire (_install_task, remove_task).
InstallHolds ==
    \A t \in Task : settled[t] # "unknown" =>
        /\ def[t] = settled[t]
        /\ trig[t] = TriggerOf(settled[t])
        /\ \/ Unattended(settled[t])
           \/ (loaded[t] # "none") <=> (settled[t] # "disabled" /\ trig[t] # "none")

\* And that trigger has the content of the file, so that `the same install
\* --replace can retry' whatever left an older one loaded (DESIGN.md:40-42).
LoadedIsCurrent ==
    \A t \in Task : settled[t] # "unknown" => loaded[t] \in {"none", trig[t]}

\* The shared catch-up artifact exists exactly when a valid definition needs
\* it, whenever the last operation completed (_catchup_desired).
CatchupKept ==
    lock = "free" /\ clean =>
        trig[Catchup] = IF Qualifying(def) THEN "sweep" ELSE "none"

\* And then the scheduler has it: an activation record never stands for a
\* trigger the scheduler does not have (records.read_activation).
CatchupArmed == lock = "free" /\ clean => loaded[Catchup] = trig[Catchup]

\* Two installations of a name without --replace: the second never overwrites
\* the first, even if both saw the name free (the check under the lock).
NoClobber ==
    [][\A c \in Ctl : WriteDefinition(c) /\ op[c].name = "install" /\ ~ op[c].replace
           => def[op[c].task] = "none"]_vars
=============================================================================
