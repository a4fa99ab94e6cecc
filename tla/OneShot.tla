------------------------------ MODULE OneShot ------------------------------
(***************************************************************************)
(* What an execution promises, whoever carries it out: a workload that     *)
(* starts at most once, not before it is due and not after its outcome is  *)
(* known; and one outcome, declared when nothing of the workload is left   *)
(* but what is dying already, true to what happened, and changed only by   *)
(* who carries it out reporting an error of its own.  The record of an     *)
(* execution may be forgotten afterwards, and a late writer may bring it   *)
(* back.                                                                   *)
(***************************************************************************)
VARIABLES
    due,      \* may the workload start?
    started,  \* has it been started?
    alive,    \* is any process of it left? "yes", "no", or "doomed" when they
              \* have lost the process that answers for them and will die
    outcome   \* "none", then how the execution ended, or "forgotten"

shot == <<due, started, alive, outcome>>

\* Outcomes that only a workload can have, and those that exclude one.
Ran      == {"ok", "failed", "timeout"}
NeverRan == {"skipped"}
Other    == {"error", "cancelled", "abandoned"}
Outcome  == Ran \cup NeverRan \cup Other

Possible(o) == (o \in Ran => started) /\ (o \in NeverRan => ~started)

Init ==
    /\ due \in BOOLEAN
    /\ ~started /\ alive = "no"
    /\ outcome = "none"

ComeDue == ~due /\ due' = TRUE /\ UNCHANGED <<started, alive, outcome>>

Start ==
    /\ due /\ ~started
    /\ outcome = "none"
    /\ started' = TRUE /\ alive' = "yes"
    /\ UNCHANGED <<due, outcome>>

Doom == alive = "yes" /\ alive' = "doomed" /\ UNCHANGED <<due, started, outcome>>

End == alive # "no" /\ alive' = "no" /\ UNCHANGED <<due, started, outcome>>

Settle ==
    /\ outcome = "none" /\ alive # "yes"
    /\ \E o \in Outcome : Possible(o) /\ outcome' = o
    /\ UNCHANGED <<due, started, alive>>

Fail ==
    /\ outcome \in Outcome
    /\ outcome' = "error"
    /\ UNCHANGED <<due, started, alive>>

Forget ==
    /\ outcome # "none"
    /\ outcome' = "forgotten"
    /\ UNCHANGED <<due, started, alive>>

WriteBack ==
    /\ outcome = "forgotten"
    /\ \E o \in Outcome : Possible(o) /\ outcome' = o
    /\ UNCHANGED <<due, started, alive>>

Next == ComeDue \/ Start \/ Doom \/ End \/ Settle \/ Fail \/ Forget \/ WriteBack

Spec == Init /\ [][Next]_shot
=============================================================================
