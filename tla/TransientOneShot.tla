-------------------------- MODULE TransientOneShot --------------------------
(***************************************************************************)
(* A transient execution implements OneShot: records, claims, scheduler    *)
(* objects, operators and crashes hidden, what is left is one workload and *)
(* one outcome.                                                            *)
(***************************************************************************)
EXTENDS TransientExecution

\* The outcome a reader of the record sees; the record is "forgotten" once
\* prune has removed it.
MappedOutcome ==
    IF Terminal(rec) THEN rec.status
    ELSE IF ~Exists /\ pc["submit"] # "prepare" THEN "forgotten" ELSE "none"

MappedAlive == IF ~alive THEN "no" ELSE IF Doomed THEN "doomed" ELSE "yes"

Shot == INSTANCE OneShot
        WITH started <- starts > 0, alive <- MappedAlive, outcome <- MappedOutcome

\* Whatever is delivered twice, late or early, cancelled, killed, recovered
\* or pruned, the execution is a OneShot (transient.py as a whole).
ImplementsOneShot == Shot!Spec
=============================================================================
