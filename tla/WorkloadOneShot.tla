-------------------------- MODULE WorkloadOneShot ---------------------------
(***************************************************************************)
(* The processes of a workload implement OneShot: one exec_task is one     *)
(* start, one end and one outcome, which is how TransientExecution and     *)
(* TaskRuns see it.  The wrapper calls it when the execution is due.       *)
(***************************************************************************)
EXTENDS Workload

\* Popen has been called, for the supervisor or for the command itself.
HasStarted == sup # "none" \/ cmd # "unborn"

\* What must be over before an outcome is recorded: the whole group of a
\* transient execution, the command of an installed task.
Running == IF mode = "plain" THEN cmd = "alive" ELSE GroupAlive

MappedStatus == IF status = "running" THEN "none" ELSE status
MappedAlive  == IF Running THEN "yes" ELSE "no"

Shot == INSTANCE OneShot
        WITH due <- TRUE, started <- HasStarted, alive <- MappedAlive, outcome <- MappedStatus

\* However exit, cancellation, deadline and deaths race each other, processes
\* start once, do not come back, and the outcome is recorded once, when they
\* are gone, and fits them (_execute_workload with _terminate, supervisor.main).
WorkloadIsOneShot == Shot!Spec
=============================================================================
