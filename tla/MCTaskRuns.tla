------------------------------ MODULE MCTaskRuns ------------------------------
(* Small instances of TaskRuns: invocations of the same task are alike.     *)
EXTENDS TaskRuns, TLC

Symmetry == Permutations(Inv)
=============================================================================
