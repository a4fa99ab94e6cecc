------------------------ MODULE MCTransientExecution ------------------------
(* TransientExecution for TLC: the operators are interchangeable.          *)
EXTENDS TransientOneShot, TLC

Symmetry == Permutations(Ctl)

=============================================================================
