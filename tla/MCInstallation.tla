---------------------------- MODULE MCInstallation ----------------------------
(* Small instances of Installation: control processes are interchangeable. *)
EXTENDS Installation, TLC

Symmetry == Permutations(Ctl)
=============================================================================
