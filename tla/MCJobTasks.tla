----------------------------- MODULE MCJobTasks -----------------------------
(* Small instances of JobTasks for TLC. *)
EXTENDS JobTasks, TLC

Symmetry == Permutations(Pollers)
=============================================================================
