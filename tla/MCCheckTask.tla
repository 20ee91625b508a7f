---------------------------- MODULE MCCheckTask ----------------------------
(* Small instances of CheckTask for TLC. *)
EXTENDS CheckTask, TLC

Symmetry == Permutations(TaskId)
=============================================================================
