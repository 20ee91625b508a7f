--------------------------- MODULE MCSignalStore ---------------------------
(* Small instances of SignalStore for TLC. *)
EXTENDS SignalStore, TLC

Symmetry == Permutations(Proc)
=============================================================================
