----------------------------- MODULE MCShipStore -----------------------------
(* Small instances of ShipStore for TLC. *)
EXTENDS ShipStore, TLC

Symmetry == Permutations(Proc) \cup Permutations(TaskId)
=============================================================================
