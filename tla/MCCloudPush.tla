---------------------------- MODULE MCCloudPush ----------------------------
(* Small instances of CloudPush for TLC. *)
EXTENDS CloudPush

Symmetry == Permutations(Proc) \cup Permutations(Key)
=============================================================================
