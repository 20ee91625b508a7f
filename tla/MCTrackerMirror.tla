-------------------------- MODULE MCTrackerMirror --------------------------
(* Small instances of TrackerMirror for TLC. *)
EXTENDS TrackerMirror, TLC

Symmetry == Permutations(Pusher) \cup Permutations(Title)
=============================================================================
