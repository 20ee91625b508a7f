--------------------------- MODULE MCRoadmapStore ---------------------------
(* Small instances of RoadmapStore for TLC. *)
EXTENDS RoadmapStore, TLC

Symmetry == Permutations(Proc)
=============================================================================
