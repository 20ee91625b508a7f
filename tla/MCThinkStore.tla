---------------------------- MODULE MCThinkStore ----------------------------
(* Small instances of ThinkStore for TLC. *)
EXTENDS ThinkStore, TLC

Symmetry == Permutations(Proc)

NoLegacy == <<>>

\* A step and its clone, from before clones were recognised.
ClonedLegacy == <<[id |-> -1, n |-> 1], [id |-> -1, n |-> 2]>>

\* Two clones of a step that another machine pushed.
ClonedElsewhere == {[id |-> -3, n |-> 3], [id |-> -3, n |-> 4]}
=============================================================================
