---------------------------- MODULE Subsequence ----------------------------
(***************************************************************************)
(* What is left of a vector when elements are filtered out of it in place  *)
(* (Vec::retain, iter().filter()).  The library's SelectSeq says the same  *)
(* by a recursion that the provers cannot unfold; SubsequenceProofs has    *)
(* what this form keeps of the vector.                                     *)
(***************************************************************************)
EXTENDS Integers, FiniteSets

\* The member of I that r of its members, itself included, do not exceed.
At(I, r) == CHOOSE i \in I : Cardinality({k \in I : k <= i}) = r

\* The elements of s at the indices I, in their order.
Picked(s, I) == [r \in 1 .. Cardinality(I) |-> s[At(I, r)]]

\* The elements of s that are in keep, in their order.
Kept(s, keep) == Picked(s, {i \in DOMAIN s : s[i] \in keep})
=============================================================================
