--------------------------- MODULE MCApprovalGate ---------------------------
(* Small instances of ApprovalGate for TLC. *)
EXTENDS ApprovalGate

CONSTANTS s1, s2

\* The second session's clock is ahead by half a second.
Ahead == [s \in Session |-> IF s = s1 THEN 0 ELSE 1]
=============================================================================
