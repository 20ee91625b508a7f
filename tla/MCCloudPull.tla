---------------------------- MODULE MCCloudPull ----------------------------
(* Small instances of CloudPull for TLC. *)
EXTENDS CloudPull

CONSTANTS r1, r2

\* Two records of one family, the last a refresh takes.
OneFamily == [r \in {r1, r2} |-> "signal"]
=============================================================================
