----------------------------- MODULE GateState -----------------------------
(***************************************************************************)
(* The state of one approval gate, and what every session that asks about  *)
(* it may rely on (ship/gate.rs).  ApprovalGate has the steps.             *)
(***************************************************************************)
EXTENDS Integers

CONSTANTS Session,  \* sessions that open the gate or wait on it
          Opener,   \* the one that opens it
          Choice,   \* option keys
          Default,  \* default_key
          Skew,     \* Skew[s]: the clock of s less that of the backend
          Second,   \* ticks of the clock in a second
          Expiry,   \* expires_at, a whole number of seconds
          MaxTime,  \* bound on the clock
          None      \* no answer, no outcome

VARIABLES now,      \* the backend's clock
          up,       \* whether the backend is in reach
          record,   \* "absent", or the answer the gate has, None at first
          queued,   \* whether the gate's envelope is in the outbox
          stage,    \* stage[s]: what s is doing about the gate
          reply,    \* reply[s]: the answer on the copy s fetched
          outcome,  \* outcome[s]: what s took the gate to mean
          fetched   \* history: fetched[s]: when s fetched that copy

ASSUME GateAssumption ==
  /\ Opener \in Session /\ Default \in Choice /\ None \notin Choice
  /\ "absent" \notin Choice \cup {None}
  /\ Second \in Nat \ {0} /\ Expiry \in Nat /\ MaxTime \in Nat
  /\ Skew \in [Session -> Int]
  /\ \A s \in Session : MaxTime + Skew[s] >= Expiry

\* What the gate means, by the one rule and the backend's clock.
Meaning == IF record \in Choice THEN record ELSE Default

\* Whoever was told of an answer, and whoever fetched the gate once it had expired,
\* took it to mean the same, for good, on any clock (resolve: "every reader resolves
\* identically").
LateReadersAgree ==
  \A s \in Session :
    \/ stage[s] = "answered"
    \/ stage[s] = "expired" /\ fetched[s] >= Expiry
    => outcome[s] = Meaning

\* As documented, not kept: "readers with skewed clocks cannot disagree".
ReadersAgree ==
  \A s, t \in Session :
    stage[s] \in {"answered", "expired"} /\ stage[t] \in {"answered", "expired"}
    => outcome[s] = outcome[t]
=============================================================================
