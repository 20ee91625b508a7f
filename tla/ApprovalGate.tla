---------------------------- MODULE ApprovalGate ----------------------------
(***************************************************************************)
(* One approval gate: a question that a session opens in the workspace, a  *)
(* human answers in a browser, and sessions wait on by polling             *)
(* (ship/gate.rs, ship_gate_open and ship_gate_wait in                     *)
(* ship/mcp/handlers.rs).                                                  *)
(*                                                                         *)
(* The gate is a record of the workspace and nothing else: no session      *)
(* writes its outcome, each derives it from a copy it fetched and its own  *)
(* clock.  The backend is external: it stores a pushed record once, lets   *)
(* one answer in, before the expiry by its own clock, and may be out of    *)
(* reach for any time.  Abstracted: the wording and the bounded wait of    *)
(* one call, which returns "pending" and is called again.                  *)
(***************************************************************************)
EXTENDS GateState

vars == <<now, up, record, queued, stage, reply, outcome, fetched>>

\* "answered" and "expired" are what ship_gate_wait returned; "unopened" is a gate
\* that could not be opened, "unreachable" one whose workspace could not be asked.
Settled == {"answered", "expired", "unopened", "unreachable"}
Stage == {"idle", "opening", "waiting", "judging"} \cup Settled

Clock(s) == now + Skew[s]

Init ==
  /\ now = 0
  /\ up \in BOOLEAN
  /\ record = "absent"
  /\ queued = FALSE
  /\ stage = [s \in Session |-> "idle"]
  /\ reply = [s \in Session |-> None]
  /\ outcome = [s \in Session |-> None]
  /\ fetched = [s \in Session |-> 0]

To(s, next) == stage' = [stage EXCEPT ![s] = next]
Take(s, choice) == outcome' = [outcome EXCEPT ![s] = choice]

\* Stored once: pushing the same envelope again changes nothing.
Stored == record' = IF record = "absent" THEN None ELSE record

-----------------------------------------------------------------------------
(* Opening.                                                                 *)

Open ==
  /\ stage[Opener] = "idle"
  /\ To(Opener, "opening")
  /\ UNCHANGED <<now, up, record, queued, reply, outcome, fetched>>

Opened ==
  /\ stage[Opener] = "opening" /\ up
  /\ Stored
  /\ To(Opener, "waiting")
  /\ UNCHANGED <<now, up, queued, reply, outcome, fetched>>

Unopened ==
  /\ To(Opener, "unopened")
  /\ Take(Opener, Default)
  /\ UNCHANGED <<now, up, reply, fetched>>

\* The push fails, perhaps after the backend stored the gate; it is queued all the
\* same, and the session goes on with the default.
OpenFails ==
  /\ stage[Opener] = "opening"
  /\ \/ ~up /\ UNCHANGED record
     \/ up /\ Stored
  /\ queued' = TRUE
  /\ Unopened

\* No client, or a push the backend refuses.
OpenRefused ==
  /\ stage[Opener] \in {"idle", "opening"}
  /\ Unopened
  /\ UNCHANGED <<record, queued>>

\* flush_outbox replays the envelope.
Flush ==
  /\ queued /\ up
  /\ Stored
  /\ queued' = FALSE
  /\ UNCHANGED <<now, up, stage, reply, outcome, fetched>>

-----------------------------------------------------------------------------
(* Waiting.                                                                 *)

\* Another session is given the gate's id, which only an open that succeeded tells.
Join(s) ==
  /\ s # Opener /\ stage[s] = "idle"
  /\ stage[Opener] \in {"waiting", "judging", "answered", "expired"}
  /\ To(s, "waiting")
  /\ UNCHANGED <<now, up, record, queued, reply, outcome, fetched>>

Fetch(s) ==
  /\ stage[s] = "waiting" /\ up
  /\ reply' = [reply EXCEPT ![s] = record]
  /\ fetched' = [fetched EXCEPT ![s] = now]
  /\ To(s, "judging")
  /\ UNCHANGED <<now, up, record, queued, outcome>>

\* The soft error tells the session to apply its default once the expiry has passed.
FetchFails(s) ==
  /\ stage[s] = "waiting" /\ ~up
  /\ Clock(s) >= Expiry
  /\ To(s, "unreachable")
  /\ Take(s, Default)
  /\ UNCHANGED <<now, up, record, queued, reply, fetched>>

\* Whole seconds, rounded towards zero.
SecondsLeft(s) == IF Clock(s) >= Expiry THEN 0 ELSE (Expiry - Clock(s)) \div Second

Judged(s, next, choice) ==
  /\ stage[s] = "judging"
  /\ To(s, next)
  /\ Take(s, choice)
  /\ UNCHANGED <<now, up, record, queued, reply, fetched>>

\* Mutants of Resolve: the clock is looked at first; only a stored state expires.
ResolveByClock(s) ==
  IF SecondsLeft(s) = 0 THEN Judged(s, "expired", Default)
  ELSE IF reply[s] # None THEN Judged(s, "answered", reply[s])
  ELSE Judged(s, "waiting", None)

ResolveByState(s) ==
  IF reply[s] # None THEN Judged(s, "answered", reply[s]) ELSE Judged(s, "waiting", None)

\* resolve: an answer on the copy first, then the clock as it is now.
Resolve(s) ==
  IF reply[s] # None THEN Judged(s, "answered", reply[s])
  ELSE IF SecondsLeft(s) = 0 THEN Judged(s, "expired", Default)
  ELSE Judged(s, "waiting", None)

-----------------------------------------------------------------------------
(* The backend and the clock.                                               *)

Answer(choice) ==
  /\ record = None /\ now < Expiry
  /\ record' = choice
  /\ UNCHANGED <<now, up, queued, stage, reply, outcome, fetched>>

Reach == up' = ~up /\ UNCHANGED <<now, record, queued, stage, reply, outcome, fetched>>

Tick ==
  /\ now < MaxTime
  /\ now' = now + 1
  /\ UNCHANGED <<up, record, queued, stage, reply, outcome, fetched>>

Next ==
  \/ Open \/ Opened \/ OpenFails \/ OpenRefused \/ Flush
  \/ \E s \in Session : Join(s) \/ Fetch(s) \/ FetchFails(s) \/ Resolve(s)
  \/ \E choice \in Choice : Answer(choice)
  \/ Reach
  \/ Tick

Spec == Init /\ [][Next]_vars

\* Time goes on and a session that waits calls again; the backend and the human owe
\* nothing.
FairSpec ==
  /\ Spec
  /\ WF_vars(Tick)
  /\ WF_vars(Opened \/ OpenFails)
  /\ \A s \in Session : WF_vars(Fetch(s) \/ FetchFails(s)) /\ WF_vars(Resolve(s))

-----------------------------------------------------------------------------
(* Properties.                                                              *)

\* The types of the variables.
TypeOK ==
  /\ now \in 0 .. MaxTime
  /\ up \in BOOLEAN /\ queued \in BOOLEAN
  /\ record \in Choice \cup {None, "absent"}
  /\ stage \in [Session -> Stage]
  /\ reply \in [Session -> Choice \cup {None}]
  /\ outcome \in [Session -> Choice \cup {None}]
  /\ fetched \in [Session -> 0 .. MaxTime]

\* A session that asks for a gate or waits on one goes on in the end, whether or not
\* anybody answers or the workspace is in reach (ship_gate_wait: "so a headless
\* session always completes").
EverySessionCompletes ==
  \A s \in Session : stage[s] # "idle" ~> stage[s] \in Settled
=============================================================================
