------------------------------ MODULE CloudPush ------------------------------
(***************************************************************************)
(* How a record gets to the workspace: engines spawn a push for every      *)
(* change (cloud/client.rs), a push that fails for now is queued in the    *)
(* Outbox, and the queue is replayed at boot and whenever the event loop   *)
(* (cloud/events.rs) connects, or polls because it cannot connect.         *)
(*                                                                         *)
(* The backend is external: it answers while it is up, taking or refusing  *)
(* an envelope, and fails retryably while it is not.  Pushes of one record *)
(* overtake each other, since each is a task of its own.                   *)
(***************************************************************************)
EXTENDS Outbox

CONSTANTS Repush,                \* records whose content may come back
          FallbackAfterFailures  \* failures after which the event loop polls

VARIABLES running,   \* running[p]: whether p runs
          latest,    \* latest[k]: the newest version of record k
          inflight,  \* inflight[p]: envelopes whose push is under way
          replay,    \* replay[p]: what the flush under way has left to send
          flusher,   \* flusher[p]: who runs that flush, or "nobody"
          hydrate,   \* hydrate[p]: whether the boot's flush is still due
          loop,      \* loop[p]: where the event loop stands
          failures,  \* failures[p]: its consecutive failures, capped
          up,        \* whether the backend answers
          queued,    \* history: envelopes whose queueing was saved, unanswered
          answered,  \* history: envelopes that ever left a queue answered
          gone,      \* history: those whose removal was saved, not queued again
          pruned     \* history: those whose tombstone the cap took off the file

loopVars == <<hydrate, loop, failures>>
flushVars == <<replay, flusher>>
history == <<queued, answered, gone, pruned>>
vars == <<outboxVars, running, latest, inflight, flushVars, loopVars, up, history>>

ASSUME FallbackAssumption == FallbackAfterFailures \in Nat \ {0}

Init ==
  /\ OutboxInit
  /\ running = [p \in Proc |-> FALSE]
  /\ latest = [k \in Key |-> 0]
  /\ inflight = [p \in Proc |-> {}]
  /\ replay = [p \in Proc |-> <<>>]
  /\ flusher = [p \in Proc |-> "nobody"]
  /\ hydrate = [p \in Proc |-> FALSE]
  /\ loop = [p \in Proc |-> "connect"]
  /\ failures = [p \in Proc |-> 0]
  /\ up = TRUE
  /\ queued = {}
  /\ answered = {}
  /\ gone = {}
  /\ pruned = {}

-----------------------------------------------------------------------------
(* Pushes.                                                                  *)

\* A change to a record spawns a push of its new version.
Push(p, k) ==
  /\ running[p]
  /\ latest[k] < Versions
  /\ latest' = [latest EXCEPT ![k] = @ + 1]
  /\ inflight' = [inflight EXCEPT ![p] = @ \cup {[key |-> k, version |-> latest[k] + 1]}]
  /\ UNCHANGED <<outboxVars, running, flushVars, loopVars, up, history>>

\* A push of content the record had before: a task that is removed and planned
\* again has the envelope it had when it was first planned.
PushAgain(p, e) ==
  /\ e.key \in Repush
  /\ running[p]
  /\ e.version <= latest[e.key]
  /\ inflight' = [inflight EXCEPT ![p] = @ \cup {e}]
  /\ UNCHANGED <<outboxVars, running, latest, flushVars, loopVars, up, history>>

Settled(p, e) == inflight' = [inflight EXCEPT ![p] = @ \ {e}]

\* Taken (2xx) or refused for good (4xx): either way the push is over, and an
\* older entry of the record stays queued.
PushAnswered(p, e) ==
  /\ up
  /\ Settled(p, e)
  /\ UNCHANGED <<outboxVars, running, latest, flushVars, loopVars, up, history>>

\* The safely queued envelopes of other records.
OtherRecords(k) == {e \in queued : e.key # k}

\* A retryable failure queues the envelope, which is live again.
PushFails(p, e) ==
  /\ ~up
  /\ Settled(p, e)
  /\ Enqueue(p, e)
  /\ gone' = gone \ {e}
  /\ queued' = IF e \in answered THEN OtherRecords(e.key) ELSE queued
  /\ UNCHANGED <<running, latest, flushVars, loopVars, up, answered, pruned>>

-----------------------------------------------------------------------------
(* Flushes.                                                                 *)

\* A flush replays the entries there are when it begins; one at a time, and
\* none when there is nothing to send.
CanFlush(p) == queue[p].entries # <<>> /\ flusher[p] = "nobody"

BeginFlush(p, who) ==
  /\ CanFlush(p)
  /\ replay' = [replay EXCEPT ![p] = queue[p].entries]
  /\ flusher' = [flusher EXCEPT ![p] = who]

\* The caller that ran a flush goes on.
Resume(p, who) ==
  /\ hydrate' = [hydrate EXCEPT ![p] = @ /\ who # "boot"]
  /\ loop' = [loop EXCEPT ![p] = IF who = "boot" THEN @
                                 ELSE IF @ = "greet" THEN "live" ELSE "connect"]
  /\ UNCHANGED failures

\* Mutant of EndFlush: the guard is not released.
EndFlushLeaks(p) ==
  /\ replay' = [replay EXCEPT ![p] = <<>>]
  /\ UNCHANGED flusher
  /\ Resume(p, flusher[p])

EndFlush(p) ==
  /\ replay' = [replay EXCEPT ![p] = <<>>]
  /\ flusher' = [flusher EXCEPT ![p] = "nobody"]
  /\ Resume(p, flusher[p])

\* The boot's task, or the event loop in its refresh of everything, comes to
\* its flush.
Due(p, who) ==
  /\ running[p]
  /\ flusher[p] # who
  /\ IF who = "boot" THEN hydrate[p] ELSE loop[p] \in {"greet", "poll"}

Flush(p, who) ==
  /\ Due(p, who)
  /\ \/ BeginFlush(p, who) /\ UNCHANGED loopVars
     \/ ~CanFlush(p) /\ Resume(p, who) /\ UNCHANGED flushVars
  /\ UNCHANGED <<outboxVars, running, latest, inflight, up, history>>

\* A flush saves each removal before it goes on.
Replaying(p) ==
  flusher[p] # "nobody" /\ \A c \in saving[p] : c.did # "remove"

\* Sent and answered, for good or ill: the entry leaves the queue.
ReplayAnswered(p) ==
  /\ Replaying(p)
  /\ replay[p] # <<>>
  /\ up
  /\ RemoveEntry(p, Head(replay[p]))
  /\ answered' = answered \cup {Head(replay[p])}
  /\ queued' = OtherRecords(Head(replay[p]).key)
  /\ replay' = [replay EXCEPT ![p] = Tail(@)]
  /\ UNCHANGED <<running, latest, inflight, flusher, loopVars, up, gone, pruned>>

\* The first retryable failure ends the flush, and so does its last entry.
FlushEnds(p) ==
  /\ Replaying(p)
  /\ replay[p] = <<>> \/ ~up
  /\ EndFlush(p)
  /\ UNCHANGED <<outboxVars, running, latest, inflight, up, history>>

\* An envelope is safely queued once its snapshot is saved and no server holds
\* another envelope of its record, in its queue or in a snapshot on its way to the
\* file.  (If one does, its next save puts that envelope in the place of this one,
\* memory first, though it may have been answered long ago.)
Held(p) == {queue[p]} \cup {c.snapshot : c \in saving[p]}

Overtaken(e) ==
  \E p \in Proc : \E q \in Held(p) : \E x \in Entries(q) : x.key = e.key /\ x # e

Settles(p, c) == {e \in {c.to} \cap Entries(queue[p]) : ~Overtaken(e)}

Save(p, c) ==
  /\ Persist(p, c)
  /\ IF c.did = "enqueue"
     THEN queued' = queued \cup Settles(p, c) /\ UNCHANGED gone
     ELSE gone' = gone \cup ({c.to} \ Entries(queue[p])) /\ UNCHANGED queued
  /\ pruned' = (pruned \cup CutStones(c.snapshot)) \ Stones(file')
  /\ UNCHANGED <<running, latest, inflight, flushVars, loopVars, up, answered>>

-----------------------------------------------------------------------------
(* The event loop.                                                          *)

\* A successful connect begins with a refresh of everything.
Connects(p) ==
  /\ running[p] /\ loop[p] = "connect" /\ up
  /\ loop' = [loop EXCEPT ![p] = "greet"]
  /\ UNCHANGED <<outboxVars, running, latest, inflight, flushVars, hydrate, failures,
                 up, history>>

\* What follows the n-th failure in a row: from the third on, a poll, which
\* refreshes everything too.
AfterFailure(n) == IF n >= FallbackAfterFailures THEN "poll" ELSE "connect"

\* A failed connect counts, whether or not pushes would be answered.
ConnectFails(p) ==
  LET n == IF failures[p] < FallbackAfterFailures THEN failures[p] + 1 ELSE failures[p] IN
  /\ running[p] /\ loop[p] = "connect"
  /\ failures' = [failures EXCEPT ![p] = n]
  /\ loop' = [loop EXCEPT ![p] = AfterFailure(n)]
  /\ UNCHANGED <<outboxVars, running, latest, inflight, flushVars, hydrate, up, history>>

\* A stream that closes counts as the first failure.
StreamCloses(p) ==
  /\ running[p] /\ loop[p] = "live"
  /\ loop' = [loop EXCEPT ![p] = AfterFailure(1)]
  /\ failures' = [failures EXCEPT ![p] = 1]
  /\ UNCHANGED <<outboxVars, running, latest, inflight, flushVars, hydrate, up, history>>

-----------------------------------------------------------------------------
(* The processes and the backend.                                           *)

Boot(p) ==
  /\ ~running[p]
  /\ running' = [running EXCEPT ![p] = TRUE]
  /\ LoadQueue(p)
  /\ hydrate' = [hydrate EXCEPT ![p] = TRUE]
  /\ UNCHANGED <<latest, inflight, flushVars, loop, failures, up, history>>

Crash(p) ==
  /\ running[p]
  /\ running' = [running EXCEPT ![p] = FALSE]
  /\ LoseQueue(p)
  /\ inflight' = [inflight EXCEPT ![p] = {}]
  /\ replay' = [replay EXCEPT ![p] = <<>>]
  /\ flusher' = [flusher EXCEPT ![p] = "nobody"]
  /\ hydrate' = [hydrate EXCEPT ![p] = FALSE]
  /\ loop' = [loop EXCEPT ![p] = "connect"]
  /\ failures' = [failures EXCEPT ![p] = 0]
  /\ UNCHANGED <<latest, up, history>>

BackendTurns ==
  /\ up' = ~up
  /\ UNCHANGED <<outboxVars, running, latest, inflight, flushVars, loopVars, history>>

Next ==
  \/ \E p \in Proc :
       \/ \E k \in Key : Push(p, k)
       \/ \E e \in Envelope : PushAgain(p, e)
       \/ \E e \in inflight[p] : PushAnswered(p, e) \/ PushFails(p, e)
       \/ \E who \in {"boot", "loop"} : Flush(p, who)
       \/ ReplayAnswered(p) \/ FlushEnds(p)
       \/ \E c \in saving[p] : Save(p, c)
       \/ Connects(p) \/ ConnectFails(p) \/ StreamCloses(p)
       \/ Boot(p) \/ Crash(p)
  \/ BackendTurns

Spec == Init /\ [][Next]_vars

\* Tasks that can run do: pushes and replays are answered one way or another,
\* saves finish, flushes that are due begin and the event loop tries to connect.
\* Nothing makes the backend come up, a stream close or a process boot.
Fairness ==
  \A p \in Proc :
    /\ WF_vars(\E e \in inflight[p] : PushAnswered(p, e) \/ PushFails(p, e))
    /\ \A who \in {"boot", "loop"} : WF_vars(Flush(p, who))
    /\ WF_vars(ReplayAnswered(p) \/ FlushEnds(p))
    /\ WF_vars(\E c \in saving[p] : Save(p, c))
    /\ WF_vars(Connects(p) \/ ConnectFails(p))

FairSpec == Spec /\ Fairness

-----------------------------------------------------------------------------
(* Properties.                                                              *)

\* The types of the variables.
TypeOK ==
  /\ OutboxTypeOK
  /\ running \in [Proc -> BOOLEAN]
  /\ latest \in [Key -> 0 .. Versions]
  /\ inflight \in [Proc -> SUBSET Envelope]
  /\ replay \in [Proc -> Seq(Envelope)]
  /\ flusher \in [Proc -> {"nobody", "boot", "loop"}]
  /\ hydrate \in [Proc -> BOOLEAN]
  /\ loop \in [Proc -> {"connect", "greet", "poll", "live"}]
  /\ failures \in [Proc -> 0 .. FallbackAfterFailures]
  /\ up \in BOOLEAN
  /\ queued \subseteq Envelope
  /\ gone \subseteq answered /\ answered \subseteq Envelope
  /\ pruned \subseteq Envelope

\* What was flushed and saved as flushed is never loaded by a later boot,
\* whatever other processes that still hold it save, until the cap takes its tombstone
\* off the file (OutboxState: "every boot re-pushed stale entries forever").
FlushedStaysFlushed ==
  [][\A p \in Proc : Boot(p) => Entries(queue'[p]) \cap (gone \ pruned) = {}]_vars

\* After an envelope was safely queued its record stays on file until one of its
\* envelopes is answered, or one that was answered is queued again (which is
\* RequeuedIsLive's): no save of another queue and no eviction loses it (outbox: "a
\* crashed session's queue survives to the next boot").
QueuedRecordsSurvive ==
  \A e \in queued \ answered :
    file # NoFile /\ \E x \in Entries(file) : x.key = e.key /\ x \notin Stones(file)

\* What stays in p's queue, but for the newest entry, is newer than entry i.
NewerStay(p, i) ==
  ToSet(Front(queue'[p].entries)) \subseteq
    ToSet(SubSeq(queue[p].entries, i + 1, Len(queue[p].entries)))

\* An entry leaves the queue of a running process only answered, replaced by
\* another of its record or as the oldest of a full queue; in particular a flush
\* never takes with it what was queued after it began (Outbox::remove: "a fresher
\* enqueue for the same key must survive the flush").
NothingLeavesUnanswered ==
  [][\A p \in Proc : running'[p] =>
       \A i \in DOMAIN queue[p].entries :
         LET e == queue[p].entries[i] IN
         \/ e \in Entries(queue'[p]) \cup answered'
         \/ e.key \in KeysOf(queue'[p])
         \/ Len(queue'[p].entries) >= Cap /\ NewerStay(p, i)]_vars

\* A queue, in memory or on file, holds one entry per record.
OneEntryPerRecord ==
  \A q \in {queue[p] : p \in Proc} \cup ({file} \ {NoFile}) :
    Len(q.entries) = Cardinality(KeysOf(q))

\* Queued pushes get through: once the backend stays up, a process that keeps
\* running and does not hold one stream open for ever empties its queue.
QueueDrains ==
  \A p \in Proc :
    <>[](up /\ running[p]) /\ []<>(loop[p] # "live") => <>[](queue[p].entries = <<>>)

\* As documented, not kept: a failed push that was saved in the queue is there, or another of its record,
\* after a restart (Outbox::enqueue: "A re-queued envelope is live again").
RequeuedIsLive ==
  [][\A p \in Proc : Boot(p) =>
       \A e \in queued : e.key \in KeysOf(queue'[p])]_vars
=============================================================================
