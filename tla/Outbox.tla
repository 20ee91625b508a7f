------------------------------- MODULE Outbox -------------------------------
(***************************************************************************)
(* The durable queue of failed pushes (cloud/outbox.rs, reused by           *)
(* tracker/outbox.rs): latest-only per record, bounded, and saved by the   *)
(* locked merge, with a tombstone for every entry that left it.            *)
(*                                                                         *)
(* A change is made under the queue's mutex, but its snapshot is saved     *)
(* after the mutex is released, so the snapshots of one process reach the  *)
(* file in any order.  The save itself is one step: nothing removes this   *)
(* file, and a process that dies inside it leaves the old one.  An         *)
(* envelope is its record's key and a version; its digest is taken to be   *)
(* the envelope.  Tombstones are capped too, and a merge puts memory's     *)
(* before the file's, so that the ones it cuts off are memory's, not the   *)
(* oldest.  Abstracted: errors of a save and of its reading the file.      *)
(***************************************************************************)
EXTENDS Integers, SequencesExt, FiniteSets, Subsequence

CONSTANTS Proc,      \* server processes sharing one queue file
          NoFile,    \* the file does not exist
          Key,       \* records, as <family>/<kind>/<id>
          Versions,  \* bound on the versions a record goes through
          Cap,       \* OUTBOX_CAP
          StoneCap   \* TOMBSTONE_CAP

VARIABLES queue,   \* queue[p]: the queue in the memory of p
          saving,  \* saving[p]: changes of p whose snapshot is not saved yet
          file     \* the file

outboxVars == <<queue, saving, file>>

ASSUME CapAssumption == Cap \in Nat \ {0}
ASSUME StoneCapAssumption == StoneCap \in Nat \ {0}
ASSUME VersionsAssumption == Versions \in Nat

Envelope == [key : Key, version : 1 .. Versions]

\* Entries oldest first, and the digests of what left the queue.
Queue == [entries : Seq(Envelope), stones : Seq(Envelope)]

\* A change whose snapshot is being saved: what was done to which envelope.
Change == [did : {"enqueue", "remove"}, to : Envelope, snapshot : Queue]

\* The token for a file that does not exist is not one that could exist.
ASSUME NoFileAssumption == NoFile \notin Queue

EmptyQueue == [entries |-> <<>>, stones |-> <<>>]

Entries(q) == ToSet(q.entries)
Stones(q) == ToSet(q.stones)
KeysOf(q) == {e.key : e \in Entries(q)}

\* The envelopes of other records than the keys.
NotOf(keys) == {e \in Envelope : e.key \notin keys}

\* Mutant of Enqueued: an older entry of the record stays.
EnqueuedBehind(q, e) ==
  [entries |-> Append(q.entries, e), stones |-> Kept(q.stones, Envelope \ {e})]

\* The newest failure of a record replaces its entry; one too many and the
\* oldest entry is dropped, one at a time.
Enqueued(q, e) ==
  LET others == Kept(q.entries, NotOf({e.key}))
      all == Append(others, e)
  IN [entries |-> IF Len(all) > Cap THEN Tail(all) ELSE all,
      stones  |-> Kept(q.stones, Envelope \ {e})]

\* As many of the tombstones as are remembered: those at the back.
Capped(stones) ==
  IF Len(stones) > StoneCap THEN SubSeq(stones, Len(stones) - StoneCap + 1, Len(stones))
  ELSE stones

\* Mutant of Removed: whatever is queued for the record goes.
RemovedByKey(q, e) ==
  [entries |-> Kept(q.entries, NotOf({e.key})), stones |-> Capped(Append(q.stones, e))]

\* An entry that was answered goes, unless a fresher one took its place.
Removed(q, e) ==
  [entries |-> Kept(q.entries, Envelope \ {e}), stones |-> Capped(Append(q.stones, e))]

\* The tombstones of a merge before they are capped: memory's, then those of the file
\* that memory has not, each once.
AllStones(memory, onDisk) ==
  LET new == {i \in DOMAIN onDisk.stones :
                /\ onDisk.stones[i] \notin Stones(memory)
                /\ \A j \in 1 .. i - 1 : onDisk.stones[j] # onDisk.stones[i]}
  IN memory.stones \o Picked(onDisk.stones, new)

\* Mutants of MergeOutboxes: no union of entries, none of tombstones.
MergeDropsDiskEntries(memory, onDisk) ==
  [memory EXCEPT !.stones = Capped(AllStones(memory, onDisk))]

MergeDropsDiskStones(memory, onDisk) ==
  [memory EXCEPT !.entries =
     @ \o Kept(onDisk.entries, NotOf(KeysOf(memory)) \ Stones(memory))]

\* Memory wins by key; tombstoned envelopes of the file stay dead.
MergeOutboxes(memory, onDisk) ==
  LET stones == AllStones(memory, onDisk)
      adopted == NotOf(KeysOf(memory)) \ ToSet(stones)
  IN [entries |-> memory.entries \o Kept(onDisk.entries, adopted),
      stones  |-> Capped(stones)]

\* The tombstones that saving a snapshot cuts off.
CutStones(snapshot) ==
  LET all == IF file = NoFile THEN snapshot.stones ELSE AllStones(snapshot, file)
  IN ToSet(all) \ ToSet(Capped(all))

\* A boot drops the entries a tombstone of the file has killed.
Loaded ==
  IF file = NoFile THEN EmptyQueue
  ELSE [file EXCEPT !.entries = Kept(@, Envelope \ Stones(file))]

-----------------------------------------------------------------------------
OutboxInit ==
  /\ queue = [p \in Proc |-> EmptyQueue]
  /\ saving = [p \in Proc |-> {}]
  /\ file = NoFile

\* A change under the mutex, its snapshot now to be saved.
ChangeQueue(p, did, e, q) ==
  /\ queue' = [queue EXCEPT ![p] = q]
  /\ saving' = [saving EXCEPT ![p] = @ \cup {[did |-> did, to |-> e, snapshot |-> q]}]
  /\ UNCHANGED file

Enqueue(p, e) == ChangeQueue(p, "enqueue", e, Enqueued(queue[p], e))

RemoveEntry(p, e) == ChangeQueue(p, "remove", e, Removed(queue[p], e))

Persist(p, c) ==
  /\ file' = IF file = NoFile THEN c.snapshot ELSE MergeOutboxes(c.snapshot, file)
  /\ saving' = [saving EXCEPT ![p] = @ \ {c}]
  /\ UNCHANGED queue

LoadQueue(p) == queue' = [queue EXCEPT ![p] = Loaded] /\ UNCHANGED <<saving, file>>

\* A process that dies takes its queue and its unsaved snapshots with it.
LoseQueue(p) ==
  /\ queue' = [queue EXCEPT ![p] = EmptyQueue]
  /\ saving' = [saving EXCEPT ![p] = {}]
  /\ UNCHANGED file

OutboxTypeOK ==
  /\ queue \in [Proc -> Queue]
  /\ saving \in [Proc -> SUBSET Change]
  /\ file \in Queue \cup {NoFile}
=============================================================================
