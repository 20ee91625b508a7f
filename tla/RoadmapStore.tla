---------------------------- MODULE RoadmapStore ----------------------------
(***************************************************************************)
(* The roadmap family: chunks with their tracker links and opt-ins,        *)
(* container links and lane focuses, as several server processes on one    *)
(* project keep them, each in memory and all in one file, and as they      *)
(* travel through the cloud (roadmap/engine, roadmap/domain, cloud/pull,   *)
(* cloud/build).                                                           *)
(*                                                                         *)
(* A roadmap is a function from slots to stamped entries: a slot is a key  *)
(* of one of its five tables, and an absent record has stamp 0.  Stamps    *)
(* (updated_at) come from one clock that ticks at every write, so the      *)
(* clocks of the machines are taken to agree.  Abstracted: the prose of a  *)
(* chunk, proposals, blockers and groups, notes, refreshes, imports, the   *)
(* one-time repairs, and all trackers but one.                             *)
(***************************************************************************)
EXTENDS Integers, Sequences

CONSTANTS Proc,       \* server processes
          NoFile,     \* the store file does not exist
          ChunkId,    \* chunk ids
          Container,  \* groups and the roof, as the tracker knows them
          Lane,       \* lanes that focus
          Status,     \* the statuses callers ask for
          Inherits,   \* whether a chunk born active is opted in
          CloudOn,    \* whether there is a cloud client
          IOErrors,   \* whether a save, or its re-read, may fail
          MaxClock    \* bound on the number of writes

VARIABLES mem, pc, read, disk,  \* as in MergeSave
          job,    \* job[p]: what the call p is in has left to do
          wire,   \* chunk envelopes pushed so far, any of which may be pulled
          clock,  \* the time: the number of writes so far
          acked   \* history: <<slot, entry>> of every write that was saved

vars == <<mem, pc, read, disk, job, wire, clock, acked>>

Active == {"backlog", "pending", "in_progress", "blocked"}
ChunkStatus == Active \cup {"done", "obsoleted"}

\* The transition table; a chunk may always stay where it is.
Allowed ==
  {<<"backlog", "pending">>, <<"backlog", "obsoleted">>,
   <<"pending", "in_progress">>, <<"pending", "blocked">>,
   <<"pending", "backlog">>, <<"pending", "obsoleted">>,
   <<"in_progress", "done">>, <<"in_progress", "blocked">>,
   <<"in_progress", "pending">>, <<"blocked", "in_progress">>,
   <<"blocked", "pending">>, <<"blocked", "obsoleted">>,
   <<"done", "in_progress">>, <<"obsoleted", "backlog">>,
   <<"obsoleted", "pending">>}

Allows(from, to) == from = to \/ <<from, to>> \in Allowed

-----------------------------------------------------------------------------
(* Slots, entries and roadmaps.                                             *)

Chunk(c) == <<"chunk", c>>
Link(c) == <<"link", c>>
OptIn(c) == <<"optIn", c>>
Bound(k) == <<"container", k>>
Focus(l) == <<"focus", l>>

ChunkSlots(c) == {Chunk(c), Link(c), OptIn(c)}
ContainerSlot == {Bound(k) : k \in Container}
Slot == (UNION {ChunkSlots(c) : c \in ChunkId})
          \cup ContainerSlot \cup {Focus(l) : l \in Lane}

Stamp == Nat \ {0}

\* refs: the cross-references, "twin" that of the tracker link and "proof" the
\* ship task that proves the chunk done.  born is created_at.
ChunkEntry == [stamp : Stamp, status : ChunkStatus,
               refs : SUBSET {"twin", "proof"}, born : Nat]
\* asked is history: whether a caller asked for it or the chunk was born so.
OptInEntry == [stamp : Stamp, enabled : BOOLEAN, asked : BOOLEAN]
ContainerEntry == [stamp : Stamp, minted : BOOLEAN]  \* minted: created_by_us
PlainEntry == [stamp : Stamp]

Absent == [stamp |-> 0]

Entry == {Absent} \cup ChunkEntry \cup OptInEntry \cup ContainerEntry
                  \cup PlainEntry

\* Which entries a slot may hold.
Fits(s, e) ==
  \/ e = Absent
  \/ s[1] = "chunk" /\ e \in ChunkEntry
  \/ s[1] = "optIn" /\ e \in OptInEntry
  \/ s[1] = "container" /\ e \in ContainerEntry
  \/ s[1] \in {"link", "focus"} /\ e \in PlainEntry

Roadmap == {m \in [Slot -> Entry] : \A s \in Slot : Fits(s, m[s])}

Empty == [s \in Slot |-> Absent]

ASSUME RoadmapAssumption ==
  /\ Status \subseteq ChunkStatus
  /\ NoFile \notin Roadmap

-----------------------------------------------------------------------------
(* The merge of a save.                                                     *)

\* The newer of two copies; a tie keeps memory's.
Newer(mine, theirs) == IF theirs.stamp > mine.stamp THEN theirs ELSE mine

\* Mutants of MergeRoadmaps: memory always wins, minting is not sticky.
MergeKeepsMemory(memory, onDisk) == memory

MergeForgetsMinting(memory, onDisk) ==
  [s \in Slot |-> Newer(memory[s], onDisk[s])]

\* created_by_us is sticky: whoever remembers minting a container is right.
MergeRoadmaps(memory, onDisk) ==
  [s \in Slot |->
     IF s \in ContainerSlot /\ memory[s] # Absent /\ onDisk[s] # Absent
     THEN [stamp  |-> Newer(memory[s], onDisk[s]).stamp,
           minted |-> memory[s].minted \/ onDisk[s].minted]
     ELSE Newer(memory[s], onDisk[s])]

Store == INSTANCE MergeSave WITH Merge <- MergeRoadmaps

-----------------------------------------------------------------------------
(* A tool call mutates memory and saves, pushes the chunk it changed to the *)
(* cloud, and for some calls mutates and saves again, all under the engine  *)
(* mutex: job[p] lists what is left after the save under way.               *)

\* A chunk as it travels: the chunk with its link and opt-in as a sidecar.
Envelope == [id : ChunkId, chunk : ChunkEntry \cup {Absent}, link : PlainEntry \cup {Absent},
             optIn : OptInEntry \cup {Absent}]
EnvelopeOf(m, c) ==
  [id |-> c, chunk |-> m[Chunk(c)], link |-> m[Link(c)], optIn |-> m[OptIn(c)]]

Step == ({"emit", "touch", "proof", "optIn"} \X ChunkId) \cup ({"adopt"} \X Envelope)

Init ==
  /\ mem = [p \in Proc |-> Empty]
  /\ pc = [p \in Proc |-> "down"]
  /\ read = [p \in Proc |-> NoFile]
  /\ disk = NoFile
  /\ job = [p \in Proc |-> <<>>]
  /\ wire = {}
  /\ clock = 0
  /\ acked = {}

Now == clock + 1
Tick == clock < MaxClock /\ clock' = Now

Has(p, c) == mem[p][Chunk(c)] # Absent

Touched(m, c) == [m EXCEPT ![Chunk(c)].stamp = Now]
\* Mutant of WithRef: updated_at stays.
WithRefUnstamped(m, c, ref) == [m EXCEPT ![Chunk(c)].refs = @ \cup {ref}]

WithRef(m, c, ref) ==
  [m EXCEPT ![Chunk(c)].refs = @ \cup {ref}, ![Chunk(c)].stamp = Now]
WithOptIn(m, c, enabled, asked) ==
  [Touched(m, c) EXCEPT ![OptIn(c)] =
     [stamp |-> Now, enabled |-> enabled, asked |-> asked]]

\* A write of process p, with what the call still does after the save.
Write(p, memory, rest) ==
  /\ Store!Mutate(p, memory)
  /\ job' = [job EXCEPT ![p] = rest]
  /\ Tick
  /\ UNCHANGED <<wire, acked>>

\* The first write of a call: the engine mutex is free.
Call(p, memory, rest) == job[p] = <<>> /\ Write(p, memory, rest)

\* Errors on a duplicate id; whether the newborn is opted in is decided here.
AddChunk(p, c, status) ==
  /\ ~Has(p, c)
  /\ Call(p, [mem[p] EXCEPT ![Chunk(c)] = [stamp |-> Now, status |-> status,
                                           refs |-> {}, born |-> Now]],
          IF Inherits /\ status \in Active
          THEN <<<<"emit", c>>, <<"optIn", c>>, <<"emit", c>>>>
          ELSE <<<<"emit", c>>>>)

SetStatus(p, c, to) ==
  /\ Has(p, c)
  /\ Allows(mem[p][Chunk(c)].status, to)
  /\ Call(p, [Touched(mem[p], c) EXCEPT ![Chunk(c)].status = to], <<<<"emit", c>>>>)

\* Any edit of what is abstracted: text, group, name, proposals, blocker.
UpdateChunk(p, c) ==
  Has(p, c) /\ Call(p, Touched(mem[p], c), <<<<"emit", c>>>>)

\* With the reference that proves it, done takes two saves.
CompleteChunk(p, c) ==
  /\ Has(p, c)
  /\ Allows(mem[p][Chunk(c)].status, "done")
  /\ Call(p, [Touched(mem[p], c) EXCEPT ![Chunk(c)].status = "done"],
          <<<<"emit", c>>, <<"proof", c>>, <<"emit", c>>>>)

LinkChunk(p, c) ==
  /\ Has(p, c)
  /\ "proof" \notin mem[p][Chunk(c)].refs
  /\ Call(p, WithRef(mem[p], c, "proof"), <<<<"emit", c>>>>)

\* The first binding saves once with the new reference and once more after
\* the chunk is touched; later ones save once.
RecordTrackerLink(p, c) ==
  LET linked == [mem[p] EXCEPT ![Link(c)] = [stamp |-> Now]] IN
  /\ Has(p, c)
  /\ IF "twin" \in mem[p][Chunk(c)].refs
     THEN Call(p, Touched(linked, c), <<<<"emit", c>>>>)
     ELSE Call(p, WithRef(linked, c, "twin"), <<<<"touch", c>>, <<"emit", c>>>>)

\* record_tracker_relations and record_tracker_authored: a hash on the link.
RecordTrackerHash(p, c) ==
  /\ Has(p, c)
  /\ mem[p][Link(c)] # Absent
  /\ Call(p, Touched([mem[p] EXCEPT ![Link(c)].stamp = Now], c), <<<<"emit", c>>>>)

\* Opting out is recorded, not deleted.
SetTrackerOptIn(p, c, enabled) ==
  Has(p, c) /\ Call(p, WithOptIn(mem[p], c, enabled, TRUE), <<<<"emit", c>>>>)

RecordContainerLink(p, k, minted) ==
  LET old == mem[p][Bound(k)] IN
  Call(p, [mem[p] EXCEPT ![Bound(k)] =
             [stamp |-> Now, minted |-> (old # Absent /\ old.minted) \/ minted]], <<>>)

FocusSet(p, l) == Call(p, [mem[p] EXCEPT ![Focus(l)] = [stamp |-> Now]], <<>>)

FocusClear(p, l) ==
  /\ mem[p][Focus(l)] # Absent
  /\ Call(p, [mem[p] EXCEPT ![Focus(l)] = Absent], <<>>)

\* The sidecar's records, each taken only when it is newer.
Adopted(m, e) == [m EXCEPT ![Link(e.id)] = Newer(@, e.link),
                           ![OptIn(e.id)] = Newer(@, e.optIn)]

\* Mutant of Reconcile: the cloud wins unconditionally.
ReconcileUnguarded(p, e) ==
  Call(p, [mem[p] EXCEPT ![Chunk(e.id)] = e.chunk], <<<<"adopt", e>>>>)

\* A pulled envelope: the chunk only when it is newer, then the sidecar.  It
\* pushes nothing back.
Reconcile(p, e) ==
  IF e.chunk.stamp > mem[p][Chunk(e.id)].stamp
  THEN Call(p, [mem[p] EXCEPT ![Chunk(e.id)] = e.chunk], <<<<"adopt", e>>>>)
  ELSE Adopted(mem[p], e) # mem[p] /\ Call(p, Adopted(mem[p], e), <<>>)

-----------------------------------------------------------------------------
(* What a call does after its first save.                                   *)

\* The next step of p's call, of this kind, and what remains after it.
Due(p, kind) == pc[p] = "idle" /\ job[p] # <<>> /\ Head(job[p])[1] = kind
Subject(p) == Head(job[p])[2]

\* A step that finds nothing to do.
Skip(p) ==
  /\ job' = [job EXCEPT ![p] = Tail(@)]
  /\ UNCHANGED <<mem, pc, read, disk, wire, clock, acked>>

\* The frame of the change: pushed to the cloud with the chunk's sidecar.
Emit(p) ==
  /\ Due(p, "emit")
  /\ wire' = IF CloudOn THEN wire \cup {EnvelopeOf(mem[p], Subject(p))} ELSE wire
  /\ job' = [job EXCEPT ![p] = Tail(@)]
  /\ UNCHANGED <<mem, pc, read, disk, clock, acked>>

TouchForLink(p) ==
  Due(p, "touch") /\ Write(p, Touched(mem[p], Subject(p)), Tail(job[p]))

PushProof(p) ==
  /\ Due(p, "proof")
  /\ IF "proof" \in mem[p][Chunk(Subject(p))].refs THEN Skip(p)
     ELSE Write(p, WithRef(mem[p], Subject(p), "proof"), Tail(job[p]))

InheritOptIn(p) ==
  /\ Due(p, "optIn")
  /\ Write(p, WithOptIn(mem[p], Subject(p), TRUE, FALSE), Tail(job[p]))

AdoptSidecar(p) ==
  /\ Due(p, "adopt")
  /\ LET adopted == Adopted(mem[p], Subject(p)) IN
     IF adopted = mem[p] THEN Skip(p) ELSE Write(p, adopted, Tail(job[p]))

-----------------------------------------------------------------------------
(* Saves, crashes and restarts.                                             *)

Quiet == UNCHANGED <<wire, clock>>

LockAndRead(p) == Store!LockAndRead(p) /\ Quiet /\ UNCHANGED <<job, acked>>

ReadFails(p) == IOErrors /\ Store!ReadFails(p) /\ Quiet /\ UNCHANGED <<job, acked>>

\* The writes that a save which writes over the file keeps: none but its own.
Kept(p) == IF Store!Unread(p) THEN {} ELSE acked

RenameAndUnlock(p) ==
  /\ Store!RenameAndUnlock(p)
  /\ acked' = Kept(p) \cup {<<s, mem[p][s]>> : s \in {x \in Slot : mem[p][x] # Absent}}
  /\ Quiet
  /\ UNCHANGED job

SaveFails(p) == IOErrors /\ Store!SaveFails(p) /\ Quiet /\ UNCHANGED <<job, acked>>

Boot(p) == Store!Boot(p, Empty) /\ Quiet /\ UNCHANGED <<job, acked>>

Crash(p) ==
  /\ Store!Crash(p, Empty)
  /\ job' = [job EXCEPT ![p] = <<>>]
  /\ Quiet
  /\ UNCHANGED acked

OfChunk(p, c) ==
  \/ \E status \in Status : AddChunk(p, c, status) \/ SetStatus(p, c, status)
  \/ UpdateChunk(p, c)
  \/ CompleteChunk(p, c)
  \/ LinkChunk(p, c)
  \/ RecordTrackerLink(p, c)
  \/ RecordTrackerHash(p, c)
  \/ \E enabled \in BOOLEAN : SetTrackerOptIn(p, c, enabled)

Continue(p) ==
  Emit(p) \/ TouchForLink(p) \/ PushProof(p) \/ InheritOptIn(p) \/ AdoptSidecar(p)

Next ==
  \E p \in Proc :
    \/ \E c \in ChunkId : OfChunk(p, c)
    \/ \E k \in Container, minted \in BOOLEAN : RecordContainerLink(p, k, minted)
    \/ \E l \in Lane : FocusSet(p, l) \/ FocusClear(p, l)
    \/ \E e \in wire : Reconcile(p, e)
    \/ Continue(p)
    \/ LockAndRead(p)
    \/ ReadFails(p)
    \/ RenameAndUnlock(p)
    \/ SaveFails(p)
    \/ Boot(p)
    \/ Crash(p)

Spec == Init /\ [][Next]_vars

-----------------------------------------------------------------------------
(* Properties.                                                              *)

TypeOK ==
  /\ mem \in [Proc -> Roadmap]
  /\ pc \in [Proc -> Store!PC]
  /\ read \in [Proc -> Roadmap \cup {NoFile}]
  /\ disk \in Roadmap \cup {NoFile}
  /\ job \in [Proc -> Seq(Step)]
  /\ wire \subseteq Envelope
  /\ clock \in Nat
  /\ \A w \in acked : w[1] \in Slot /\ Fits(w[1], w[2])

\* A write some caller was told is saved is on file, or a newer one of the same
\* record is, whatever stale servers save, until a save that could not read the file
\* writes over it (merge_roadmaps: "nothing acked is erased").
AckedWritesSurvive ==
  \A w \in acked : disk # NoFile /\ disk[w[1]].stamp >= w[2].stamp

\* No record on file is ever replaced by an older one, unless the save could not read
\* the file (chunk_wins).
FileNeverRegresses ==
  [][disk # NoFile =>
       \/ disk' # NoFile /\ \A s \in Slot : disk'[s].stamp >= disk[s].stamp
       \/ Store!Overwrites]_vars

\* Once a saved write says we minted a container, the file says so for good, or until
\* it is written over unread ("created_by_us is sticky across the merge").
MintingIsRemembered ==
  \A w \in acked :
    w[1] \in ContainerSlot /\ w[2].minted => disk[w[1]].minted

\* A pull never takes a fresher record from a server's memory, nor does any call
\* (upsert_chunk: the local copy "is as new or newer"); releasing a focus does.
MemoryNeverRegresses ==
  [][\A p \in Proc :
       pc'[p] # "down" =>
         \A c \in ChunkId : \A s \in ChunkSlots(c) :
           mem'[p][s].stamp >= mem[p][s].stamp]_vars

\* Two copies of a record with one stamp are one version, wherever they are: in
\* some memory, on file or on the wire.  A tie keeps the older copy, so copies
\* that broke this would never converge.
StampsIdentifyVersions ==
  LET sent == {[s \in ChunkSlots(e.id) |-> e[s[1]]] : e \in wire}
      copies == {mem[p] : p \in Proc} \cup ({disk} \ {NoFile}) \cup sent
  IN \A m, n \in copies : \A s \in (DOMAIN m \cap DOMAIN n) \ ContainerSlot :
       m[s].stamp = n[s].stamp => m[s] = n[s]

\* As documented, not kept: inheriting an opt-in is for newborns: one inherited by a chunk born after a
\* refusal never replaces that refusal on file (add_chunk_with_content: "never a
\* retroactive sweep").
InheritanceIsNotRetroactive ==
  [][disk # NoFile =>
       \A c \in ChunkId :
         LET old == disk[OptIn(c)]
             new == disk'[OptIn(c)]
         IN /\ old # Absent /\ new # Absent /\ disk'[Chunk(c)] # Absent
            /\ ~old.enabled /\ old.stamp < disk'[Chunk(c)].born
            => ~new.enabled \/ new.asked]_vars

\* As documented, not kept: a saved release of a lane's focus is a release: the file has none afterwards
\* (focus_clear: "Drop `lane`'s focus").  Stated for a server that is alone.
FocusReleaseIsSaved ==
  [][\A p \in Proc, l \in Lane :
       RenameAndUnlock(p) /\ mem[p][Focus(l)] = Absent
         => disk'[Focus(l)] = Absent]_vars

\* A save that holds the lock is still to come, blind when it could not read the file.
Busy ==
  [p \in Proc |-> IF Store!Unread(p) THEN "blind"
                  ELSE IF pc[p] = "locked" THEN "saving" ELSE pc[p]]

Atomic == INSTANCE AtomicSave WITH State <- Roadmap, Merge <- MergeRoadmaps, busy <- Busy

\* A save is one step to everybody else: the file takes a server's memory in on top of
\* all that others saved before, or not at all, wherever servers crash or fail, and
\* only one that could not read the file writes over it (save_merging: "a stale writer
\* can never erase mutations a concurrent process already persisted").
SavesAreAtomic == Atomic!Spec
=============================================================================
