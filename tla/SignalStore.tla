----------------------------- MODULE SignalStore -----------------------------
(***************************************************************************)
(* The signal family: what stakeholders raised, each with a lifecycle and  *)
(* a trail of enrichments, as several server processes of one project keep *)
(* it in memory and in one file, and as it travels through the cloud       *)
(* (signal/engine, signal/domain, signal/mcp/handlers).                    *)
(*                                                                         *)
(* Signals carry no time of change: of two copies the one further along    *)
(* wins.  A promotion makes a roadmap chunk; of the roadmap only these     *)
(* chunks matter here, and its save is one step (RoadmapStore has its      *)
(* parts).  Abstracted: text, confidence and snoozing, all                 *)
(* cross-references but the one to the chunk, and chunks that come back    *)
(* from the cloud.  Triaging is left out: no caller does it.               *)
(***************************************************************************)
EXTENDS Integers, Sequences

CONSTANTS Proc,      \* server processes
          NoFile,    \* the store file does not exist
          Signal,    \* ids to be minted
          CloudOn,   \* whether there is a cloud client
          IOErrors,  \* whether a save, or its re-read, may fail
          MaxTrail,  \* bound on the enrichments of a signal
          MaxCalls   \* bound on calls that write

VARIABLES mem, pc, read, disk,  \* as in MergeSave
          job,        \* job[p]: what the call p is in has left to do
          promoting,  \* promoting[p]: <<step done, signal>> of promotions under way
          road,       \* road[p]: signals whose chunk p's roadmap engine has
          chunks,     \* signals whose chunk is in the roadmap's file
          wire,       \* envelopes pushed so far, any of which may be pulled
          calls,      \* the number of calls that have written
          acked,      \* history: acked[i]: the furthest copy of i that was saved
          lost        \* history: signals whose chunk the file misses by an I/O error

roof == <<road, chunks, lost>>

vars == <<mem, pc, read, disk, job, promoting, road, chunks, wire, calls, acked, lost>>

Status == {"new", "researched", "surfaced", "dismissed", "promoted"}
Terminal == {"dismissed", "promoted"}

\* merge_rank, and below it that of no signal.
Rank == [none |-> -1, new |-> 0, researched |-> 2, surfaced |-> 3,
         dismissed |-> 4, promoted |-> 5]

\* trail is the number of enrichments, ref whether the chunk is referred to.
Copy == [status : Status, trail : 0 .. MaxTrail, ref : BOOLEAN]
Absent == [status |-> "none", trail |-> 0, ref |-> FALSE]
Signals == [Signal -> Copy \cup {Absent}]
Empty == [i \in Signal |-> Absent]

ASSUME SignalAssumption == MaxTrail \in Nat /\ MaxCalls \in Nat /\ NoFile \notin Signals

\* Mutant of Wins: the trail is not looked at.
WinsByRank(incoming, existing) == Rank[incoming.status] > Rank[existing.status]

\* signal_wins: by rank, then by the length of the trail, and strictly.
Wins(incoming, existing) ==
  \/ Rank[incoming.status] > Rank[existing.status]
  \/ incoming.status = existing.status /\ incoming.trail > existing.trail

MergeSignalStores(memory, onDisk) ==
  [i \in Signal |-> IF Wins(onDisk[i], memory[i]) THEN onDisk[i] ELSE memory[i]]

\* The documented order of progress, which the properties are stated in.
Behind(copy, other) ==
  \/ Rank[copy.status] < Rank[other.status]
  \/ copy.status = other.status /\ copy.trail < other.trail

Store == INSTANCE MergeSave WITH Merge <- MergeSignalStores

Init ==
  /\ mem = [p \in Proc |-> Empty]
  /\ pc = [p \in Proc |-> "down"]
  /\ read = [p \in Proc |-> NoFile]
  /\ disk = NoFile
  /\ job = [p \in Proc |-> <<>>]
  /\ promoting = [p \in Proc |-> {}]
  /\ road = [p \in Proc |-> {}]
  /\ chunks = {}
  /\ wire = {}
  /\ calls = 0
  /\ acked = Empty
  /\ lost = {}

-----------------------------------------------------------------------------
(* Calls.  Each mutates memory, saves and pushes the signal, all under the  *)
(* engine mutex: job[p] lists what is left after the save under way.        *)

Step == {"emit", "ref"} \X Signal

Of(p, i) == mem[p][i]
With(p, i, copy) == [mem[p] EXCEPT ![i] = copy]

Write(p, memory, rest) ==
  /\ Store!Mutate(p, memory)
  /\ job' = [job EXCEPT ![p] = rest]
  /\ UNCHANGED <<roof, wire, acked>>

\* The first write of a call: the engine mutex is free.
Call(p, memory, rest) ==
  job[p] = <<>> /\ calls < MaxCalls /\ calls' = calls + 1 /\ Write(p, memory, rest)

\* A call that changes signal i and nothing else.
Change(p, i, copy) ==
  Call(p, With(p, i, copy), <<<<"emit", i>>>>) /\ UNCHANGED promoting

\* Ids are random, so a new one is nobody's.
Minted ==
  LET stores == ({mem[p] : p \in Proc} \cup {read[p] : p \in Proc} \cup {disk}) \ {NoFile}
  IN {i \in Signal : (\E m \in stores : m[i] # Absent) \/ (\E e \in wire : e[1] = i)}

Capture(p, i) ==
  i \notin Minted /\ Change(p, i, [status |-> "new", trail |-> 0, ref |-> FALSE])

Research(p, i) ==
  /\ Of(p, i).status \in Status \ Terminal
  /\ Of(p, i).trail < MaxTrail
  /\ Change(p, i, [Of(p, i) EXCEPT !.trail = @ + 1,
                                   !.status = IF @ = "new" THEN "researched" ELSE @])

\* A reference to the chunk, which may be attached at any time.
Link(p, i) == Of(p, i) # Absent /\ ~Of(p, i).ref /\ Change(p, i, [Of(p, i) EXCEPT !.ref = TRUE])

\* Any other reference or a snooze: saved and pushed.
Snooze(p, i) == Of(p, i) # Absent /\ Change(p, i, Of(p, i))

Surface(p, i) ==
  /\ Of(p, i).status = "researched"
  /\ Change(p, i, [Of(p, i) EXCEPT !.status = "surfaced"])

Ignore(p, i) ==
  /\ Of(p, i).status \in Status \ Terminal
  /\ Change(p, i, [Of(p, i) EXCEPT !.status = "dismissed"])

\* Mutant of Reconcile: the cloud wins unconditionally.
ReconcileUnguarded(p, i, copy) == Call(p, With(p, i, copy), <<>>) /\ UNCHANGED promoting

\* A pulled copy, taken when it is further along; it pushes nothing back.
Reconcile(p, i, copy) ==
  Wins(copy, Of(p, i)) /\ Call(p, With(p, i, copy), <<>>) /\ UNCHANGED promoting

-----------------------------------------------------------------------------
(* signal_promote takes the signal engine's mutex, the roadmap's, and the   *)
(* signal engine's again, and holds neither in between.                     *)

Promotable == {"researched", "surfaced"}

\* A signal that refers to a chunk is taken as promoted.
Choose(p, i) ==
  /\ pc[p] = "idle" /\ job[p] = <<>>
  /\ Of(p, i).status \in Promotable /\ ~Of(p, i).ref
  /\ promoting' = [promoting EXCEPT ![p] = @ \cup {<<"chosen", i>>}]
  /\ UNCHANGED <<mem, pc, read, disk, job, roof, wire, calls, acked>>

\* The roadmap's save: merged with its file, or, when I/O fails, not made, or written
\* over what could not be read.  Whether it worked nobody is told.
SaveRoadmap(p) ==
  /\ chunks' \in {chunks \cup road'[p]} \cup (IF IOErrors THEN {chunks, road'[p]} ELSE {})
  /\ lost' = (lost \cup chunks \cup road'[p]) \ chunks'

\* Any other call that saves the roadmap, when that changes its file.
OtherRoadmapCall(p) ==
  /\ pc[p] # "down" /\ UNCHANGED road
  /\ SaveRoadmap(p) /\ chunks' # chunks
  /\ UNCHANGED <<mem, pc, read, disk, job, promoting, wire, calls, acked>>

\* The chunk's id is made of the signal's, so one that exists already will do.
MakeChunk(p, i) ==
  /\ <<"chosen", i>> \in promoting[p]
  /\ road' = [road EXCEPT ![p] = @ \cup {i}]
  /\ SaveRoadmap(p)
  /\ promoting' = [promoting EXCEPT ![p] = (@ \ {<<"chosen", i>>}) \cup {<<"made", i>>}]
  /\ UNCHANGED <<mem, pc, read, disk, job, wire, calls, acked>>

Forgotten(p, i, step) == promoting' = [promoting EXCEPT ![p] = @ \ {<<step, i>>}]

Promoted(p, i) ==
  Call(p, With(p, i, [Of(p, i) EXCEPT !.status = "promoted"]),
       <<<<"emit", i>>, <<"ref", i>>>>)

\* Mutants of MarkPromoted: the first step's look at the signal is trusted; the
\* chunk comes later.
MarkPromotedUnchecked(p, i) ==
  <<"made", i>> \in promoting[p] /\ Promoted(p, i) /\ Forgotten(p, i, "made")

MarkPromotedFirst(p, i) ==
  /\ <<"chosen", i>> \in promoting[p]
  /\ Of(p, i).status \in Promotable
  /\ Promoted(p, i)
  /\ UNCHANGED promoting

\* A signal that was dismissed or promoted in between is left as it is, with its
\* chunk made.
MarkPromoted(p, i) ==
  /\ <<"made", i>> \in promoting[p]
  /\ Of(p, i).status \in Promotable
  /\ Promoted(p, i)
  /\ Forgotten(p, i, "made")

PromoteFails(p, i) ==
  /\ <<"made", i>> \in promoting[p]
  /\ pc[p] = "idle" /\ job[p] = <<>>
  /\ Of(p, i).status \notin Promotable
  /\ Forgotten(p, i, "made")
  /\ UNCHANGED <<mem, pc, read, disk, job, roof, wire, calls, acked>>

-----------------------------------------------------------------------------
(* What a call does after its first save.                                   *)

Due(p, kind) == pc[p] = "idle" /\ job[p] # <<>> /\ Head(job[p])[1] = kind
Subject(p) == Head(job[p])[2]
Done(p) == job' = [job EXCEPT ![p] = Tail(@)]

Emit(p) ==
  /\ Due(p, "emit")
  /\ wire' = IF CloudOn THEN wire \cup {<<Subject(p), Of(p, Subject(p))>>} ELSE wire
  /\ Done(p)
  /\ UNCHANGED <<mem, pc, read, disk, promoting, roof, calls, acked>>

\* The promoted signal's reference to its chunk, a save and a push of its own.
LinkPromoted(p) ==
  /\ Due(p, "ref")
  /\ LET i == Subject(p) IN
     IF Of(p, i).ref
     THEN Done(p) /\ UNCHANGED <<mem, pc, read, disk, roof, wire, acked>>
     ELSE Write(p, With(p, i, [Of(p, i) EXCEPT !.ref = TRUE]), <<<<"emit", i>>>>)
  /\ UNCHANGED <<promoting, calls>>

-----------------------------------------------------------------------------
(* Saves, crashes and restarts.                                             *)

Quiet == UNCHANGED <<wire, calls>>

LockAndRead(p) == Store!LockAndRead(p) /\ Quiet /\ UNCHANGED <<job, promoting, roof, acked>>

ReadFails(p) ==
  IOErrors /\ Store!ReadFails(p) /\ Quiet /\ UNCHANGED <<job, promoting, roof, acked>>

\* The progress that a save which writes over the file keeps: none but its own.
Kept(p) == IF Store!Unread(p) THEN Empty ELSE acked

RenameAndUnlock(p) ==
  /\ Store!RenameAndUnlock(p)
  /\ acked' = [i \in Signal |-> IF Behind(Kept(p)[i], mem[p][i]) THEN mem[p][i] ELSE Kept(p)[i]]
  /\ Quiet
  /\ UNCHANGED <<job, promoting, roof>>

SaveFails(p) ==
  IOErrors /\ Store!SaveFails(p) /\ Quiet /\ UNCHANGED <<job, promoting, roof, acked>>

Boot(p) ==
  /\ Store!Boot(p, Empty)
  /\ road' = [road EXCEPT ![p] = chunks]
  /\ Quiet
  /\ UNCHANGED <<job, promoting, chunks, acked, lost>>

Crash(p) ==
  /\ Store!Crash(p, Empty)
  /\ job' = [job EXCEPT ![p] = <<>>]
  /\ promoting' = [promoting EXCEPT ![p] = {}]
  /\ road' = [road EXCEPT ![p] = {}]
  /\ Quiet
  /\ UNCHANGED <<chunks, acked, lost>>

Edit(p, i) ==
  Capture(p, i) \/ Research(p, i) \/ Link(p, i) \/ Snooze(p, i) \/ Surface(p, i) \/ Ignore(p, i)

Promote(p, i) == Choose(p, i) \/ MakeChunk(p, i) \/ MarkPromoted(p, i) \/ PromoteFails(p, i)

Next ==
  \E p \in Proc :
    \/ \E i \in Signal : Edit(p, i) \/ Promote(p, i)
    \/ \E e \in wire : Reconcile(p, e[1], e[2])
    \/ Emit(p)
    \/ LinkPromoted(p)
    \/ OtherRoadmapCall(p)
    \/ LockAndRead(p)
    \/ ReadFails(p)
    \/ RenameAndUnlock(p)
    \/ SaveFails(p)
    \/ Boot(p)
    \/ Crash(p)

Spec == Init /\ [][Next]_vars

-----------------------------------------------------------------------------
(* Properties.                                                              *)

TypeOK ==
  /\ mem \in [Proc -> Signals]
  /\ pc \in [Proc -> Store!PC]
  /\ read \in [Proc -> Signals \cup {NoFile}]
  /\ disk \in Signals \cup {NoFile}
  /\ job \in [Proc -> Seq(Step)]
  /\ promoting \in [Proc -> SUBSET ({"chosen", "made"} \X Signal)]
  /\ road \in [Proc -> SUBSET Signal]
  /\ chunks \subseteq Signal /\ lost \subseteq Signal
  /\ wire \subseteq Signal \X Copy
  /\ calls \in 0 .. MaxCalls
  /\ acked \in Signals

\* Progress some caller was told is saved is on file, or more of it is, whatever
\* stale servers save, until a save that could not read the file writes over it
\* (merge_signal_stores: "further along" is a sound recency proxy).
AckedProgressSurvives ==
  \A i \in Signal : acked[i] # Absent => disk # NoFile /\ ~Behind(disk[i], acked[i])

\* Neither a server's memory nor the file ever falls back in rank, or in its trail
\* within a rank, whatever is pulled or merged, unless the save could not read the
\* file (signal_wins: "a stale cloud copy can never roll back a fresher local
\* transition").
ProgressNeverRegresses ==
  [][/\ disk # NoFile =>
          \/ disk' # NoFile /\ \A i \in Signal : ~Behind(disk'[i], disk[i])
          \/ Store!Overwrites
     /\ \A p \in Proc : pc'[p] # "down" => \A i \in Signal : ~Behind(mem'[p][i], mem[p][i])]_vars

\* In its memory a server leaves a dismissed or promoted signal alone, also when a
\* promotion was under way; only a promotion made elsewhere replaces a dismissal (SignalStatus:
\* "Promoted and Dismissed are terminal").
TerminalIsFinal ==
  [][\A p \in Proc, i \in Signal :
       mem[p][i].status \in Terminal /\ pc'[p] # "down" =>
         \/ mem'[p][i].status = mem[p][i].status
         \/ \E e \in wire : e[1] = i /\ e[2] = mem'[p][i] /\ e[2].status = "promoted"]_vars

\* Wherever a signal is promoted, in a memory, on file or on the wire, its chunk is on
\* the roadmap's file, or an I/O error kept it from there: the save of it failed, or a
\* later one wrote over a file that had it ("a promotion already spawned a roadmap
\* chunk").
PromotedHasItsChunk ==
  LET copies == {mem[p] : p \in Proc} \cup ({disk} \ {NoFile})
      promoted == {i \in Signal : \/ \E m \in copies : m[i].status = "promoted"
                                  \/ \E e \in wire : e[1] = i /\ e[2].status = "promoted"}
  IN promoted \subseteq chunks \cup lost

\* A save that holds the lock is still to come, blind when it could not read the file.
Busy ==
  [p \in Proc |-> IF Store!Unread(p) THEN "blind"
                  ELSE IF pc[p] = "locked" THEN "saving" ELSE pc[p]]

Atomic == INSTANCE AtomicSave WITH State <- Signals, Merge <- MergeSignalStores, busy <- Busy

\* A save is one step to everybody else: the file takes a server's memory in on top of
\* all that others saved before, or not at all, wherever servers crash or fail, and
\* only one that could not read the file writes over it (save_merging: "a stale writer
\* can never erase mutations a concurrent process already persisted").
SavesAreAtomic == Atomic!Spec
=============================================================================
