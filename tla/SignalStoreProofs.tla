-------------------------- MODULE SignalStoreProofs --------------------------
(***************************************************************************)
(* What SignalStore guarantees for every number of servers and signals,    *)
(* with or without a cloud and I/O errors.                                 *)
(***************************************************************************)
EXTENDS SignalStore, TLAPS

-----------------------------------------------------------------------------
(* Progress is a total order on copies.                                     *)

\* No two statuses share a rank, and the absent signal's is the lowest.
LEMMA RanksDiffer ==
  /\ \A s \in Status \cup {"none"} : Rank[s] \in Int /\ Rank[s] >= -1
  /\ \A s, t \in Status \cup {"none"} : Rank[s] = Rank[t] => s = t
  /\ \A s \in Status : Rank[s] >= 0
  /\ Rank["none"] = -1 /\ Rank["new"] = 0 /\ Rank["researched"] = 2
  /\ Rank["surfaced"] = 3 /\ Rank["dismissed"] = 4 /\ Rank["promoted"] = 5
<1>1. /\ Rank["none"] = -1 /\ Rank["new"] = 0 /\ Rank["researched"] = 2
      /\ Rank["surfaced"] = 3 /\ Rank["dismissed"] = 4 /\ Rank["promoted"] = 5
  BY DEF Rank
<1> QED BY <1>1 DEF Status, Terminal

\* Every copy has a status and a trail.
LEMMA CopyFields ==
  /\ Absent \notin Copy
  /\ \A c \in Copy \cup {Absent} : c.status \in Status \cup {"none"} /\ c.trail \in Nat
  /\ \A c \in Copy : c.status \in Status /\ c.ref \in BOOLEAN
BY SignalAssumption DEF Copy, Absent, Status

\* Wins is Behind, turned around, and "not behind" is reflexive and transitive.
LEMMA ProgressIsOrdered ==
  ASSUME NEW a \in Copy \cup {Absent}, NEW b \in Copy \cup {Absent},
         NEW c \in Copy \cup {Absent}
  PROVE  /\ Wins(a, b) <=> Behind(b, a)
         /\ ~Behind(a, a)
         /\ Behind(a, b) => ~Behind(b, a)
         /\ ~Behind(a, b) /\ ~Behind(b, c) => ~Behind(a, c)
         /\ ~Behind(a, Absent)
BY CopyFields, RanksDiffer DEF Wins, Behind, Absent

\* The merge is a store, each of whose copies is memory's or the file's and behind
\* neither.
LEMMA MergeIsAhead ==
  ASSUME NEW m \in Signals, NEW d \in Signals
  PROVE  /\ MergeSignalStores(m, d) \in Signals
         /\ \A i \in Signal :
              /\ MergeSignalStores(m, d)[i] \in {m[i], d[i]}
              /\ ~Behind(MergeSignalStores(m, d)[i], m[i])
              /\ ~Behind(MergeSignalStores(m, d)[i], d[i])
<1>1. ASSUME NEW i \in Signal
      PROVE  /\ m[i] \in Copy \cup {Absent} /\ d[i] \in Copy \cup {Absent}
             /\ MergeSignalStores(m, d)[i] \in {m[i], d[i]}
             /\ ~Behind(MergeSignalStores(m, d)[i], m[i])
             /\ ~Behind(MergeSignalStores(m, d)[i], d[i])
  <2>1. m[i] \in Copy \cup {Absent} /\ d[i] \in Copy \cup {Absent}
    BY DEF Signals
  <2>2. /\ Wins(d[i], m[i]) <=> Behind(m[i], d[i])
        /\ Behind(m[i], d[i]) => ~Behind(d[i], m[i])
        /\ ~Behind(m[i], m[i]) /\ ~Behind(d[i], d[i])
    BY <2>1, ProgressIsOrdered
  <2> QED BY <2>1, <2>2 DEF MergeSignalStores
<1>2. MergeSignalStores(m, d) \in Signals
  BY <1>1 DEF MergeSignalStores, Signals
<1> QED BY <1>1, <1>2

-----------------------------------------------------------------------------
(* The inductive invariant.                                                 *)

\* The lock is exclusive, and its holder has read what is on file, or nothing.
LockInv ==
  /\ \A p \in Proc : pc[p] = "locked" => read[p] \in {disk, NoFile}
  /\ \A p, q \in Proc : pc[p] = "locked" /\ pc[q] = "locked" => p = q

\* A server that is down knows nothing.
DownInv ==
  \A p \in Proc : pc[p] = "down" => mem[p] = Empty /\ job[p] = <<>> /\ promoting[p] = {}

\* The rest of a call is about signals that are there.
JobInv == \A p \in Proc : \A k \in DOMAIN job[p] : mem[p][job[p][k][2]] # Absent

\* What was reported saved is on file, or more of it.
AckedInv == \A i \in Signal : acked[i] # Absent => disk # NoFile /\ ~Behind(disk[i], acked[i])

\* Promoted signals, and those a promotion is about to mark, have their chunks, or lost
\* them to an I/O error.
ChunkInv ==
  /\ \A p \in Proc, i \in Signal :
       mem[p][i].status = "promoted" \/ <<"made", i>> \in promoting[p] => i \in chunks \cup lost
  /\ disk # NoFile => \A i \in Signal : disk[i].status = "promoted" => i \in chunks \cup lost
  /\ \A e \in wire : e[2].status = "promoted" => e[1] \in chunks \cup lost

IInv == TypeOK /\ LockInv /\ DownInv /\ JobInv /\ AckedInv /\ ChunkInv

LEMMA InitIInv == Init => IInv
<1> SUFFICES ASSUME Init PROVE IInv
  OBVIOUS
<1>1. Empty \in Signals /\ \A i \in Signal : Empty[i] = Absent
  BY DEF Empty, Signals
<1>2. TypeOK
  BY <1>1, SignalAssumption DEF Init, TypeOK, Store!PC
<1> QED BY <1>1, <1>2
  DEF Init, IInv, LockInv, DownInv, JobInv, AckedInv, ChunkInv, Absent

-----------------------------------------------------------------------------
(* Every call that writes changes one signal, forward.                      *)

\* The rests the calls leave.
Rests(i) == {<<>>, <<<<"emit", i>>>>, <<<<"emit", i>>, <<"ref", i>>>>}

\* p writes this copy of signal i: no call takes a signal back, replaces a terminal
\* status by anything but a promotion that was pulled, or promotes without a chunk.
Advances(p, i, copy) ==
  /\ ~Behind(copy, Of(p, i))
  /\ Of(p, i).status \in Terminal =>
       \/ copy.status = Of(p, i).status
       \/ \E e \in wire : e[1] = i /\ e[2] = copy /\ copy.status = "promoted"
  /\ copy.status = "promoted" => i \in chunks \cup lost

EditStep(p) ==
  \E i \in Signal, copy \in Copy : \E rest \in Rests(i) :
    /\ Write(p, With(p, i, copy), rest)
    /\ Advances(p, i, copy)
    /\ calls' \in 0 .. MaxCalls
    /\ promoting' \in {promoting, [promoting EXCEPT ![p] = @ \ {<<"made", i>>}]}

\* What a server has of a signal, and that it is promoted only with its chunk made.
LEMMA CopyThere ==
  ASSUME IInv, NEW p \in Proc, NEW i \in Signal
  PROVE  /\ Of(p, i) \in Copy \cup {Absent}
         /\ Of(p, i).status = "promoted" => i \in chunks \cup lost
<1>1. mem[p] \in Signals
  BY DEF IInv, TypeOK
<1>2. mem[p][i] \in Copy \cup {Absent}
  BY <1>1 DEF Signals
<1>3. mem[p][i].status = "promoted" => i \in chunks \cup lost
  BY DEF IInv, ChunkInv
<1> QED
  BY <1>2, <1>3 DEF Of

\* The first write of a call is such a step.
LEMMA CallIsEdit ==
  ASSUME IInv, NEW p \in Proc, NEW i \in Signal, NEW copy \in Copy, NEW rest \in Rests(i),
         Call(p, With(p, i, copy), rest), Advances(p, i, copy),
         promoting' \in {promoting, [promoting EXCEPT ![p] = @ \ {<<"made", i>>}]}
  PROVE  EditStep(p)
<1>1. calls' \in 0 .. MaxCalls
  BY SignalAssumption DEF Call, IInv, TypeOK
<1> QED BY <1>1 DEF EditStep, Call

\* So are capture, research, link, snooze, surface and ignore.
LEMMA EditsAdvance ==
  ASSUME IInv, NEW p \in Proc, NEW i \in Signal, Edit(p, i)
  PROVE  EditStep(p)
<1> DEFINE old == Of(p, i)
<1>1. /\ old \in Copy \cup {Absent}
      /\ old.status = "promoted" => i \in chunks \cup lost
  BY CopyThere
<1>2. ASSUME NEW copy \in Copy, Change(p, i, copy), Advances(p, i, copy)
      PROVE  EditStep(p)
  BY <1>2, CallIsEdit DEF Change, Rests
<1>3. ASSUME Capture(p, i) PROVE EditStep(p)
  <2> DEFINE copy == [status |-> "new", trail |-> 0, ref |-> FALSE]
  <2>1. copy \in Copy
    BY SignalAssumption DEF Copy, Status
  <2>2. old = Absent
    BY <1>3, SignalAssumption DEF Capture, Minted, Of, IInv, TypeOK
  <2>3. Advances(p, i, copy)
    BY <2>1, <2>2, ProgressIsOrdered DEF Advances, Absent, Terminal
  <2> QED BY <1>2, <1>3, <2>1, <2>3 DEF Capture
<1>4. ASSUME Research(p, i) PROVE EditStep(p)
  <2> DEFINE copy == [old EXCEPT !.trail = @ + 1,
                                 !.status = IF @ = "new" THEN "researched" ELSE @]
  <2>1. old \in Copy /\ old.status \notin Terminal /\ old.trail < MaxTrail /\ Change(p, i, copy)
    BY <1>1, <1>4 DEF Research, Absent, Status
  <2>2. copy = [status |-> IF old.status = "new" THEN "researched" ELSE old.status,
                trail |-> old.trail + 1, ref |-> old.ref]
    <3> DEFINE longer == [old EXCEPT !.trail = @ + 1]
    <3>1. longer = [status |-> old.status, trail |-> old.trail + 1, ref |-> old.ref]
      BY <2>1 DEF Copy
    <3>2. copy = [longer EXCEPT !.status = IF @ = "new" THEN "researched" ELSE @]
      BY <3>1
    <3> HIDE DEF longer, copy
    <3> QED BY <3>1, <3>2
  <2>3. copy \in Copy
    BY <2>1, <2>2, SignalAssumption DEF Copy, Status
  <2>4. ~Behind(copy, old)
    BY <2>1, <2>2, CopyFields, RanksDiffer DEF Behind
  <2>5. copy.status # "promoted"
    BY <2>1, <2>2 DEF Terminal
  <2>6. Advances(p, i, copy)
    BY <2>1, <2>4, <2>5 DEF Advances
  <2> QED BY <1>2, <2>1, <2>3, <2>6
<1>5. ASSUME NEW copy \in Copy, Change(p, i, copy),
             copy.status = old.status, copy.trail = old.trail
      PROVE  EditStep(p)
  <2>1. ~Behind(copy, old)
    BY <1>1, <1>5, CopyFields, RanksDiffer DEF Behind
  <2> QED BY <1>1, <1>2, <1>5, <2>1 DEF Advances
<1>6. ASSUME Link(p, i) \/ Snooze(p, i) PROVE EditStep(p)
  <2>1. old \in Copy
    BY <1>1, <1>6 DEF Link, Snooze
  <2>2. [old EXCEPT !.ref = TRUE] \in Copy
    BY <2>1 DEF Copy
  <2> QED BY <1>5, <1>6, <2>1, <2>2 DEF Link, Snooze, Copy
<1>7. ASSUME NEW status \in {"surfaced", "dismissed"}, old.status \in Status \ Terminal,
             status = "surfaced" => old.status = "researched",
             Change(p, i, [old EXCEPT !.status = status])
      PROVE  EditStep(p)
  <2> DEFINE copy == [old EXCEPT !.status = status]
  <2>1. old \in Copy
    BY <1>1, <1>7 DEF Absent, Status
  <2>2. copy \in Copy /\ copy.status = status /\ copy.trail = old.trail
    BY <2>1 DEF Copy, Status
  <2>3. ~Behind(copy, old)
    BY <1>7, <2>1, <2>2, CopyFields, RanksDiffer DEF Behind, Status, Terminal
  <2> QED BY <1>2, <1>7, <2>2, <2>3 DEF Advances
<1> QED BY <1>3, <1>4, <1>6, <1>7 DEF Edit, Surface, Ignore, Status, Terminal

\* So are the marking of a promotion, whose chunk is made by then, and a pull.
LEMMA PromotionsAdvance ==
  ASSUME IInv, NEW p \in Proc, NEW i \in Signal, MarkPromoted(p, i)
  PROVE  EditStep(p)
<1> DEFINE old == Of(p, i)
           copy == [old EXCEPT !.status = "promoted"]
<1>1. old \in Copy /\ old.status \in Promotable /\ i \in chunks \cup lost
  BY DEF MarkPromoted, IInv, TypeOK, Signals, ChunkInv, Of, Absent, Promotable
<1>2. copy \in Copy /\ copy.status = "promoted"
  BY <1>1 DEF Copy, Status
<1>3. Advances(p, i, copy)
  <2>1. ~Behind(copy, old)
    BY <1>1, <1>2, CopyFields, RanksDiffer DEF Behind, Promotable
  <2> QED BY <1>1, <1>2, <2>1 DEF Advances, Promotable, Terminal
<1>4. /\ Call(p, With(p, i, copy), <<<<"emit", i>>, <<"ref", i>>>>)
      /\ promoting' = [promoting EXCEPT ![p] = @ \ {<<"made", i>>}]
  BY DEF MarkPromoted, Promoted, Forgotten
<1> HIDE DEF copy
<1> QED BY <1>2, <1>3, <1>4, CallIsEdit DEF Rests

LEMMA PullsAdvance ==
  ASSUME IInv, NEW p \in Proc, NEW e \in wire, Reconcile(p, e[1], e[2])
  PROVE  EditStep(p)
<1> DEFINE i == e[1]
           old == Of(p, i)
<1>1. i \in Signal /\ e[2] \in Copy /\ old \in Copy \cup {Absent}
  BY DEF IInv, TypeOK, Signals, Of
<1>2. Behind(old, e[2]) /\ ~Behind(e[2], old)
  BY <1>1, ProgressIsOrdered DEF Reconcile
<1>3. old.status \in Terminal => e[2].status \in {old.status, "promoted"}
  <2> SUFFICES ASSUME old.status \in Terminal, e[2].status # old.status
               PROVE  e[2].status = "promoted"
    OBVIOUS
  <2>1. Rank[old.status] < Rank[e[2].status]
    BY <1>2 DEF Behind
  <2>2. e[2].status \in Status
    BY <1>1, CopyFields
  <2> QED BY <2>1, <2>2, RanksDiffer DEF Terminal, Status
<1>4. e[2].status = "promoted" => i \in chunks \cup lost
  BY DEF IInv, ChunkInv
<1>5. Advances(p, i, e[2])
  BY <1>2, <1>3, <1>4 DEF Advances
<1> QED BY <1>1, <1>5, CallIsEdit DEF Reconcile, Rests

\* The reference of a promoted signal to its chunk is written when it is missing.
LEMMA LinkIsEditOrSkip ==
  ASSUME IInv, NEW p \in Proc, LinkPromoted(p)
  PROVE  \/ EditStep(p)
         \/ Done(p) /\ UNCHANGED <<mem, pc, read, disk, promoting, roof, wire, calls, acked>>
<1> DEFINE i == Subject(p)
           old == Of(p, i)
           copy == [old EXCEPT !.ref = TRUE]
<1>1. job[p] \in Seq(Step) /\ job[p] # <<>>
  BY DEF IInv, TypeOK, LinkPromoted, Due
<1>2. i = job[p][1][2] /\ 1 \in DOMAIN job[p] /\ job[p][1] \in Step
  BY <1>1 DEF Subject
<1>3. i \in Signal /\ old # Absent
  BY <1>2 DEF Step, IInv, JobInv, Of
<1>4. old \in Copy /\ (old.status = "promoted" => i \in chunks \cup lost)
  BY <1>3, CopyThere
<1>5. copy \in Copy /\ copy.status = old.status /\ copy.trail = old.trail
  BY <1>4 DEF Copy
<1>6. Advances(p, i, copy)
  <2>1. ~Behind(copy, old)
    BY <1>4, <1>5, CopyFields, RanksDiffer DEF Behind
  <2> QED BY <1>4, <1>5, <2>1 DEF Advances
<1>7. CASE old.ref
  BY <1>7 DEF LinkPromoted
<1>8. CASE ~old.ref
  <2>1. /\ Write(p, With(p, i, copy), <<<<"emit", i>>>>)
        /\ UNCHANGED <<promoting, calls>>
    BY <1>8 DEF LinkPromoted
  <2>2. calls' \in 0 .. MaxCalls
    BY <2>1 DEF IInv, TypeOK
  <2>3. <<<<"emit", i>>>> \in Rests(i)
    BY DEF Rests
  <2> HIDE DEF copy, i
  <2> QED BY <1>3, <1>5, <1>6, <2>1, <2>2, <2>3 DEF EditStep
<1> QED BY <1>7, <1>8

-----------------------------------------------------------------------------
(* Every step keeps the invariant.                                          *)

LEMMA EditKeepsIInv ==
  ASSUME IInv, NEW p \in Proc, EditStep(p)
  PROVE  IInv'
<1> PICK i \in Signal, copy \in Copy : \E rest \in Rests(i) :
      /\ Write(p, With(p, i, copy), rest)
      /\ Advances(p, i, copy)
      /\ calls' \in 0 .. MaxCalls
      /\ promoting' \in {promoting, [promoting EXCEPT ![p] = @ \ {<<"made", i>>}]}
  BY DEF EditStep
<1> PICK rest \in Rests(i) :
      /\ Write(p, With(p, i, copy), rest)
      /\ Advances(p, i, copy)
      /\ calls' \in 0 .. MaxCalls
      /\ promoting' \in {promoting, [promoting EXCEPT ![p] = @ \ {<<"made", i>>}]}
  OBVIOUS
<1> DEFINE m == With(p, i, copy)
<1>1. /\ pc[p] = "idle" /\ pc' = [pc EXCEPT ![p] = "saving"]
      /\ mem' = [mem EXCEPT ![p] = m]
      /\ job' = [job EXCEPT ![p] = rest]
      /\ UNCHANGED <<read, disk, roof, wire, acked>>
  BY DEF Write, Store!Mutate
<1>2. /\ m \in Signals /\ m[i] = copy /\ copy # Absent
      /\ \A j \in Signal : j # i => m[j] = mem[p][j]
  BY CopyFields DEF With, IInv, TypeOK, Signals
<1>3. rest \in Seq(Step) /\ \A k \in DOMAIN rest : rest[k][2] = i
  <2>1. <<"emit", i>> \in Step /\ <<"ref", i>> \in Step
    BY DEF Step
  <2>2. /\ <<<<"emit", i>>>> \in Seq(Step)
        /\ <<<<"emit", i>>, <<"ref", i>>>> \in Seq(Step)
    BY <2>1
  <2>3. CASE rest = <<>>
    BY <2>3
  <2>4. CASE rest = <<<<"emit", i>>>>
    BY <2>2, <2>4
  <2>5. CASE rest = <<<<"emit", i>>, <<"ref", i>>>>
    BY <2>2, <2>5
  <2> QED BY <2>3, <2>4, <2>5 DEF Rests
<1>4. promoting' \in [Proc -> SUBSET ({"chosen", "made"} \X Signal)]
      /\ \A q \in Proc : promoting'[q] \subseteq promoting[q]
  <2>1. promoting \in [Proc -> SUBSET ({"chosen", "made"} \X Signal)]
    BY DEF IInv, TypeOK
  <2>2. CASE promoting' = promoting
    BY <2>1, <2>2
  <2>3. CASE promoting' = [promoting EXCEPT ![p] = @ \ {<<"made", i>>}]
    <3> DEFINE left == promoting[p] \ {<<"made", i>>}
    <3>1. promoting' = [promoting EXCEPT ![p] = left]
      BY <2>3
    <3>2. left \subseteq promoting[p]
      OBVIOUS
    <3> HIDE DEF left
    <3> QED
      BY <2>1, <3>1, <3>2
  <2> QED
    BY <2>2, <2>3
<1>5. TypeOK'
  BY <1>1, <1>2, <1>3, <1>4 DEF IInv, TypeOK, Store!PC, roof
<1>6. LockInv'
  BY <1>1 DEF IInv, LockInv, TypeOK
<1>7. DownInv'
  BY <1>1, <1>4 DEF IInv, DownInv, TypeOK
<1>8. JobInv'
  BY <1>1, <1>2, <1>3 DEF IInv, JobInv, TypeOK
<1>9. AckedInv'
  BY <1>1 DEF IInv, AckedInv
<1>10. ChunkInv'
  <2>1. copy.status = "promoted" => i \in chunks \cup lost
    BY DEF Advances
  <2> QED BY <1>1, <1>2, <1>4, <2>1 DEF IInv, ChunkInv, TypeOK, roof
<1> QED BY <1>5, <1>6, <1>7, <1>8, <1>9, <1>10 DEF IInv

\* What the file has of the chunks, and what it misses, is never less.
LEMMA NoChunkUnaccounted ==
  ASSUME IInv, NEW p \in Proc, road' \in [Proc -> SUBSET Signal], SaveRoadmap(p)
  PROVE  /\ chunks \cup lost \subseteq (chunks \cup lost)'
         /\ road'[p] \subseteq (chunks \cup lost)'
         /\ chunks' \subseteq Signal /\ lost' \subseteq Signal
<1> USE DEF SaveRoadmap
<1>1. chunks \subseteq Signal /\ lost \subseteq Signal /\ road'[p] \subseteq Signal
  BY DEF IInv, TypeOK
<1>2. chunks' \in {chunks \cup road'[p], chunks, road'[p]}
  OBVIOUS
<1> QED BY <1>1, <1>2

\* The other steps of a promotion, and pushes, leave memories and the file alone.
LEMMA QuietStepsKeepIInv ==
  ASSUME IInv, NEW p \in Proc,
         \/ \E i \in Signal : Choose(p, i) \/ MakeChunk(p, i) \/ PromoteFails(p, i)
         \/ OtherRoadmapCall(p)
         \/ Emit(p)
         \/ Done(p) /\ job[p] # <<>> /\ pc[p] = "idle"
              /\ UNCHANGED <<mem, pc, read, disk, promoting, roof, wire, calls, acked>>
  PROVE  IInv'
<1>1. UNCHANGED <<mem, pc, read, disk, calls, acked>>
  BY DEF Choose, MakeChunk, PromoteFails, OtherRoadmapCall, Emit
<1>2. AckedInv' /\ LockInv'
  BY <1>1 DEF IInv, AckedInv, LockInv
<1>3. ASSUME NEW i \in Signal, Choose(p, i) \/ MakeChunk(p, i) \/ PromoteFails(p, i)
      PROVE  IInv'
  <2>1. /\ UNCHANGED <<job, wire>> /\ chunks' \subseteq Signal /\ lost' \subseteq Signal
        /\ chunks \cup lost \subseteq (chunks \cup lost)'
        /\ road' \in [Proc -> SUBSET Signal]
        /\ promoting' \in [Proc -> SUBSET ({"chosen", "made"} \X Signal)]
        /\ \A q \in Proc : \A j \in Signal :
             <<"made", j>> \in promoting'[q] => <<"made", j>> \in promoting[q] \/ j \in (chunks \cup lost)'
    <3>1. CASE Choose(p, i)
      BY <3>1 DEF Choose, roof, IInv, TypeOK
    <3>2. CASE MakeChunk(p, i)
      <4>1. road' \in [Proc -> SUBSET Signal] /\ i \in road'[p] /\ SaveRoadmap(p)
        BY <3>2 DEF MakeChunk, IInv, TypeOK
      <4>2. /\ UNCHANGED <<job, wire>>
            /\ promoting' = [promoting EXCEPT ![p] = (@ \ {<<"chosen", i>>}) \cup {<<"made", i>>}]
        BY <3>2 DEF MakeChunk
      <4>3. promoting \in [Proc -> SUBSET ({"chosen", "made"} \X Signal)]
        BY DEF IInv, TypeOK
      <4> QED BY <4>1, <4>2, <4>3, NoChunkUnaccounted
    <3>3. CASE PromoteFails(p, i)
      BY <3>3 DEF PromoteFails, Forgotten, roof, IInv, TypeOK
    <3> QED BY <1>3, <3>1, <3>2, <3>3
  <2>2. pc[p] # "down"
    BY <1>3 DEF Choose, MakeChunk, PromoteFails, IInv, DownInv
  <2>3. \A q \in Proc : q # p => promoting'[q] = promoting[q]
    BY <1>3 DEF Choose, MakeChunk, PromoteFails, Forgotten, IInv, TypeOK
  <2>4. TypeOK' /\ JobInv'
    BY <1>1, <2>1 DEF IInv, TypeOK, JobInv
  <2>5. DownInv' /\ ChunkInv'
    BY <1>1, <2>1, <2>2, <2>3 DEF IInv, DownInv, ChunkInv
  <2> QED BY <1>2, <2>4, <2>5 DEF IInv
<1>4. ASSUME UNCHANGED <<promoting, roof>>, Done(p), job[p] # <<>>, pc[p] = "idle",
             wire' \subseteq wire \cup {<<Subject(p), Of(p, Subject(p))>>}
      PROVE  IInv'
  <2>1. job[p] \in Seq(Step) /\ job[p][1] \in Step /\ 1 \in DOMAIN job[p]
    BY <1>4 DEF IInv, TypeOK
  <2>2. Subject(p) = job[p][1][2] /\ Subject(p) \in Signal
    BY <2>1 DEF Subject, Step
  <2>3. Of(p, Subject(p)) \in Copy
    BY <2>1, <2>2 DEF IInv, TypeOK, JobInv, Signals, Of
  <2>4. /\ Tail(job[p]) \in Seq(Step)
        /\ \A k \in DOMAIN Tail(job[p]) :
             k + 1 \in DOMAIN job[p] /\ Tail(job[p])[k] = job[p][k + 1]
    BY <1>4, <2>1
  <2>5. job' = [job EXCEPT ![p] = Tail(job[p])]
    BY <1>4 DEF Done
  <2>6. TypeOK'
    BY <1>1, <1>4, <2>2, <2>3, <2>4, <2>5 DEF IInv, TypeOK, roof
  <2>7. JobInv'
    BY <1>1, <2>4, <2>5 DEF IInv, JobInv, TypeOK
  <2>8. DownInv'
    BY <1>1, <1>4, <2>5 DEF IInv, DownInv, TypeOK
  <2>9. ChunkInv'
    <3>1. \A e \in wire' :
            e \in wire \/ (e[1] = Subject(p) /\ e[2] = mem[p][Subject(p)])
      BY <1>4 DEF Of
    <3>2. \A e \in wire' : e[2].status = "promoted" => e[1] \in (chunks \cup lost)'
      BY <1>4, <2>2, <3>1 DEF IInv, ChunkInv, roof
    <3> QED BY <1>1, <1>4, <3>2 DEF IInv, ChunkInv, roof
  <2> QED BY <1>2, <2>6, <2>7, <2>8, <2>9 DEF IInv
<1>5. ASSUME OtherRoadmapCall(p)
      PROVE  IInv'
  <2>1. /\ UNCHANGED <<road, job, promoting, wire>>
        /\ chunks \cup lost \subseteq (chunks \cup lost)'
        /\ chunks' \subseteq Signal /\ lost' \subseteq Signal
    BY <1>5, NoChunkUnaccounted DEF OtherRoadmapCall, IInv, TypeOK
  <2> QED
    BY <1>1, <1>2, <2>1 DEF IInv, TypeOK, JobInv, DownInv, ChunkInv
<1> QED BY <1>3, <1>4, <1>5 DEF Emit, Due

\* What a rename puts on file: memory and the file merged, or memory alone.
LEMMA SavedIs ==
  ASSUME IInv, NEW p \in Proc, Store!RenameAndUnlock(p)
  PROVE  /\ disk' \in Signals /\ disk' # NoFile
         /\ \A i \in Signal : ~Behind(disk'[i], mem[p][i])
         /\ \A i \in Signal : disk'[i] = mem[p][i] \/ (disk # NoFile /\ disk'[i] = disk[i])
         /\ disk # NoFile /\ ~Store!Unread(p) => \A i \in Signal : ~Behind(disk'[i], disk[i])
<1>1. /\ pc[p] = "locked" /\ disk' = Store!Saved(mem[p], read[p])
      /\ read[p] \in {disk, NoFile}
  BY DEF Store!RenameAndUnlock, IInv, LockInv
<1>2. mem[p] \in Signals /\ disk \in Signals \cup {NoFile}
  BY DEF IInv, TypeOK
<1>3. CASE read[p] = NoFile
  <2>1. disk' = mem[p] /\ (disk = NoFile \/ Store!Unread(p))
    BY <1>1, <1>3 DEF Store!Saved, Store!Unread
  <2>2. \A i \in Signal : mem[p][i] \in Copy \cup {Absent}
    BY <1>2 DEF Signals
  <2> QED BY <1>2, <2>1, <2>2, ProgressIsOrdered, SignalAssumption
<1>4. CASE read[p] # NoFile
  <2>1. disk # NoFile /\ disk' = MergeSignalStores(mem[p], disk)
    BY <1>1, <1>4 DEF Store!Saved
  <2> QED BY <1>2, <2>1, MergeIsAhead, SignalAssumption
<1> QED BY <1>3, <1>4

\* The rename: what is put on file is behind neither memory nor what it acknowledged
\* before, unless it was unread.
LEMMA RenameKeepsIInv ==
  ASSUME IInv, NEW p \in Proc, RenameAndUnlock(p)
  PROVE  IInv'
<1>1. /\ pc[p] = "locked" /\ pc' = [pc EXCEPT ![p] = "idle"]
      /\ read' = [read EXCEPT ![p] = NoFile]
      /\ acked' = [i \in Signal |-> IF Behind(Kept(p)[i], mem[p][i]) THEN mem[p][i] ELSE Kept(p)[i]]
      /\ UNCHANGED <<mem, job, promoting, road, chunks, lost, wire, calls>>
  BY DEF RenameAndUnlock, Store!RenameAndUnlock, Quiet, roof
<1>2. mem[p] \in Signals /\ acked \in Signals /\ disk \in Signals \cup {NoFile}
  BY DEF IInv, TypeOK
<1>3. /\ disk' \in Signals /\ disk' # NoFile
      /\ \A i \in Signal : ~Behind(disk'[i], mem[p][i])
      /\ \A i \in Signal : disk'[i] = mem[p][i] \/ (disk # NoFile /\ disk'[i] = disk[i])
      /\ disk # NoFile /\ ~Store!Unread(p) => \A i \in Signal : ~Behind(disk'[i], disk[i])
  BY SavedIs DEF RenameAndUnlock
<1>4. Kept(p) \in Signals /\ (Kept(p) = acked \/ \A i \in Signal : Kept(p)[i] = Absent)
  BY <1>2 DEF Kept, Empty, Signals
<1>5. acked' \in Signals
  BY <1>1, <1>2, <1>4 DEF Signals
<1>6. TypeOK'
  BY <1>1, <1>3, <1>5 DEF IInv, TypeOK, Store!PC
<1>7. LockInv'
  BY <1>1 DEF IInv, LockInv, TypeOK
<1>8. DownInv' /\ JobInv'
  BY <1>1 DEF IInv, DownInv, JobInv, TypeOK
<1>9. ChunkInv'
  BY <1>1, <1>3 DEF IInv, ChunkInv
<1>10. ASSUME NEW i \in Signal, acked'[i] # Absent
       PROVE  ~Behind(disk'[i], acked'[i])
  <2>1. CASE acked'[i] = mem[p][i]
    BY <1>3, <2>1
  <2>2. CASE acked'[i] # mem[p][i]
    <3>1. acked'[i] = Kept(p)[i]
      BY <1>1, <2>2
    <3>2. acked'[i] = acked[i] /\ ~Store!Unread(p)
      BY <1>10, <3>1 DEF Kept, Empty
    <3>3. disk # NoFile /\ ~Behind(disk[i], acked[i])
      BY <1>10, <3>2 DEF IInv, AckedInv
    <3>4. /\ disk'[i] \in Copy \cup {Absent} /\ disk[i] \in Copy \cup {Absent}
          /\ acked[i] \in Copy \cup {Absent}
      BY <1>2, <1>3, <3>3 DEF Signals
    <3>5. ~Behind(disk'[i], disk[i])
      BY <1>3, <3>2, <3>3
    <3>6. ~Behind(disk'[i], acked[i])
      BY <3>3, <3>4, <3>5, ProgressIsOrdered
    <3> QED BY <3>2, <3>6
  <2> QED BY <2>1, <2>2
<1>11. AckedInv'
  BY <1>3, <1>10 DEF AckedInv
<1> QED BY <1>6, <1>7, <1>8, <1>9, <1>11 DEF IInv

\* The read under the lock, failures, boots and crashes leave the file alone.
LEMMA OtherStepsKeepIInv ==
  ASSUME IInv, NEW p \in Proc, LockAndRead(p) \/ ReadFails(p) \/ SaveFails(p) \/ Boot(p) \/ Crash(p)
  PROVE  IInv'
<1>1. UNCHANGED <<disk, chunks, lost, wire, calls, acked>>
  BY DEF LockAndRead, Store!LockAndRead, ReadFails, Store!ReadFails, SaveFails,
         Store!SaveFails, Boot, Store!Boot, Crash, Store!Crash, Quiet, roof
<1>2. AckedInv'
  BY <1>1 DEF IInv, AckedInv
<1>3. Empty \in Signals /\ \A i \in Signal : Empty[i].status = "none"
  BY DEF Empty, Signals, Absent
<1>4. CASE LockAndRead(p) \/ ReadFails(p)
  <2>1. /\ pc[p] = "saving" /\ (\A q \in Proc : pc[q] # "locked")
        /\ pc' = [pc EXCEPT ![p] = "locked"]
        /\ \E found \in {disk, NoFile} : read' = [read EXCEPT ![p] = found]
        /\ UNCHANGED <<mem, job, promoting, road>>
    BY <1>4 DEF LockAndRead, Store!LockAndRead, ReadFails, Store!ReadFails, Store!LockFree, roof
  <2>2. TypeOK'
    BY <1>1, <2>1 DEF IInv, TypeOK, Store!PC
  <2>3. LockInv'
    BY <1>1, <2>1 DEF IInv, LockInv, TypeOK
  <2>4. DownInv' /\ JobInv' /\ ChunkInv'
    BY <1>1, <2>1 DEF IInv, DownInv, JobInv, ChunkInv, TypeOK
  <2> QED BY <1>2, <2>2, <2>3, <2>4 DEF IInv
<1>5. CASE SaveFails(p)
  <2>1. /\ pc' = [pc EXCEPT ![p] = "idle"] /\ read' = [read EXCEPT ![p] = NoFile]
        /\ pc[p] \in {"saving", "locked"}
        /\ UNCHANGED <<mem, job, promoting, road>>
    BY <1>5 DEF SaveFails, Store!SaveFails, roof
  <2>2. TypeOK' /\ LockInv'
    BY <1>1, <2>1 DEF IInv, TypeOK, Store!PC, LockInv
  <2>3. DownInv' /\ JobInv' /\ ChunkInv'
    BY <1>1, <2>1 DEF IInv, DownInv, JobInv, ChunkInv, TypeOK
  <2> QED BY <1>2, <2>2, <2>3 DEF IInv
<1>6. CASE Boot(p)
  <2>1. /\ pc[p] = "down" /\ pc' = [pc EXCEPT ![p] = "idle"]
        /\ mem' = [mem EXCEPT ![p] = IF disk = NoFile THEN Empty ELSE disk]
        /\ road' = [road EXCEPT ![p] = chunks]
        /\ UNCHANGED <<read, job, promoting>>
    BY <1>6 DEF Boot, Store!Boot
  <2>2. job[p] = <<>> /\ promoting[p] = {}
    BY <2>1 DEF IInv, DownInv
  <2>3. TypeOK' /\ LockInv'
    BY <1>1, <1>3, <2>1 DEF IInv, TypeOK, Store!PC, LockInv
  <2>4. DownInv' /\ JobInv'
    BY <2>1, <2>2 DEF IInv, DownInv, JobInv, TypeOK
  <2>5. ChunkInv'
    BY <1>1, <1>3, <2>1, <2>2 DEF IInv, ChunkInv, TypeOK
  <2> QED BY <1>2, <2>3, <2>4, <2>5 DEF IInv
<1>7. CASE Crash(p)
  <2>1. /\ pc' = [pc EXCEPT ![p] = "down"] /\ mem' = [mem EXCEPT ![p] = Empty]
        /\ read' = [read EXCEPT ![p] = NoFile] /\ job' = [job EXCEPT ![p] = <<>>]
        /\ promoting' = [promoting EXCEPT ![p] = {}]
        /\ road' = [road EXCEPT ![p] = {}]
    BY <1>7 DEF Crash, Store!Crash
  <2>2. TypeOK' /\ LockInv'
    BY <1>1, <1>3, <2>1 DEF IInv, TypeOK, Store!PC, LockInv
  <2>3. DownInv' /\ JobInv'
    BY <2>1 DEF IInv, DownInv, JobInv, TypeOK
  <2>4. ChunkInv'
    BY <1>1, <1>3, <2>1 DEF IInv, ChunkInv, TypeOK
  <2> QED BY <1>2, <2>2, <2>3, <2>4 DEF IInv
<1> QED BY <1>4, <1>5, <1>6, <1>7

\* What a step is: a change of one signal, or one of the steps that change none.
LEMMA NextIsOneOf ==
  ASSUME IInv, Next
  PROVE  \E p \in Proc :
           \/ EditStep(p)
           \/ \E i \in Signal : Choose(p, i) \/ MakeChunk(p, i) \/ PromoteFails(p, i)
           \/ OtherRoadmapCall(p)
           \/ Emit(p)
           \/ Done(p) /\ job[p] # <<>> /\ pc[p] = "idle"
                /\ UNCHANGED <<mem, pc, read, disk, promoting, roof, wire, calls, acked>>
           \/ RenameAndUnlock(p)
           \/ LockAndRead(p) \/ ReadFails(p) \/ SaveFails(p) \/ Boot(p) \/ Crash(p)
<1> PICK p \in Proc :
      \/ \E i \in Signal : Edit(p, i) \/ Promote(p, i)
      \/ \E e \in wire : Reconcile(p, e[1], e[2])
      \/ Emit(p) \/ LinkPromoted(p)
      \/ OtherRoadmapCall(p)
      \/ LockAndRead(p) \/ ReadFails(p) \/ RenameAndUnlock(p) \/ SaveFails(p)
      \/ Boot(p) \/ Crash(p)
  BY DEF Next
<1>1. ASSUME NEW i \in Signal, Edit(p, i) \/ MarkPromoted(p, i) PROVE EditStep(p)
  BY <1>1, EditsAdvance, PromotionsAdvance
<1>2. ASSUME NEW e \in wire, Reconcile(p, e[1], e[2]) PROVE EditStep(p)
  BY <1>2, PullsAdvance
<1>3. LinkPromoted(p) => pc[p] = "idle" /\ job[p] # <<>>
  BY DEF LinkPromoted, Due
<1> QED BY <1>1, <1>2, <1>3, LinkIsEditOrSkip DEF Promote

LEMMA NextKeepsIInv == IInv /\ [Next]_vars => IInv'
<1> SUFFICES ASSUME IInv, [Next]_vars
             PROVE  IInv'
  OBVIOUS
<1>1. CASE UNCHANGED vars
  BY <1>1 DEF vars, IInv, TypeOK, LockInv, DownInv, JobInv, AckedInv, ChunkInv
<1>2. CASE Next
  BY <1>2, NextIsOneOf, EditKeepsIInv, QuietStepsKeepIInv, RenameKeepsIInv, OtherStepsKeepIInv
<1> QED BY <1>1, <1>2

-----------------------------------------------------------------------------
(* The theorems.                                                            *)

\* The invariant holds of every behaviour.
THEOREM Invariance == Spec => []IInv
BY InitIInv, NextKeepsIInv, PTL DEF Spec

\* Every variable keeps its type, whatever the servers do (signal/engine).
THEOREM TypeCorrect == Spec => []TypeOK
<1>1. IInv => TypeOK
  BY DEF IInv
<1> QED BY <1>1, Invariance, PTL

\* Progress some caller was told is saved is on file, or more of it is, until a save that
\* could not read the file writes over it (merge_signal_stores).
THEOREM SavedProgressStays == Spec => []AckedProgressSurvives
<1>1. IInv => AckedProgressSurvives
  BY DEF IInv, AckedInv, AckedProgressSurvives
<1> QED BY <1>1, Invariance, PTL

\* Wherever a signal is promoted its chunk is on the roadmap's file, unless an I/O
\* error kept it from there (signal_promote).
THEOREM PromotionHasSpawned == Spec => []PromotedHasItsChunk
<1>1. ASSUME IInv PROVE PromotedHasItsChunk
  BY <1>1 DEF IInv, ChunkInv, PromotedHasItsChunk
<1> QED BY <1>1, Invariance, PTL

\* Neither the file nor the memory of a server that is up ever falls back in rank, or in
\* its trail within a rank: a write advances, a rename merges unless it could not read
\* the file, a boot starts from what is on file (signal_wins).
THEOREM ProgressIsKept == Spec => ProgressNeverRegresses
<1> DEFINE Forward ==
      /\ disk # NoFile =>
           \/ disk' # NoFile /\ \A i \in Signal : ~Behind(disk'[i], disk[i])
           \/ Store!Overwrites
      /\ \A p \in Proc : pc'[p] # "down" => \A i \in Signal : ~Behind(mem'[p][i], mem[p][i])
<1>1. IInv /\ [Next]_vars => [Forward]_vars
  <2> SUFFICES ASSUME IInv, Next PROVE Forward
    OBVIOUS
  <2>1. /\ disk # NoFile => \A i \in Signal : disk[i] \in Copy \cup {Absent}
        /\ \A q \in Proc, i \in Signal : mem[q][i] \in Copy \cup {Absent}
    BY DEF IInv, TypeOK, Signals
  <2>2. /\ disk # NoFile => \A i \in Signal : ~Behind(disk[i], disk[i])
        /\ \A q \in Proc, i \in Signal : ~Behind(mem[q][i], mem[q][i])
    BY <2>1, ProgressIsOrdered
  <2>3. ASSUME disk' = disk, mem' = mem PROVE Forward
    BY <2>2, <2>3
  <2>4. ASSUME NEW p \in Proc, EditStep(p) PROVE Forward
    <3> PICK i \in Signal, copy \in Copy :
          /\ mem' = [mem EXCEPT ![p] = With(p, i, copy)]
          /\ disk' = disk
          /\ ~Behind(copy, mem[p][i])
      BY <2>4 DEF EditStep, Write, Store!Mutate, Advances, Of
    <3>1. \A j \in Signal : With(p, i, copy)[j] = IF j = i THEN copy ELSE mem[p][j]
      BY DEF With, IInv, TypeOK, Signals
    <3>2. \A q \in Proc : \A j \in Signal : ~Behind(mem'[q][j], mem[q][j])
      BY <2>2, <3>1 DEF IInv, TypeOK
    <3> QED BY <2>2, <3>2
  <2>5. ASSUME NEW p \in Proc, RenameAndUnlock(p) PROVE Forward
    <3>1. Store!RenameAndUnlock(p) /\ mem' = mem
      BY <2>5 DEF RenameAndUnlock, Store!RenameAndUnlock
    <3>2. CASE Store!Unread(p)
      BY <2>2, <3>1, <3>2 DEF Store!Overwrites
    <3>3. CASE ~Store!Unread(p)
      BY <2>2, <3>1, <3>3, SavedIs
    <3> QED BY <3>2, <3>3
  <2>6. ASSUME NEW p \in Proc, Boot(p) PROVE Forward
    <3>1. /\ pc[p] = "down" /\ disk' = disk
          /\ \A q \in Proc : q # p => mem'[q] = mem[q]
      BY <2>6 DEF Boot, Store!Boot, IInv, TypeOK
    <3>2. mem'[p] \in Signals
      BY <2>6 DEF Boot, Store!Boot, IInv, TypeOK, Signals, Empty
    <3>3. \A i \in Signal : mem[p][i] = Absent /\ mem'[p][i] \in Copy \cup {Absent}
      BY <3>1, <3>2 DEF IInv, DownInv, Empty, Signals
    <3>4. \A i \in Signal : ~Behind(mem'[p][i], mem[p][i])
      BY <3>3, ProgressIsOrdered
    <3> QED BY <2>2, <3>1, <3>4
  <2>7. ASSUME NEW p \in Proc, Crash(p) PROVE Forward
    BY <2>2, <2>7 DEF Crash, Store!Crash, IInv, TypeOK
  <2>8. ASSUME NEW p \in Proc, NEW i \in Signal,
               Choose(p, i) \/ MakeChunk(p, i) \/ PromoteFails(p, i)
        PROVE  Forward
    BY <2>3, <2>8, Zenon DEF Choose, MakeChunk, PromoteFails
  <2>9. ASSUME NEW p \in Proc,
               LockAndRead(p) \/ ReadFails(p) \/ SaveFails(p) \/ OtherRoadmapCall(p) \/ Emit(p)
        PROVE  Forward
    BY <2>3, <2>9, Zenon DEF LockAndRead, Store!LockAndRead, ReadFails, Store!ReadFails,
                             SaveFails, Store!SaveFails, OtherRoadmapCall, Emit
  <2> HIDE DEF Forward
  <2> QED BY <2>3, <2>4, <2>5, <2>6, <2>7, <2>8, <2>9, NextIsOneOf
<1> QED BY <1>1, Invariance, PTL DEF Spec, ProgressNeverRegresses

\* A server leaves a signal that is dismissed or promoted in its memory alone, also when
\* a promotion was under way; only a promotion that was pulled replaces a dismissal (SignalStatus).
THEOREM EndsAreFinal == Spec => TerminalIsFinal
<1> DEFINE Final ==
      \A p \in Proc, i \in Signal :
        mem[p][i].status \in Terminal /\ pc'[p] # "down" =>
          \/ mem'[p][i].status = mem[p][i].status
          \/ \E e \in wire : e[1] = i /\ e[2] = mem'[p][i] /\ e[2].status = "promoted"
<1>1. IInv /\ [Next]_vars => [Final]_vars
  <2> SUFFICES ASSUME IInv, Next PROVE Final
    OBVIOUS
  <2>1. ASSUME mem' = mem PROVE Final
    BY <2>1
  <2>2. ASSUME NEW p \in Proc, EditStep(p) PROVE Final
    <3> PICK i \in Signal, copy \in Copy :
          mem' = [mem EXCEPT ![p] = With(p, i, copy)] /\ Advances(p, i, copy)
      BY <2>2 DEF EditStep, Write, Store!Mutate
    <3>1. \A j \in Signal : With(p, i, copy)[j] = IF j = i THEN copy ELSE mem[p][j]
      BY DEF With, IInv, TypeOK, Signals
    <3>2. \A q \in Proc, j \in Signal :
            mem'[q][j] = IF q = p /\ j = i THEN copy ELSE mem[q][j]
      BY <3>1 DEF IInv, TypeOK
    <3> QED BY <3>2 DEF Advances, Of
  <2>3. ASSUME NEW p \in Proc, Boot(p) \/ Crash(p) PROVE Final
    <3>1. \A q \in Proc : q # p => mem'[q] = mem[q]
      BY <2>3 DEF Boot, Store!Boot, Crash, Store!Crash, IInv, TypeOK
    <3>2. pc'[p] = "down" \/ \A i \in Signal : mem[p][i].status = "none"
      BY <2>3 DEF Boot, Store!Boot, Crash, Store!Crash, IInv, TypeOK, DownInv, Empty, Absent
    <3> QED BY <3>1, <3>2 DEF Terminal
  <2> QED BY <2>1, <2>2, <2>3, NextIsOneOf
       DEF Choose, MakeChunk, PromoteFails, OtherRoadmapCall, Emit, RenameAndUnlock,
           Store!RenameAndUnlock, LockAndRead, Store!LockAndRead, ReadFails, Store!ReadFails,
           SaveFails, Store!SaveFails
<1> QED BY <1>1, Invariance, PTL DEF Spec, TerminalIsFinal

-----------------------------------------------------------------------------
(* Saves are atomic.                                                        *)

\* A step writes memory and starts a save, moves no memory and no file, or is one of
\* a save, a boot or a crash.
LEMMA NextMutatesOrSaves ==
  ASSUME IInv, Next
  PROVE  \/ UNCHANGED <<mem, pc, read, disk>>
         \/ \E p \in Proc : \/ \E m2 : Store!Mutate(p, m2)
                           \/ RenameAndUnlock(p) \/ LockAndRead(p) \/ ReadFails(p)
                           \/ SaveFails(p) \/ Boot(p) \/ Crash(p)
<1>1. ASSUME NEW p \in Proc, EditStep(p)
      PROVE  \E m2 : Store!Mutate(p, m2)
  BY <1>1 DEF EditStep, Write
<1>2. ASSUME NEW p \in Proc, NEW i \in Signal, Choose(p, i) \/ MakeChunk(p, i) \/ PromoteFails(p, i)
      PROVE  UNCHANGED <<mem, pc, read, disk>>
  BY <1>2 DEF Choose, MakeChunk, PromoteFails
<1>3. ASSUME NEW p \in Proc, Emit(p) \/ OtherRoadmapCall(p)
      PROVE  UNCHANGED <<mem, pc, read, disk>>
  BY <1>3 DEF Emit, OtherRoadmapCall
<1> QED
  BY <1>1, <1>2, <1>3, NextIsOneOf

\* A step of a save by p moves nobody else's: their saves stay blind or not.
LEMMA OthersStayBusy ==
  ASSUME IInv, NEW p \in Proc, NEW to, pc' = [pc EXCEPT ![p] = to],
         \A q \in Proc : q # p => read'[q] = read[q],
         disk' = disk \/ \A q \in Proc : q # p => pc[q] # "locked"
  PROVE  /\ \A q \in Proc : q # p => Busy'[q] = Busy[q]
         /\ to # "locked" => Busy' = [Busy EXCEPT ![p] = to]
<1>1. pc \in [Proc -> Store!PC]
  BY DEF IInv, TypeOK
<1>2. ASSUME NEW q \in Proc, q # p
      PROVE  Busy'[q] = Busy[q]
  <2>1. pc'[q] = pc[q] /\ read'[q] = read[q] /\ (disk' = disk \/ pc[q] # "locked")
    BY <1>1, <1>2
  <2> QED
    BY <2>1 DEF Busy, Store!Unread
<1>3. ASSUME to # "locked"
      PROVE  Busy' = [Busy EXCEPT ![p] = to]
  <2>1. Busy'[p] = to
    BY <1>1, <1>3 DEF Busy, Store!Unread
  <2>2. Busy' = [q \in Proc |-> Busy'[q]] /\ Busy = [q \in Proc |-> Busy[q]]
    BY DEF Busy
  <2> HIDE DEF Busy
  <2> QED
    BY <1>2, <2>1, <2>2
<1> QED
  BY <1>2, <1>3

\* Every step is one of AtomicSave's, or none: what a rename merges with is the file,
\* when it merges.
LEMMA StepIsAtomic ==
  ASSUME IInv, IInv', Next
  PROVE  Atomic!Next \/ UNCHANGED Atomic!vars
<1>1. /\ pc \in [Proc -> Store!PC] /\ mem \in [Proc -> Signals] /\ mem' \in [Proc -> Signals]
      /\ read \in [Proc -> Signals \cup {NoFile}]
      /\ \A p \in Proc : pc[p] = "locked" => read[p] \in {disk, NoFile}
      /\ \A p, q \in Proc : pc[p] = "locked" /\ pc[q] = "locked" => p = q
  BY DEF IInv, TypeOK, LockInv
<1> DEFINE Turned(p, from, to) == Busy[p] = from /\ Busy' = [Busy EXCEPT ![p] = to]
<1>2. CASE UNCHANGED <<mem, pc, read, disk>>
  BY <1>2 DEF Atomic!vars, Busy, Store!Unread
<1>3. ASSUME NEW p \in Proc, NEW m2, Store!Mutate(p, m2)
      PROVE  Atomic!Change(p)
  <2>1. Turned(p, "idle", "saving")
    <3>1. Busy' = [Busy EXCEPT ![p] = "saving"]
      BY <1>3, OthersStayBusy DEF Store!Mutate
    <3> QED
      BY <1>3, <3>1 DEF Store!Mutate, Busy, Store!Unread
  <2> QED
    BY <1>1, <1>3, <2>1 DEF Store!Mutate, Atomic!Change, Atomic!Turn, Atomic!OthersKeep
<1>4. ASSUME NEW p \in Proc, LockAndRead(p)
      PROVE  UNCHANGED Atomic!vars
  <2>1. /\ pc[p] = "saving" /\ pc' = [pc EXCEPT ![p] = "locked"]
        /\ read' = [read EXCEPT ![p] = disk] /\ UNCHANGED <<mem, disk>>
    BY <1>4 DEF LockAndRead, Store!LockAndRead
  <2>2. \A q \in Proc : q # p => Busy'[q] = Busy[q]
    BY <1>1, <2>1, OthersStayBusy
  <2>3. Busy'[p] = Busy[p]
    BY <1>1, <2>1 DEF Busy, Store!Unread
  <2>4. Busy' = [q \in Proc |-> Busy'[q]] /\ Busy = [q \in Proc |-> Busy[q]]
    BY DEF Busy
  <2> HIDE DEF Busy
  <2>5. Busy' = Busy
    BY <2>2, <2>3, <2>4
  <2> QED
    BY <2>1, <2>5 DEF Atomic!vars
<1>5. ASSUME NEW p \in Proc, ReadFails(p)
      PROVE  Atomic!GoBlind(p)
  <2>1. /\ pc[p] = "saving" /\ pc' = [pc EXCEPT ![p] = "locked"] /\ disk # NoFile
        /\ read' = [read EXCEPT ![p] = NoFile] /\ UNCHANGED <<mem, disk>>
    BY <1>5 DEF ReadFails, Store!ReadFails
  <2>2. \A q \in Proc : q # p => Busy'[q] = Busy[q]
    BY <1>1, <2>1, OthersStayBusy
  <2>3. Busy[p] = "saving" /\ Busy'[p] = "blind"
    BY <1>1, <2>1 DEF Busy, Store!Unread
  <2>4. Busy' = [q \in Proc |-> Busy'[q]] /\ Busy = [q \in Proc |-> Busy[q]]
    BY DEF Busy
  <2> HIDE DEF Busy
  <2>5. Busy' = [Busy EXCEPT ![p] = "blind"]
    BY <2>2, <2>3, <2>4
  <2> QED
    BY <2>1, <2>3, <2>5 DEF Atomic!GoBlind, Atomic!Turn
<1>6. ASSUME NEW p \in Proc, RenameAndUnlock(p)
      PROVE  Atomic!Save(p) \/ Atomic!Overwrite(p)
  <2>1. /\ pc[p] = "locked" /\ pc' = [pc EXCEPT ![p] = "idle"]
        /\ read' = [read EXCEPT ![p] = NoFile] /\ mem' = mem
        /\ disk' = IF read[p] = NoFile THEN mem[p] ELSE MergeSignalStores(mem[p], read[p])
    BY <1>6 DEF RenameAndUnlock, Store!RenameAndUnlock, Store!Saved
  <2>2. Busy' = [Busy EXCEPT ![p] = "idle"]
    BY <1>1, <2>1, OthersStayBusy
  <2>3. CASE Store!Unread(p)
    <3>1. Busy[p] = "blind" /\ disk' = mem[p]
      BY <2>1, <2>3 DEF Busy, Store!Unread
    <3> QED
      BY <2>1, <2>2, <3>1 DEF Atomic!Overwrite, Atomic!Turn
  <2>4. CASE ~Store!Unread(p)
    <3>1. Busy[p] = "saving" /\ read[p] = disk
      BY <1>1, <2>1, <2>4 DEF Busy, Store!Unread
    <3> QED
      BY <2>1, <2>2, <3>1 DEF Atomic!Save, Atomic!Turn
  <2> QED
    BY <2>3, <2>4
<1>7. ASSUME NEW p \in Proc, SaveFails(p)
      PROVE  Atomic!Fail(p)
  <2>1. /\ pc[p] \in {"saving", "locked"} /\ pc' = [pc EXCEPT ![p] = "idle"]
        /\ read' = [read EXCEPT ![p] = NoFile] /\ UNCHANGED <<mem, disk>>
    BY <1>7 DEF SaveFails, Store!SaveFails
  <2>2. Busy' = [Busy EXCEPT ![p] = "idle"]
    BY <1>1, <2>1, OthersStayBusy
  <2>3. Busy[p] \in {"saving", "blind"}
    BY <2>1 DEF Busy
  <2> HIDE DEF Busy
  <2> QED
    BY <2>1, <2>2, <2>3 DEF Atomic!Fail, Atomic!Turn
<1>8. ASSUME NEW p \in Proc, Boot(p)
      PROVE  Atomic!Boot(p)
  <2>1. Turned(p, "down", "idle")
    <3>1. Busy' = [Busy EXCEPT ![p] = "idle"]
      BY <1>8, OthersStayBusy DEF Boot, Store!Boot
    <3> QED
      BY <1>8, <3>1 DEF Boot, Store!Boot, Busy, Store!Unread
  <2> QED
    BY <1>8, <2>1 DEF Boot, Store!Boot, Atomic!Boot, Atomic!Turn
<1>9. ASSUME NEW p \in Proc, Crash(p)
      PROVE  Atomic!Crash(p)
  <2>1. /\ pc[p] # "down" /\ pc' = [pc EXCEPT ![p] = "down"]
        /\ read' = [read EXCEPT ![p] = NoFile]
        /\ mem' = [mem EXCEPT ![p] = Empty] /\ disk' = disk
    BY <1>9 DEF Crash, Store!Crash
  <2>2. Busy' = [Busy EXCEPT ![p] = "down"]
    BY <1>1, <2>1, OthersStayBusy
  <2>3. Busy[p] \in {"idle", "saving", "blind"}
    BY <1>1, <2>1 DEF Busy, Store!PC
  <2> HIDE DEF Busy
  <2> QED
    BY <2>1, <2>2, <2>3 DEF Atomic!Crash, Atomic!Turn
<1> QED
  BY <1>2, <1>3, <1>4, <1>5, <1>6, <1>7, <1>8, <1>9, NextMutatesOrSaves DEF Atomic!Next

\* The store implements AtomicSave: the lock, the read, the merge and the rename are one
\* step to whoever looks at memories and the file, wherever servers crash between them,
\* however many servers save at a time (locked_merge_write).
THEOREM StoreImplementsAtomicSave == Spec => SavesAreAtomic
<1>1. Init => Atomic!Init
  <2>1. ASSUME Init PROVE Busy = [p \in Proc |-> "down"]
    BY <2>1 DEF Init, Busy, Store!Unread
  <2> QED
    BY <2>1 DEF Init, Atomic!Init
<1>2. IInv /\ IInv' /\ [Next]_vars => [Atomic!Next]_Atomic!vars
  <2>1. ASSUME UNCHANGED vars PROVE UNCHANGED Atomic!vars
    BY <2>1 DEF vars, Atomic!vars, Busy, Store!Unread
  <2> QED
    BY <2>1, StepIsAtomic
<1> QED
  BY <1>1, <1>2, Invariance, PTL DEF Spec, SavesAreAtomic, Atomic!Spec
=============================================================================
