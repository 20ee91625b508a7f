------------------------- MODULE RoadmapStoreProofs -------------------------
(***************************************************************************)
(* What RoadmapStore guarantees for every number of servers, chunks,       *)
(* containers and lanes, with or without a cloud and I/O errors.           *)
(***************************************************************************)
EXTENDS RoadmapStore, TLAPS

-----------------------------------------------------------------------------
(* Slots, entries and the merge.                                            *)

\* An entry that fits a slot is stamped, and is one of the entries.
LEMMA FitsIsEntry ==
  ASSUME NEW s, NEW e, Fits(s, e)
  PROVE  e \in Entry /\ e.stamp \in Nat /\ (e # Absent => e.stamp > 0)
BY DEF Fits, Stamp, Entry, Absent, PlainEntry, ChunkEntry, OptInEntry, ContainerEntry

\* Every table key is a slot, and slots of different tables differ.
LEMMA SlotsAreKeys ==
  /\ \A c \in ChunkId : Chunk(c) \in Slot /\ Link(c) \in Slot /\ OptIn(c) \in Slot
  /\ \A k \in Container : Bound(k) \in Slot /\ Bound(k) \in ContainerSlot
  /\ \A l \in Lane : Focus(l) \in Slot
<1>1. ASSUME NEW c \in ChunkId
      PROVE  Chunk(c) \in Slot /\ Link(c) \in Slot /\ OptIn(c) \in Slot
  <2>1. \A s \in ChunkSlots(c) : s \in Slot
    BY DEF Slot
  <2> QED BY <2>1 DEF ChunkSlots
<1>2. \A k \in Container : Bound(k) \in ContainerSlot
  BY DEF ContainerSlot
<1>3. \A s \in ContainerSlot : s \in Slot
  BY DEF Slot
<1>4. \A l \in Lane : Focus(l) \in Slot
  BY DEF Slot
<1> QED BY <1>1, <1>2, <1>3, <1>4

\* Replacing one record by one that fits leaves a roadmap.
LEMMA EditIsRoadmap ==
  ASSUME NEW m \in Roadmap, NEW s \in Slot, NEW e, Fits(s, e)
  PROVE  [m EXCEPT ![s] = e] \in Roadmap
BY FitsIsEntry DEF Roadmap

LEMMA EmptyIsRoadmap == Empty \in Roadmap
BY DEF Empty, Roadmap, Fits, Entry, Absent, PlainEntry

\* The newer of two copies is one of them, and no older than either.
LEMMA NewerIsNoOlder ==
  ASSUME NEW s, NEW a, NEW b, Fits(s, a), Fits(s, b)
  PROVE  /\ Newer(a, b) \in {a, b}
         /\ Fits(s, Newer(a, b))
         /\ Newer(a, b).stamp >= a.stamp
         /\ Newer(a, b).stamp >= b.stamp
BY FitsIsEntry DEF Newer

\* A container record that is present says who minted it.
LEMMA PresentContainer ==
  ASSUME NEW s \in ContainerSlot, NEW e, Fits(s, e), e # Absent
  PROVE  e \in ContainerEntry
BY DEF Fits, ContainerSlot, Bound

\* The merge is a roadmap that holds, of every record, a copy no older than
\* memory's and the file's, and forgets nobody's minting.
LEMMA MergeKeepsBoth ==
  ASSUME NEW m \in Roadmap, NEW d \in Roadmap
  PROVE  /\ MergeRoadmaps(m, d) \in Roadmap
         /\ \A s \in Slot : /\ MergeRoadmaps(m, d)[s].stamp >= m[s].stamp
                            /\ MergeRoadmaps(m, d)[s].stamp >= d[s].stamp
         /\ \A s \in ContainerSlot :
              \/ m[s] # Absent /\ m[s].minted
              \/ d[s] # Absent /\ d[s].minted
              => MergeRoadmaps(m, d)[s] # Absent /\ MergeRoadmaps(m, d)[s].minted
<1> DEFINE r == MergeRoadmaps(m, d)
<1>1. ASSUME NEW s \in Slot
      PROVE  /\ Fits(s, r[s])
             /\ r[s].stamp >= m[s].stamp
             /\ r[s].stamp >= d[s].stamp
  <2>1. Fits(s, m[s]) /\ Fits(s, d[s])
    BY DEF Roadmap
  <2>2. CASE s \in ContainerSlot /\ m[s] # Absent /\ d[s] # Absent
    <3>1. m[s] \in ContainerEntry /\ d[s] \in ContainerEntry
      BY <2>1, <2>2, PresentContainer
    <3>2. r[s] = [stamp  |-> Newer(m[s], d[s]).stamp,
                  minted |-> m[s].minted \/ d[s].minted]
      BY <2>2 DEF MergeRoadmaps
    <3>3. r[s] \in ContainerEntry /\ r[s].stamp = Newer(m[s], d[s]).stamp
      <4>1. Newer(m[s], d[s]).stamp \in Stamp
        BY <3>1 DEF Newer, ContainerEntry
      <4>2. (m[s].minted \/ d[s].minted) \in BOOLEAN
        OBVIOUS
      <4> QED BY <3>2, <4>1, <4>2 DEF ContainerEntry
    <3>4. s[1] = "container"
      BY <2>2 DEF ContainerSlot, Bound
    <3> QED BY <2>1, <3>3, <3>4, NewerIsNoOlder DEF Fits
  <2>3. CASE ~(s \in ContainerSlot /\ m[s] # Absent /\ d[s] # Absent)
    <3>1. r[s] = Newer(m[s], d[s])
      BY <2>3 DEF MergeRoadmaps
    <3> QED BY <2>1, <3>1, NewerIsNoOlder
  <2> QED BY <2>2, <2>3
<1>2. r \in Roadmap
  <2>1. r = [s \in Slot |-> r[s]]
    BY DEF MergeRoadmaps
  <2>2. \A s \in Slot : Fits(s, r[s])
    BY <1>1
  <2>3. \A s \in Slot : r[s] \in Entry
    BY <2>2, FitsIsEntry
  <2> HIDE DEF r
  <2> QED BY <2>1, <2>2, <2>3 DEF Roadmap
<1>3. ASSUME NEW s \in ContainerSlot,
             \/ m[s] # Absent /\ m[s].minted
             \/ d[s] # Absent /\ d[s].minted
      PROVE  r[s] # Absent /\ r[s].minted
  <2>1. s \in Slot
    BY DEF Slot, ContainerSlot
  <2>2. Fits(s, m[s]) /\ Fits(s, d[s])
    BY <2>1 DEF Roadmap
  <2>3. CASE m[s] # Absent /\ d[s] # Absent
    <3>1. m[s] \in ContainerEntry /\ d[s] \in ContainerEntry
      BY <2>2, <2>3, PresentContainer
    <3>2. r[s] = [stamp  |-> Newer(m[s], d[s]).stamp,
                  minted |-> m[s].minted \/ d[s].minted]
      BY <2>1, <2>3 DEF MergeRoadmaps
    <3>3. r[s] \in ContainerEntry /\ r[s].minted = (m[s].minted \/ d[s].minted)
      <4>1. Newer(m[s], d[s]).stamp \in Stamp
        BY <3>1 DEF Newer, ContainerEntry
      <4>2. (m[s].minted \/ d[s].minted) \in BOOLEAN
        OBVIOUS
      <4> QED BY <3>2, <4>1, <4>2 DEF ContainerEntry
    <3>4. Absent \notin ContainerEntry
      BY DEF Absent, ContainerEntry
    <3> QED BY <1>3, <3>3, <3>4
  <2>4. CASE m[s] = Absent
    <3>1. d[s] \in ContainerEntry /\ d[s].minted
      BY <1>3, <2>2, <2>4, PresentContainer
    <3>2. r[s] = Newer(m[s], d[s])
      BY <2>1, <2>4 DEF MergeRoadmaps
    <3>3. d[s].stamp > 0 /\ d[s].stamp \in Nat
      BY <3>1 DEF ContainerEntry, Stamp
    <3>4. r[s] = d[s]
      BY <2>4, <3>2, <3>3 DEF Newer, Absent
    <3>5. Absent \notin ContainerEntry
      BY DEF Absent, ContainerEntry
    <3> QED BY <3>1, <3>4, <3>5
  <2>5. CASE d[s] = Absent
    <3>1. m[s] \in ContainerEntry /\ m[s].minted
      BY <1>3, <2>2, <2>5, PresentContainer
    <3>2. r[s] = Newer(m[s], d[s])
      BY <2>1, <2>5 DEF MergeRoadmaps
    <3>3. m[s].stamp > 0 /\ m[s].stamp \in Nat
      BY <3>1 DEF ContainerEntry, Stamp
    <3>4. r[s] = m[s]
      BY <2>5, <3>2, <3>3 DEF Newer, Absent
    <3>5. Absent \notin ContainerEntry
      BY DEF Absent, ContainerEntry
    <3> QED BY <3>1, <3>4, <3>5
  <2> QED BY <2>3, <2>4, <2>5
<1> QED BY <1>1, <1>2, <1>3

-----------------------------------------------------------------------------
(* The edits of a tool call yield roadmaps and lose no chunk.               *)

\* m2 is a roadmap that has every chunk m has.
Keeps(m, m2) ==
  /\ m2 \in Roadmap
  /\ \A c \in ChunkId : m[Chunk(c)] # Absent => m2[Chunk(c)] # Absent

\* Whatever is put in a slot, a chunk is not replaced by nothing.
LEMMA EditKeeps ==
  ASSUME NEW m \in Roadmap, NEW s \in Slot, NEW e, Fits(s, e), s[1] = "chunk" => e # Absent
  PROVE  Keeps(m, [m EXCEPT ![s] = e])
<1>1. m \in [Slot -> Entry]
  BY DEF Roadmap
<1>2. \A c \in ChunkId : Chunk(c) \in Slot /\ Chunk(c)[1] = "chunk"
  BY SlotsAreKeys DEF Chunk
<1> QED BY <1>1, <1>2, EditIsRoadmap DEF Keeps

LEMMA KeepsIsTransitive ==
  ASSUME NEW m1, NEW m2, NEW m3, Keeps(m1, m2), Keeps(m2, m3)
  PROVE  Keeps(m1, m3)
BY DEF Keeps

\* A chunk that is present is a chunk record.
LEMMA PresentChunk ==
  ASSUME NEW m \in Roadmap, NEW c \in ChunkId, m[Chunk(c)] # Absent
  PROVE  m[Chunk(c)] \in ChunkEntry
BY SlotsAreKeys DEF Roadmap, Fits, Chunk

\* The next time is a stamp.
LEMMA NowIsStamp == ASSUME clock \in Nat PROVE Now \in Stamp
BY DEF Now, Stamp

\* Replacing a present chunk by another chunk record.
LEMMA ChunkEditKeeps ==
  ASSUME NEW m \in Roadmap, NEW c \in ChunkId, NEW e \in ChunkEntry
  PROVE  Keeps(m, [m EXCEPT ![Chunk(c)] = e])
<1>1. Chunk(c) \in Slot /\ Fits(Chunk(c), e)
  BY SlotsAreKeys DEF Fits, Chunk
<1>2. e # Absent
  BY DEF Absent, ChunkEntry
<1> QED BY <1>1, <1>2, EditKeeps

LEMMA TouchedKeeps ==
  ASSUME clock \in Nat, NEW m \in Roadmap, NEW c \in ChunkId, m[Chunk(c)] # Absent
  PROVE  Keeps(m, Touched(m, c))
<1> DEFINE e == [m[Chunk(c)] EXCEPT !.stamp = Now]
<1>1. e \in ChunkEntry
  BY PresentChunk, NowIsStamp DEF ChunkEntry
<1>2. Touched(m, c) = [m EXCEPT ![Chunk(c)] = e]
  BY DEF Touched
<1> QED BY <1>1, <1>2, ChunkEditKeeps

LEMMA WithRefKeeps ==
  ASSUME clock \in Nat, NEW m \in Roadmap, NEW c \in ChunkId, m[Chunk(c)] # Absent,
         NEW ref \in {"twin", "proof"}
  PROVE  Keeps(m, WithRef(m, c, ref))
<1> DEFINE e1 == [m[Chunk(c)] EXCEPT !.refs = @ \cup {ref}]
           e2 == [e1 EXCEPT !.stamp = Now]
           m1 == [m EXCEPT ![Chunk(c)] = e1]
<1>1. e1 \in ChunkEntry
  BY PresentChunk DEF ChunkEntry
<1>2. e2 \in ChunkEntry
  BY <1>1, NowIsStamp DEF ChunkEntry
<1>3. WithRef(m, c, ref) = [m1 EXCEPT ![Chunk(c)].stamp = Now]
  BY DEF WithRef
<1>4. Keeps(m, m1) /\ m1[Chunk(c)] = e1
  BY <1>1, ChunkEditKeeps, SlotsAreKeys DEF Roadmap
<1>5. WithRef(m, c, ref) = [m1 EXCEPT ![Chunk(c)] = e2]
  BY <1>3, <1>4
<1>6. Keeps(m1, [m1 EXCEPT ![Chunk(c)] = e2])
  BY <1>2, <1>4, ChunkEditKeeps DEF Keeps
<1> QED BY <1>4, <1>5, <1>6, KeepsIsTransitive

LEMMA WithOptInKeeps ==
  ASSUME clock \in Nat, NEW m \in Roadmap, NEW c \in ChunkId, m[Chunk(c)] # Absent,
         NEW enabled \in BOOLEAN, NEW asked \in BOOLEAN
  PROVE  Keeps(m, WithOptIn(m, c, enabled, asked))
<1> DEFINE e == [stamp |-> Now, enabled |-> enabled, asked |-> asked]
<1>1. Fits(OptIn(c), e) /\ OptIn(c) \in Slot /\ OptIn(c)[1] # "chunk"
  BY NowIsStamp, SlotsAreKeys DEF Fits, OptIn, OptInEntry
<1>2. Keeps(m, Touched(m, c))
  BY TouchedKeeps
<1>3. Keeps(Touched(m, c), [Touched(m, c) EXCEPT ![OptIn(c)] = e])
  BY <1>1, <1>2, EditKeeps DEF Keeps
<1> QED BY <1>2, <1>3, KeepsIsTransitive DEF WithOptIn

LEMMA AdoptedKeeps ==
  ASSUME NEW m \in Roadmap, NEW e \in Envelope
  PROVE  Keeps(m, Adopted(m, e))
<1> DEFINE link == Newer(m[Link(e.id)], e.link)
           optIn == Newer(m[OptIn(e.id)], e.optIn)
           m1 == [m EXCEPT ![Link(e.id)] = link]
<1>1. e.id \in ChunkId
  BY DEF Envelope
<1>2. /\ Link(e.id) \in Slot /\ OptIn(e.id) \in Slot /\ Link(e.id) # OptIn(e.id)
      /\ Link(e.id)[1] = "link" /\ OptIn(e.id)[1] = "optIn"
  BY <1>1, SlotsAreKeys DEF Link, OptIn
<1>3. Fits(Link(e.id), e.link) /\ Fits(OptIn(e.id), e.optIn)
  BY <1>2 DEF Fits, Envelope
<1>4. Fits(Link(e.id), link) /\ Fits(OptIn(e.id), optIn)
  BY <1>2, <1>3, NewerIsNoOlder DEF Roadmap
<1>5. Keeps(m, m1)
  BY <1>2, <1>4, EditKeeps
<1>6. Keeps(m1, [m1 EXCEPT ![OptIn(e.id)] = optIn])
  BY <1>2, <1>4, <1>5, EditKeeps DEF Keeps
<1>7. m1[OptIn(e.id)] = m[OptIn(e.id)]
  BY <1>2 DEF Roadmap
<1>8. Adopted(m, e) = [m1 EXCEPT ![OptIn(e.id)] = optIn]
  BY <1>7 DEF Adopted
<1> QED BY <1>5, <1>6, <1>8, KeepsIsTransitive

-----------------------------------------------------------------------------
(* The inductive invariant.                                                 *)

\* The lock is exclusive, and its holder has read what is on file, or nothing.
LockInv ==
  /\ \A p \in Proc : pc[p] = "locked" => read[p] \in {disk, NoFile}
  /\ \A p, q \in Proc : pc[p] = "locked" /\ pc[q] = "locked" => p = q

\* Every step of rest finds its chunk in m.
Grounded(m, rest) ==
  \A i \in DOMAIN rest : rest[i][1] # "adopt" => m[Chunk(rest[i][2])] # Absent

\* A process that is down is in no call, and the rest of a call is about chunks
\* that are there.
JobInv ==
  \A p \in Proc : (pc[p] = "down" => job[p] = <<>>) /\ Grounded(mem[p], job[p])

\* The file holds every saved write or a newer one, and every saved minting.
AckedInv ==
  \A w \in acked :
    /\ w[2] # Absent
    /\ disk # NoFile
    /\ disk[w[1]].stamp >= w[2].stamp
    /\ w[1] \in ContainerSlot /\ w[2].minted => disk[w[1]].minted

IInv == TypeOK /\ LockInv /\ JobInv /\ AckedInv

LEMMA InitIInv == Init => IInv
BY EmptyIsRoadmap DEF Init, IInv, TypeOK, LockInv, JobInv, AckedInv, Grounded, Store!PC

\* The tail of a call's rest is the rest of a call.
LEMMA TailIsRest ==
  ASSUME NEW m, NEW m2, NEW rest \in Seq(Step), rest # <<>>, Grounded(m, rest), Keeps(m, m2)
  PROVE  Tail(rest) \in Seq(Step) /\ Grounded(m2, Tail(rest))
<1>1. Tail(rest) \in Seq(Step) /\ Len(Tail(rest)) = Len(rest) - 1
  OBVIOUS
<1>2. ASSUME NEW i \in DOMAIN Tail(rest), Tail(rest)[i][1] # "adopt"
      PROVE  m2[Chunk(Tail(rest)[i][2])] # Absent
  <2>1. i + 1 \in DOMAIN rest /\ Tail(rest)[i] = rest[i + 1]
    BY <1>1
  <2>2. m[Chunk(rest[i + 1][2])] # Absent
    BY <1>2, <2>1 DEF Grounded
  <2>3. rest[i + 1] \in Step
    BY <2>1
  <2>4. rest[i + 1][2] \in ChunkId
    BY <1>2, <2>1, <2>3 DEF Step
  <2> QED BY <2>1, <2>2, <2>4 DEF Keeps
<1> QED BY <1>1, <1>2 DEF Grounded

\* Any write of a roadmap, with a rest it grounds, keeps the invariant.
LEMMA WriteKeepsIInv ==
  ASSUME IInv, NEW p \in Proc, NEW m2 \in Roadmap, NEW rest \in Seq(Step),
         Grounded(m2, rest), Write(p, m2, rest)
  PROVE  IInv'
<1> USE DEF IInv, Write, Store!Mutate
<1>1. TypeOK'
  BY DEF TypeOK, Store!PC, Tick, Now
<1>2. LockInv'
  BY DEF LockInv, TypeOK
<1>3. JobInv'
  BY DEF JobInv, TypeOK, Grounded
<1>4. AckedInv'
  BY DEF AckedInv
<1> QED BY <1>1, <1>2, <1>3, <1>4

\* The same for the first write of a call that loses no chunk of p, when the
\* rest is about one chunk or is the sidecar.
LEMMA CallKeepsIInv ==
  ASSUME IInv, NEW p \in Proc, NEW m2 \in Roadmap, NEW rest \in Seq(Step),
         Grounded(m2, rest), Call(p, m2, rest)
  PROVE  IInv'
BY WriteKeepsIInv DEF Call

\* The rests the calls leave.
LEMMA RestsOfOneChunk ==
  ASSUME NEW c \in ChunkId, NEW m, m[Chunk(c)] # Absent,
         NEW a \in {"emit", "touch", "proof", "optIn"},
         NEW b \in {"emit", "touch", "proof", "optIn"},
         NEW d \in {"emit", "touch", "proof", "optIn"}
  PROVE  /\ <<<<a, c>>>> \in Seq(Step) /\ Grounded(m, <<<<a, c>>>>)
         /\ <<<<a, c>>, <<b, c>>>> \in Seq(Step) /\ Grounded(m, <<<<a, c>>, <<b, c>>>>)
         /\ <<<<a, c>>, <<b, c>>, <<d, c>>>> \in Seq(Step)
         /\ Grounded(m, <<<<a, c>>, <<b, c>>, <<d, c>>>>)
<1>1. <<a, c>> \in Step /\ <<b, c>> \in Step /\ <<d, c>> \in Step
  BY DEF Step
<1>2. /\ <<<<a, c>>>> \in Seq(Step)
      /\ <<<<a, c>>, <<b, c>>>> \in Seq(Step)
      /\ <<<<a, c>>, <<b, c>>, <<d, c>>>> \in Seq(Step)
  BY <1>1
<1> QED BY <1>2 DEF Grounded

LEMMA NoRest == ASSUME NEW m PROVE <<>> \in Seq(Step) /\ Grounded(m, <<>>)
BY DEF Grounded

-----------------------------------------------------------------------------
(* Every step keeps the invariant.                                          *)

\* One chunk's first writes: each keeps the chunk, then leaves steps about it.
LEMMA OfChunkKeepsIInv ==
  ASSUME IInv, NEW p \in Proc, NEW c \in ChunkId, OfChunk(p, c)
  PROVE  IInv'
<1> DEFINE m == mem[p]
<1>1. m \in Roadmap /\ clock \in Nat
  BY DEF IInv, TypeOK
<1>3. ASSUME NEW status \in Status, AddChunk(p, c, status)
      PROVE  IInv'
  <2> DEFINE e == [stamp |-> Now, status |-> status, refs |-> {}, born |-> Now]
             m2 == [m EXCEPT ![Chunk(c)] = e]
  <2>1. e \in ChunkEntry
    BY <1>1, NowIsStamp, RoadmapAssumption DEF ChunkEntry, Stamp
  <2>2. m2 \in Roadmap /\ m2[Chunk(c)] # Absent
    <3>1. m2[Chunk(c)] = e
      BY <1>1, SlotsAreKeys DEF Roadmap
    <3> QED BY <1>1, <2>1, <3>1, ChunkEditKeeps DEF Keeps, Absent, ChunkEntry
  <2> HIDE DEF e, m2
  <2>3. CASE Call(p, m2, <<<<"emit", c>>, <<"optIn", c>>, <<"emit", c>>>>)
    <3> DEFINE rest == <<<<"emit", c>>, <<"optIn", c>>, <<"emit", c>>>>
    <3>1. rest \in Seq(Step)
      <4>1. <<"emit", c>> \in Step /\ <<"optIn", c>> \in Step
        BY DEF Step
      <4> QED BY <4>1
    <3>2. Grounded(m2, rest)
      BY <2>2 DEF Grounded
    <3>3. Call(p, m2, rest)
      BY <2>3
    <3> HIDE DEF rest
    <3> QED BY <2>2, <3>1, <3>2, <3>3, CallKeepsIInv
  <2>4. CASE Call(p, m2, <<<<"emit", c>>>>)
    BY <2>2, <2>4, RestsOfOneChunk, CallKeepsIInv
  <2> QED BY <1>3, <2>3, <2>4 DEF AddChunk, m2, e
<1>4. ASSUME Has(p, c), NEW to \in ChunkStatus, NEW rest \in Seq(Step),
             \A m2 : m2[Chunk(c)] # Absent => Grounded(m2, rest),
             Call(p, [Touched(m, c) EXCEPT ![Chunk(c)].status = to], rest)
      PROVE  IInv'
  <2> DEFINE t == Touched(m, c)
             e == [t[Chunk(c)] EXCEPT !.status = to]
             m2 == [t EXCEPT ![Chunk(c)] = e]
  <2>1. t \in Roadmap /\ t[Chunk(c)] # Absent
    BY <1>1, <1>4, TouchedKeeps DEF Has, Keeps
  <2>2. e \in ChunkEntry
    BY <2>1, PresentChunk DEF ChunkEntry
  <2>3. m2 \in Roadmap /\ m2[Chunk(c)] # Absent
    BY <2>1, <2>2, ChunkEditKeeps DEF Keeps
  <2> QED BY <1>4, <2>3, CallKeepsIInv
<1>5. ASSUME NEW to \in Status, SetStatus(p, c, to)
      PROVE  IInv'
  <2>1. to \in ChunkStatus
    BY RoadmapAssumption
  <2>2. <<<<"emit", c>>>> \in Seq(Step)
    BY DEF Step
  <2>3. \A m2 : m2[Chunk(c)] # Absent => Grounded(m2, <<<<"emit", c>>>>)
    BY DEF Grounded
  <2> QED BY <1>4, <1>5, <2>1, <2>2, <2>3 DEF SetStatus
<1>6. ASSUME CompleteChunk(p, c)
      PROVE  IInv'
  <2> DEFINE rest == <<<<"emit", c>>, <<"proof", c>>, <<"emit", c>>>>
  <2>1. rest \in Seq(Step)
    <3>1. <<"emit", c>> \in Step /\ <<"proof", c>> \in Step
      BY DEF Step
    <3> QED BY <3>1
  <2>2. \A m2 : m2[Chunk(c)] # Absent => Grounded(m2, rest)
    BY DEF Grounded
  <2>3. "done" \in ChunkStatus
    BY DEF ChunkStatus
  <2> QED BY <1>4, <1>6, <2>1, <2>2, <2>3 DEF CompleteChunk
<1>7. ASSUME UpdateChunk(p, c)
      PROVE  IInv'
  <2>1. Keeps(m, Touched(m, c)) /\ Touched(m, c)[Chunk(c)] # Absent
    BY <1>1, <1>7, TouchedKeeps DEF UpdateChunk, Has, Keeps
  <2> QED BY <1>7, <2>1, RestsOfOneChunk, CallKeepsIInv DEF UpdateChunk, Keeps
<1>8. ASSUME LinkChunk(p, c)
      PROVE  IInv'
  <2>1. Keeps(m, WithRef(m, c, "proof")) /\ WithRef(m, c, "proof")[Chunk(c)] # Absent
    BY <1>1, <1>8, WithRefKeeps DEF LinkChunk, Has, Keeps
  <2> QED BY <1>8, <2>1, RestsOfOneChunk, CallKeepsIInv DEF LinkChunk, Keeps
<1>9. ASSUME Has(p, c)
      PROVE  LET linked == [m EXCEPT ![Link(c)] = [stamp |-> Now]]
             IN linked \in Roadmap /\ linked[Chunk(c)] # Absent
  <2>1. Fits(Link(c), [stamp |-> Now]) /\ Link(c) \in Slot /\ Link(c)[1] # "chunk"
    BY <1>1, NowIsStamp, SlotsAreKeys DEF Fits, Link, PlainEntry
  <2>2. Keeps(m, [m EXCEPT ![Link(c)] = [stamp |-> Now]])
    BY <1>1, <2>1, EditKeeps
  <2> QED BY <1>9, <2>2 DEF Keeps, Has
<1>10. ASSUME RecordTrackerLink(p, c)
       PROVE  IInv'
  <2> DEFINE linked == [m EXCEPT ![Link(c)] = [stamp |-> Now]]
  <2>1. linked \in Roadmap /\ linked[Chunk(c)] # Absent
    BY <1>9, <1>10 DEF RecordTrackerLink
  <2>2. CASE Call(p, Touched(linked, c), <<<<"emit", c>>>>)
    <3>1. Keeps(linked, Touched(linked, c))
      BY <1>1, <2>1, TouchedKeeps
    <3> HIDE DEF linked
    <3> QED BY <2>1, <2>2, <3>1, RestsOfOneChunk, CallKeepsIInv DEF Keeps
  <2>3. CASE Call(p, WithRef(linked, c, "twin"), <<<<"touch", c>>, <<"emit", c>>>>)
    <3>1. Keeps(linked, WithRef(linked, c, "twin"))
      BY <1>1, <2>1, WithRefKeeps
    <3> HIDE DEF linked
    <3> QED BY <2>1, <2>3, <3>1, RestsOfOneChunk, CallKeepsIInv DEF Keeps
  <2> QED BY <1>10, <2>2, <2>3 DEF RecordTrackerLink
<1>11. ASSUME RecordTrackerHash(p, c)
       PROVE  IInv'
  <2> DEFINE linked == [m EXCEPT ![Link(c)].stamp = Now]
  <2>1. m[Link(c)] \in PlainEntry /\ Link(c) \in Slot /\ Link(c)[1] = "link"
    BY <1>1, <1>11, SlotsAreKeys DEF RecordTrackerHash, Roadmap, Fits, Link
  <2>2. Fits(Link(c), [m[Link(c)] EXCEPT !.stamp = Now])
    BY <1>1, <2>1, NowIsStamp DEF Fits, PlainEntry
  <2>3. Keeps(m, linked)
    BY <1>1, <2>1, <2>2, EditKeeps
  <2>4. linked[Chunk(c)] # Absent
    BY <1>11, <2>3 DEF RecordTrackerHash, Has, Keeps
  <2>5. Keeps(linked, Touched(linked, c))
    BY <1>1, <2>3, <2>4, TouchedKeeps DEF Keeps
  <2>6. Call(p, Touched(linked, c), <<<<"emit", c>>>>)
    BY <1>11 DEF RecordTrackerHash
  <2> HIDE DEF linked
  <2> QED BY <2>4, <2>5, <2>6, RestsOfOneChunk, CallKeepsIInv DEF Keeps
<1>12. ASSUME NEW enabled \in BOOLEAN, SetTrackerOptIn(p, c, enabled)
       PROVE  IInv'
  <2>1. Keeps(m, WithOptIn(m, c, enabled, TRUE))
    BY <1>1, <1>12, WithOptInKeeps DEF SetTrackerOptIn, Has
  <2>2. WithOptIn(m, c, enabled, TRUE)[Chunk(c)] # Absent
    BY <1>12, <2>1 DEF SetTrackerOptIn, Has, Keeps
  <2> QED BY <1>12, <2>1, <2>2, RestsOfOneChunk, CallKeepsIInv DEF SetTrackerOptIn, Keeps
<1> QED
  BY <1>3, <1>5, <1>6, <1>7, <1>8, <1>10, <1>11, <1>12 DEF OfChunk

\* Container links, focuses and pulled envelopes.
LEMMA OtherCallsKeepIInv ==
  ASSUME IInv, NEW p \in Proc,
         \/ \E k \in Container, minted \in BOOLEAN : RecordContainerLink(p, k, minted)
         \/ \E l \in Lane : FocusSet(p, l) \/ FocusClear(p, l)
         \/ \E e \in wire : Reconcile(p, e)
  PROVE  IInv'
<1> DEFINE m == mem[p]
<1>1. m \in Roadmap /\ clock \in Nat /\ Now \in Stamp
  BY NowIsStamp DEF IInv, TypeOK
<1>2. ASSUME NEW s \in Slot, s[1] # "chunk", NEW e, Fits(s, e),
             Call(p, [m EXCEPT ![s] = e], <<>>)
      PROVE  IInv'
  BY <1>1, <1>2, EditIsRoadmap, NoRest, CallKeepsIInv
<1>3. ASSUME NEW k \in Container, NEW minted \in BOOLEAN, RecordContainerLink(p, k, minted)
      PROVE  IInv'
  <2> DEFINE sticky == (m[Bound(k)] # Absent /\ m[Bound(k)].minted) \/ minted
             e == [stamp |-> Now, minted |-> sticky]
  <2>1. sticky \in BOOLEAN
    OBVIOUS
  <2>2. e \in ContainerEntry
    BY <1>1, <2>1 DEF ContainerEntry
  <2>3. Bound(k) \in Slot /\ Bound(k)[1] = "container"
    BY SlotsAreKeys DEF Bound
  <2>4. Call(p, [m EXCEPT ![Bound(k)] = e], <<>>)
    BY <1>3 DEF RecordContainerLink
  <2> HIDE DEF e
  <2>5. Fits(Bound(k), e)
    BY <2>2, <2>3 DEF Fits
  <2> QED BY <1>2, <2>3, <2>4, <2>5
<1>4. ASSUME NEW l \in Lane, FocusSet(p, l) \/ FocusClear(p, l)
      PROVE  IInv'
  <2>1. Focus(l) \in Slot /\ Focus(l)[1] = "focus"
    BY SlotsAreKeys DEF Focus
  <2>2. Fits(Focus(l), [stamp |-> Now]) /\ Fits(Focus(l), Absent)
    BY <1>1, <2>1 DEF Fits, PlainEntry
  <2> QED BY <1>2, <1>4, <2>1, <2>2 DEF FocusSet, FocusClear
<1>5. ASSUME NEW e \in wire, Reconcile(p, e)
      PROVE  IInv'
  <2>1. e \in Envelope /\ e.id \in ChunkId
    BY DEF IInv, TypeOK, Envelope
  <2>2. CASE e.chunk.stamp > m[Chunk(e.id)].stamp
    <3>1. Call(p, [m EXCEPT ![Chunk(e.id)] = e.chunk], <<<<"adopt", e>>>>)
      BY <1>5, <2>2 DEF Reconcile
    <3>2. Fits(Chunk(e.id), e.chunk) /\ Chunk(e.id) \in Slot
      BY <2>1, SlotsAreKeys DEF Envelope, Fits, Chunk
    <3>3. <<<<"adopt", e>>>> \in Seq(Step)
      <4>1. <<"adopt", e>> \in Step
        BY <2>1 DEF Step
      <4> QED BY <4>1
    <3>4. \A m2 : Grounded(m2, <<<<"adopt", e>>>>)
      BY DEF Grounded
    <3> QED BY <1>1, <3>1, <3>2, <3>3, <3>4, EditIsRoadmap, CallKeepsIInv
  <2>3. CASE ~(e.chunk.stamp > m[Chunk(e.id)].stamp)
    BY <1>1, <1>5, <2>1, <2>3, AdoptedKeeps, NoRest, CallKeepsIInv DEF Reconcile, Keeps
  <2> QED BY <2>2, <2>3
<1> QED BY <1>3, <1>4, <1>5

\* What a call does after its first save.
LEMMA ContinueKeepsIInv ==
  ASSUME IInv, NEW p \in Proc, Continue(p)
  PROVE  IInv'
<1> DEFINE m == mem[p]
           rest == job[p]
<1>1. /\ m \in Roadmap /\ clock \in Nat /\ rest \in Seq(Step)
      /\ Grounded(m, rest)
  BY DEF IInv, TypeOK, JobInv
<1>2. ASSUME NEW kind, Due(p, kind)
      PROVE  /\ rest # <<>> /\ Head(rest) \in Step /\ Head(rest)[1] = kind
             /\ kind # "adopt" => Subject(p) \in ChunkId /\ m[Chunk(Subject(p))] # Absent
             /\ kind = "adopt" => Subject(p) \in Envelope
  <2>1. rest # <<>> /\ Head(rest)[1] = kind
    BY <1>2 DEF Due
  <2>2. 1 \in DOMAIN rest /\ Head(rest) = rest[1] /\ rest[1] \in Step
    BY <1>1, <2>1
  <2>3. kind # "adopt" => Subject(p) \in ChunkId
    BY <2>1, <2>2 DEF Step, Subject
  <2>4. kind = "adopt" => Subject(p) \in Envelope
    BY <2>1, <2>2 DEF Step, Subject
  <2>5. kind # "adopt" => m[Chunk(Subject(p))] # Absent
    BY <1>1, <2>1, <2>2 DEF Grounded, Subject
  <2> QED BY <2>1, <2>2, <2>3, <2>4, <2>5
<1>3. ASSUME NEW kind, Due(p, kind), NEW m2, Keeps(m, m2), Write(p, m2, Tail(rest))
      PROVE  IInv'
  <2>1. Tail(rest) \in Seq(Step) /\ Grounded(m2, Tail(rest))
    BY <1>1, <1>2, <1>3, TailIsRest
  <2> QED BY <1>3, <2>1, WriteKeepsIInv DEF Keeps
<1>4. ASSUME NEW kind, Due(p, kind), job' = [job EXCEPT ![p] = Tail(@)],
             UNCHANGED <<mem, pc, read, disk, clock, acked>>, wire' \subseteq Envelope
      PROVE  IInv'
  <2>1. Keeps(m, m)
    BY <1>1 DEF Keeps
  <2>2. Tail(rest) \in Seq(Step) /\ Grounded(m, Tail(rest))
    BY <1>1, <1>2, <1>4, <2>1, TailIsRest
  <2>3. pc[p] # "down"
    BY <1>4 DEF Due
  <2>4. TypeOK'
    BY <1>4, <2>2 DEF IInv, TypeOK
  <2>5. LockInv' /\ AckedInv'
    BY <1>4 DEF IInv, LockInv, AckedInv
  <2>6. JobInv'
    BY <1>4, <2>2, <2>3 DEF IInv, JobInv, TypeOK
  <2> QED BY <2>4, <2>5, <2>6 DEF IInv
<1>5. ASSUME NEW kind, Due(p, kind), Skip(p)
      PROVE  IInv'
  BY <1>4, <1>5 DEF Skip, IInv, TypeOK
<1>6. ASSUME Emit(p)
      PROVE  IInv'
  <2>1. Due(p, "emit") /\ Subject(p) \in ChunkId
    BY <1>2, <1>6 DEF Emit
  <2>2. EnvelopeOf(m, Subject(p)) \in Envelope
    <3> DEFINE c == Subject(p)
    <3>1. Fits(Chunk(c), m[Chunk(c)]) /\ Fits(Link(c), m[Link(c)]) /\ Fits(OptIn(c), m[OptIn(c)])
      BY <1>1, <2>1, SlotsAreKeys DEF Roadmap
    <3>2. m[Chunk(c)] \in ChunkEntry \cup {Absent}
      BY <3>1 DEF Fits, Chunk
    <3>3. m[Link(c)] \in PlainEntry \cup {Absent}
      BY <3>1 DEF Fits, Link
    <3>4. m[OptIn(c)] \in OptInEntry \cup {Absent}
      BY <3>1 DEF Fits, OptIn
    <3> QED BY <2>1, <3>2, <3>3, <3>4 DEF EnvelopeOf, Envelope
  <2>3. wire' \subseteq Envelope
    BY <1>6, <2>2 DEF Emit, IInv, TypeOK
  <2> QED BY <1>4, <1>6, <2>1, <2>3 DEF Emit
<1>7. ASSUME TouchForLink(p)
      PROVE  IInv'
  <2>1. Due(p, "touch") /\ Write(p, Touched(m, Subject(p)), Tail(rest))
    BY <1>7 DEF TouchForLink
  <2> QED BY <1>1, <1>2, <1>3, <2>1, TouchedKeeps
<1>8. ASSUME PushProof(p)
      PROVE  IInv'
  <2>1. Due(p, "proof")
    BY <1>8 DEF PushProof
  <2>2. CASE Skip(p)
    BY <1>5, <2>1, <2>2
  <2>3. CASE Write(p, WithRef(m, Subject(p), "proof"), Tail(rest))
    BY <1>1, <1>2, <1>3, <2>1, <2>3, WithRefKeeps
  <2> QED BY <1>8, <2>2, <2>3 DEF PushProof
<1>9. ASSUME InheritOptIn(p)
      PROVE  IInv'
  <2>1. Due(p, "optIn") /\ Write(p, WithOptIn(m, Subject(p), TRUE, FALSE), Tail(rest))
    BY <1>9 DEF InheritOptIn
  <2>2. Subject(p) \in ChunkId /\ m[Chunk(Subject(p))] # Absent
    BY <1>2, <2>1
  <2>3. Keeps(m, WithOptIn(m, Subject(p), TRUE, FALSE))
    BY <1>1, <2>2, WithOptInKeeps
  <2> QED BY <1>3, <2>1, <2>3
<1>10. ASSUME AdoptSidecar(p)
       PROVE  IInv'
  <2>1. Due(p, "adopt")
    BY <1>10 DEF AdoptSidecar
  <2>2. CASE Skip(p)
    BY <1>5, <2>1, <2>2
  <2>3. CASE Write(p, Adopted(m, Subject(p)), Tail(rest))
    BY <1>1, <1>2, <1>3, <2>1, <2>3, AdoptedKeeps
  <2> QED BY <1>10, <2>2, <2>3 DEF AdoptSidecar
<1> QED BY <1>6, <1>7, <1>8, <1>9, <1>10 DEF Continue

\* The read under the lock, or its failure.
LEMMA ReadKeepsIInv ==
  ASSUME IInv, NEW p \in Proc, LockAndRead(p) \/ ReadFails(p)
  PROVE  IInv'
<1>1. /\ pc[p] = "saving" /\ (\A q \in Proc : pc[q] # "locked")
      /\ pc' = [pc EXCEPT ![p] = "locked"]
      /\ \E found \in {disk, NoFile} : read' = [read EXCEPT ![p] = found]
      /\ UNCHANGED <<mem, disk, job, wire, clock, acked>>
  BY DEF LockAndRead, Store!LockAndRead, ReadFails, Store!ReadFails, Store!LockFree, Quiet
<1>2. TypeOK'
  BY <1>1 DEF IInv, TypeOK, Store!PC
<1>3. LockInv'
  BY <1>1 DEF IInv, LockInv, TypeOK
<1>4. JobInv' /\ AckedInv'
  BY <1>1 DEF IInv, JobInv, AckedInv, TypeOK
<1> QED BY <1>2, <1>3, <1>4 DEF IInv

\* The rename: what is put on file is no older than memory's and, unless they were not
\* read, the file's copies, which is what makes the writes it acknowledges survive.
LEMMA RenameKeepsIInv ==
  ASSUME IInv, NEW p \in Proc, RenameAndUnlock(p)
  PROVE  IInv'
<1> DEFINE m == mem[p]
           acks == {<<s, m[s]>> : s \in {x \in Slot : m[x] # Absent}}
<1>1. /\ m \in Roadmap /\ pc[p] = "locked" /\ read[p] \in {disk, NoFile}
      /\ disk \in Roadmap \cup {NoFile}
  BY DEF IInv, TypeOK, LockInv, RenameAndUnlock, Store!RenameAndUnlock
<1>2. disk' = Store!Saved(m, read[p]) /\ acked' = Kept(p) \cup acks
  BY DEF RenameAndUnlock, Store!RenameAndUnlock
<1>3. /\ disk' \in Roadmap
      /\ \A s \in Slot : disk'[s].stamp >= m[s].stamp
      /\ \A s \in ContainerSlot : m[s] # Absent /\ m[s].minted => disk'[s].minted
      /\ disk # NoFile /\ ~Store!Unread(p) =>
           /\ \A s \in Slot : disk'[s].stamp >= disk[s].stamp
           /\ \A s \in ContainerSlot :
                disk[s] # Absent /\ disk[s].minted => disk'[s].minted
  <2>1. CASE read[p] = NoFile
    <3>1. disk' = m /\ (disk = NoFile \/ Store!Unread(p))
      BY <1>1, <1>2, <2>1 DEF Store!Saved, Store!Unread
    <3>2. \A s \in Slot : m[s].stamp \in Nat
      BY <1>1, FitsIsEntry DEF Roadmap
    <3> QED BY <1>1, <3>1, <3>2
  <2>2. CASE read[p] # NoFile
    <3>1. disk' = MergeRoadmaps(m, disk) /\ disk \in Roadmap
      BY <1>1, <1>2, <2>2 DEF Store!Saved
    <3> QED BY <1>1, <3>1, MergeKeepsBoth
  <2> QED BY <2>1, <2>2
<1>4. \A w \in acks : w[1] \in Slot /\ w[2] = m[w[1]] /\ Fits(w[1], w[2]) /\ w[2] # Absent
  BY <1>1 DEF Roadmap
<1>5. Kept(p) \subseteq acked /\ (Kept(p) # {} => ~Store!Unread(p))
  BY DEF Kept
<1>6. TypeOK'
  <2>1. \A w \in acked' : w[1] \in Slot /\ Fits(w[1], w[2])
    BY <1>2, <1>4, <1>5 DEF IInv, TypeOK
  <2> QED BY <1>3, <2>1 DEF IInv, TypeOK, RenameAndUnlock, Store!RenameAndUnlock, Store!PC, Quiet
<1>7. LockInv'
  BY <1>1 DEF IInv, LockInv, TypeOK, RenameAndUnlock, Store!RenameAndUnlock
<1>8. JobInv'
  BY DEF IInv, JobInv, TypeOK, RenameAndUnlock, Store!RenameAndUnlock, Quiet
<1>9. AckedInv'
  <2>1. disk' # NoFile
    BY <1>3, RoadmapAssumption
  <2>2. ASSUME NEW w \in acks
        PROVE  /\ disk'[w[1]].stamp >= w[2].stamp
               /\ w[1] \in ContainerSlot /\ w[2].minted => disk'[w[1]].minted
    BY <1>3, <1>4
  <2>3. ASSUME NEW w \in Kept(p)
        PROVE  /\ w[2] # Absent
               /\ disk'[w[1]].stamp >= w[2].stamp
               /\ w[1] \in ContainerSlot /\ w[2].minted => disk'[w[1]].minted
    <3>1. /\ w[2] # Absent /\ disk # NoFile /\ disk[w[1]].stamp >= w[2].stamp
          /\ w[1] \in ContainerSlot /\ w[2].minted => disk[w[1]].minted
          /\ ~Store!Unread(p)
      BY <1>5 DEF IInv, AckedInv
    <3>2. w[1] \in Slot /\ Fits(w[1], w[2]) /\ disk \in Roadmap
      BY <1>1, <1>5, <3>1 DEF IInv, TypeOK
    <3>3. w[2].stamp \in Nat /\ w[2].stamp > 0
      BY <3>1, <3>2, FitsIsEntry
    <3>4. disk[w[1]].stamp \in Nat /\ disk'[w[1]].stamp \in Nat
      BY <1>3, <3>2, FitsIsEntry DEF Roadmap
    <3>5. disk'[w[1]].stamp >= w[2].stamp
      BY <1>3, <3>1, <3>2, <3>3, <3>4
    <3>6. disk[w[1]] # Absent
      BY <3>1, <3>3 DEF Absent
    <3> QED BY <1>3, <3>1, <3>5, <3>6
  <2> QED BY <1>2, <1>4, <2>1, <2>2, <2>3 DEF AckedInv
<1> QED BY <1>6, <1>7, <1>8, <1>9 DEF IInv

\* A save that fails, a boot and a crash leave the file alone.
LEMMA RestartsKeepIInv ==
  ASSUME IInv, NEW p \in Proc, SaveFails(p) \/ Boot(p) \/ Crash(p)
  PROVE  IInv'
<1>1. /\ UNCHANGED <<disk, wire, clock, acked>>
      /\ Empty \in Roadmap
  BY EmptyIsRoadmap
  DEF SaveFails, Store!SaveFails, Boot, Store!Boot, Crash, Store!Crash, Quiet
<1>2. AckedInv'
  BY <1>1 DEF IInv, AckedInv
<1>3. CASE SaveFails(p)
  <2>1. TypeOK' /\ LockInv' /\ JobInv'
    BY <1>1, <1>3
    DEF IInv, TypeOK, LockInv, JobInv, SaveFails, Store!SaveFails, Store!PC
  <2> QED BY <1>2, <2>1 DEF IInv
<1>4. CASE Boot(p)
  <2>1. TypeOK' /\ LockInv'
    BY <1>1, <1>4 DEF IInv, TypeOK, LockInv, Boot, Store!Boot, Store!PC
  <2>2. JobInv'
    BY <1>4 DEF IInv, TypeOK, JobInv, Grounded, Boot, Store!Boot
  <2> QED BY <1>2, <2>1, <2>2 DEF IInv
<1>5. CASE Crash(p)
  <2>1. TypeOK' /\ LockInv'
    BY <1>1, <1>5 DEF IInv, TypeOK, LockInv, Crash, Store!Crash, Store!PC
  <2>2. JobInv'
    BY <1>5 DEF IInv, TypeOK, JobInv, Grounded, Crash, Store!Crash
  <2> QED BY <1>2, <2>1, <2>2 DEF IInv
<1> QED BY <1>3, <1>4, <1>5

LEMMA NextKeepsIInv == IInv /\ [Next]_vars => IInv'
<1> SUFFICES ASSUME IInv, [Next]_vars
             PROVE  IInv'
  OBVIOUS
<1>1. CASE UNCHANGED vars
  BY <1>1 DEF vars, IInv, TypeOK, LockInv, JobInv, AckedInv
<1>2. CASE Next
  BY <1>2, OfChunkKeepsIInv, OtherCallsKeepIInv, ContinueKeepsIInv,
     ReadKeepsIInv, RenameKeepsIInv, RestartsKeepIInv
  DEF Next
<1> QED BY <1>1, <1>2

-----------------------------------------------------------------------------
(* The theorems.                                                            *)

\* The invariant holds of every behaviour.
THEOREM Invariance == Spec => []IInv
BY InitIInv, NextKeepsIInv, PTL DEF Spec

\* Every variable keeps its type, whatever the servers do (roadmap/engine).
THEOREM TypeCorrect == Spec => []TypeOK
<1>1. IInv => TypeOK
  BY DEF IInv
<1> QED BY <1>1, Invariance, PTL

\* However many servers save stale memories, crash in a save or fail to save, no
\* write that was reported saved is ever missing from the file, unless a newer
\* one of the same record is there, or a save that could not read the file wrote over
\* it since (merge_roadmaps).
THEOREM NothingAckedIsErased == Spec => []AckedWritesSurvive
<1>1. IInv => AckedWritesSurvive
  BY DEF IInv, AckedInv, AckedWritesSurvive
<1> QED BY <1>1, Invariance, PTL

\* Once a saved write says we minted a container, no save that reads the file forgets it
\* (merge_roadmaps, created_by_us).
THEOREM MintingIsSticky == Spec => []MintingIsRemembered
<1>1. IInv => MintingIsRemembered
  BY DEF IInv, AckedInv, MintingIsRemembered
<1> QED BY <1>1, Invariance, PTL

\* Tool calls and restarts change memory; the rename alone changes the file.
LEMMA OnlyRenameWritesTheFile ==
  ASSUME Next
  PROVE  disk' = disk \/ \E p \in Proc : RenameAndUnlock(p)
<1>1. ASSUME NEW p \in Proc, NEW m2, NEW rest, Write(p, m2, rest)
      PROVE  disk' = disk
  BY <1>1 DEF Write, Store!Mutate
<1>2. ASSUME NEW p \in Proc, NEW m2, NEW rest, Call(p, m2, rest)
      PROVE  disk' = disk
  BY <1>1, <1>2 DEF Call
<1>3. ASSUME NEW p \in Proc, NEW c \in ChunkId, OfChunk(p, c)
      PROVE  disk' = disk
  BY <1>2, <1>3 DEF OfChunk, AddChunk, SetStatus, UpdateChunk, CompleteChunk, LinkChunk,
                    RecordTrackerLink, RecordTrackerHash, SetTrackerOptIn
<1>4. ASSUME NEW p \in Proc,
             \/ \E k \in Container, minted \in BOOLEAN : RecordContainerLink(p, k, minted)
             \/ \E l \in Lane : FocusSet(p, l) \/ FocusClear(p, l)
             \/ \E e \in wire : Reconcile(p, e)
      PROVE  disk' = disk
  BY <1>2, <1>4 DEF RecordContainerLink, FocusSet, FocusClear, Reconcile
<1>5. ASSUME NEW p \in Proc, Continue(p)
      PROVE  disk' = disk
  BY <1>1, <1>5 DEF Continue, Emit, TouchForLink, PushProof, InheritOptIn, AdoptSidecar, Skip
<1>6. ASSUME NEW p \in Proc,
             LockAndRead(p) \/ ReadFails(p) \/ SaveFails(p) \/ Boot(p) \/ Crash(p)
      PROVE  disk' = disk
  BY <1>6 DEF LockAndRead, Store!LockAndRead, ReadFails, Store!ReadFails, SaveFails, Store!SaveFails, Boot, Store!Boot,
              Crash, Store!Crash
<1> QED BY <1>3, <1>4, <1>5, <1>6 DEF Next

\* No step replaces a record on file by an older one or removes the file, unless the
\* save could not read it: what was read under the lock is still the file when the
\* rename comes.
THEOREM FileOnlyAdvances == Spec => FileNeverRegresses
<1> DEFINE Advance ==
      disk # NoFile =>
        \/ disk' # NoFile /\ \A s \in Slot : disk'[s].stamp >= disk[s].stamp
        \/ Store!Overwrites
<1>1. IInv /\ [Next]_vars => [Advance]_vars
  <2> SUFFICES ASSUME IInv, Next, disk # NoFile, ~Store!Overwrites
               PROVE  disk' # NoFile /\ \A s \in Slot : disk'[s].stamp >= disk[s].stamp
    OBVIOUS
  <2>1. disk \in Roadmap
    BY DEF IInv, TypeOK
  <2>2. \A s \in Slot : disk[s].stamp \in Nat
    BY <2>1, FitsIsEntry DEF Roadmap
  <2>3. CASE disk' = disk
    BY <2>2, <2>3
  <2>4. ASSUME NEW p \in Proc, RenameAndUnlock(p)
        PROVE  disk' # NoFile /\ \A s \in Slot : disk'[s].stamp >= disk[s].stamp
    <3>1. ~Store!Unread(p)
      BY <2>4 DEF RenameAndUnlock, Store!Overwrites
    <3>2. mem[p] \in Roadmap /\ read[p] = disk
      BY <2>4, <3>1
      DEF IInv, TypeOK, LockInv, RenameAndUnlock, Store!RenameAndUnlock, Store!Unread
    <3>3. disk' = MergeRoadmaps(mem[p], disk)
      BY <2>4, <3>2 DEF RenameAndUnlock, Store!RenameAndUnlock, Store!Saved
    <3> QED BY <2>1, <3>2, <3>3, MergeKeepsBoth, RoadmapAssumption
  <2>5. disk' = disk \/ \E p \in Proc : RenameAndUnlock(p)
    BY OnlyRenameWritesTheFile
  <2> QED BY <2>3, <2>4, <2>5
<1> QED BY <1>1, Invariance, PTL DEF Spec, FileNeverRegresses


-----------------------------------------------------------------------------
(* Versions: what has one stamp is one version.                             *)

\* The copies of a record on the wire, and anywhere.
OnWire(s) == {e[s[1]] : e \in {x \in wire : s \in ChunkSlots(x.id)}}
Copies(s) ==
  {mem[p][s] : p \in Proc} \cup (IF disk = NoFile THEN {} ELSE {disk[s]}) \cup OnWire(s)

\* Nothing is stamped later than the clock, so what is written now is newest.
ClockInv == \A s \in Slot : \A e \in Copies(s) : e.stamp <= clock

\* What StampsIdentifyVersions says, of copies.
VersionInv ==
  \A s \in Slot \ ContainerSlot : \A e, f \in Copies(s) : e.stamp = f.stamp => e = f

\* The sidecars that are still to be adopted were pulled from the wire.
AdoptInv ==
  \A p \in Proc : \A k \in DOMAIN job[p] : job[p][k][1] = "adopt" => job[p][k][2] \in wire

\* A server that is down knows nothing.
DownInv == \A p \in Proc : pc[p] = "down" => mem[p] = Empty

VInv == ClockInv /\ VersionInv /\ AdoptInv /\ DownInv

\* Every record of m2 is m's or stamped now.
StampsNow(m, m2) == \A s \in Slot : m2[s] = m[s] \/ m2[s].stamp = Now

\* A write of p: each record stays, is stamped now, is a newer one from the wire, or
\* is a focus that is released.
WriteStep(p) ==
  /\ pc[p] = "idle" /\ pc' = [pc EXCEPT ![p] = "saving"]
  /\ clock' = Now /\ UNCHANGED <<read, disk, wire, acked>>
  /\ \A q \in Proc : q # p => mem'[q] = mem[q] /\ job'[q] = job[q]
  /\ \A s \in Slot :
       \/ mem'[p][s] = mem[p][s]
       \/ mem'[p][s].stamp = Now
       \/ mem'[p][s] = Absent /\ s[1] = "focus"
       \/ mem'[p][s] \in OnWire(s) /\ mem'[p][s].stamp > mem[p][s].stamp
  /\ \A k \in DOMAIN job'[p] : job'[p][k][1] = "adopt" => job'[p][k][2] \in wire

\* The slots of a chunk, and what an envelope carries for them.
LEMMA WhatTravels ==
  ASSUME NEW m \in Roadmap, NEW c \in ChunkId
  PROVE  /\ \A s \in ChunkSlots(c) : s \in Slot /\ s \notin ContainerSlot /\ s[1] # "focus"
         /\ \A d \in ChunkId : \A s \in ChunkSlots(c) : s \in ChunkSlots(d) => d = c
         /\ \A s \in ChunkSlots(c) : EnvelopeOf(m, c)[s[1]] = m[s]
<1>1. \A s \in ChunkSlots(c) : s \in Slot /\ s \notin ContainerSlot /\ s[1] # "focus"
  <2>1. \A s \in ContainerSlot : s[1] = "container"
    BY DEF ContainerSlot, Bound
  <2>2. \A s \in ChunkSlots(c) : s \in Slot
    BY SlotsAreKeys DEF ChunkSlots
  <2>3. \A s \in ChunkSlots(c) : s[1] \in {"chunk", "link", "optIn"}
    BY DEF ChunkSlots, Chunk, Link, OptIn
  <2> QED BY <2>1, <2>2, <2>3
<1>2. \A d \in ChunkId : \A s \in ChunkSlots(c) : s \in ChunkSlots(d) => d = c
  BY DEF ChunkSlots, Chunk, Link, OptIn
<1>3. /\ EnvelopeOf(m, c)["chunk"] = m[Chunk(c)]
      /\ EnvelopeOf(m, c)["link"] = m[Link(c)]
      /\ EnvelopeOf(m, c)["optIn"] = m[OptIn(c)]
  BY DEF EnvelopeOf
<1>4. Chunk(c)[1] = "chunk" /\ Link(c)[1] = "link" /\ OptIn(c)[1] = "optIn"
  BY DEF Chunk, Link, OptIn
<1> QED BY <1>1, <1>2, <1>3, <1>4 DEF ChunkSlots

\* What an envelope on the wire carries.
LEMMA CarriedIsOnWire ==
  ASSUME NEW e \in wire
  PROVE  e.chunk \in OnWire(Chunk(e.id)) /\ e.link \in OnWire(Link(e.id))
         /\ e.optIn \in OnWire(OptIn(e.id))
<1>1. /\ Chunk(e.id) \in ChunkSlots(e.id) /\ Link(e.id) \in ChunkSlots(e.id)
      /\ OptIn(e.id) \in ChunkSlots(e.id)
  BY DEF ChunkSlots
<1>2. /\ e[Chunk(e.id)[1]] \in OnWire(Chunk(e.id))
      /\ e[Link(e.id)[1]] \in OnWire(Link(e.id))
      /\ e[OptIn(e.id)[1]] \in OnWire(OptIn(e.id))
  BY <1>1 DEF OnWire
<1>3. e.chunk = e["chunk"] /\ e.link = e["link"] /\ e.optIn = e["optIn"]
  OBVIOUS
<1> QED BY <1>2, <1>3 DEF Chunk, Link, OptIn

-----------------------------------------------------------------------------
(* Every write is such a step.                                              *)

LEMMA StampedEdit ==
  ASSUME NEW m, NEW m1 \in Roadmap, StampsNow(m, m1), NEW s \in Slot, NEW e, e.stamp = Now
  PROVE  StampsNow(m, [m1 EXCEPT ![s] = e])
BY DEF StampsNow, Roadmap

LEMMA StampedEdits ==
  ASSUME IInv, NEW m \in Roadmap, NEW m1 \in Roadmap, StampsNow(m, m1), NEW c \in ChunkId,
         m1[Chunk(c)] # Absent
  PROVE  /\ StampsNow(m, Touched(m1, c))
         /\ \A ref \in {"twin", "proof"} : StampsNow(m, WithRef(m1, c, ref))
         /\ \A enabled, asked \in BOOLEAN : StampsNow(m, WithOptIn(m1, c, enabled, asked))
         /\ \A to \in ChunkStatus :
              StampsNow(m, [Touched(m1, c) EXCEPT ![Chunk(c)].status = to])
<1>1. m1[Chunk(c)] \in ChunkEntry /\ clock \in Nat /\ Chunk(c) \in Slot /\ OptIn(c) \in Slot
  BY PresentChunk, SlotsAreKeys DEF IInv, TypeOK
<1>2. StampsNow(m, Touched(m1, c))
  <2> DEFINE e == [m1[Chunk(c)] EXCEPT !.stamp = Now]
  <2>1. e.stamp = Now
    BY <1>1 DEF ChunkEntry
  <2>2. Touched(m1, c) = [m1 EXCEPT ![Chunk(c)] = e]
    BY DEF Touched
  <2>3. StampsNow(m, [m1 EXCEPT ![Chunk(c)] = e])
    BY <1>1, <2>1, StampedEdit
  <2> QED BY <2>2, <2>3
<1>3. Touched(m1, c) \in Roadmap /\ Touched(m1, c)[Chunk(c)] # Absent
  BY <1>1, TouchedKeeps DEF Keeps
<1>4. ASSUME NEW ref \in {"twin", "proof"}
      PROVE  StampsNow(m, WithRef(m1, c, ref))
  <2> DEFINE e1 == [m1[Chunk(c)] EXCEPT !.refs = @ \cup {ref}]
             e2 == [e1 EXCEPT !.stamp = Now]
             m2 == [m1 EXCEPT ![Chunk(c)] = e1]
  <2>1. e1 \in ChunkEntry
    BY <1>1 DEF ChunkEntry
  <2>2. e2.stamp = Now
    BY <2>1 DEF ChunkEntry
  <2>3. m2[Chunk(c)] = e1 /\ \A s \in Slot : s # Chunk(c) => m2[s] = m1[s]
    BY <1>1 DEF Roadmap
  <2>4. WithRef(m1, c, ref) = [m2 EXCEPT ![Chunk(c)] = e2]
    BY <2>3 DEF WithRef
  <2>5. [m2 EXCEPT ![Chunk(c)] = e2] = [m1 EXCEPT ![Chunk(c)] = e2]
    BY DEF Roadmap
  <2> HIDE DEF e2, m2
  <2> QED BY <1>1, <2>2, <2>4, <2>5, StampedEdit
<1>5. ASSUME NEW enabled \in BOOLEAN, NEW asked \in BOOLEAN
      PROVE  StampsNow(m, WithOptIn(m1, c, enabled, asked))
  BY <1>1, <1>2, <1>3, StampedEdit DEF WithOptIn
<1>6. ASSUME NEW to \in ChunkStatus
      PROVE  StampsNow(m, [Touched(m1, c) EXCEPT ![Chunk(c)].status = to])
  <2> DEFINE t == Touched(m1, c)
             e == [t[Chunk(c)] EXCEPT !.status = to]
  <2>1. t[Chunk(c)] \in ChunkEntry /\ t[Chunk(c)].stamp = Now
    <3>1. t[Chunk(c)] = [m1[Chunk(c)] EXCEPT !.stamp = Now]
      BY <1>1 DEF Touched, Roadmap
    <3> QED BY <1>1, <1>3, <3>1, PresentChunk DEF ChunkEntry
  <2>2. e.stamp = Now
    BY <2>1 DEF ChunkEntry
  <2>3. StampsNow(m, [t EXCEPT ![Chunk(c)] = e])
    BY <1>1, <1>2, <1>3, <2>2, StampedEdit
  <2> QED BY <2>3
<1> QED BY <1>2, <1>4, <1>5, <1>6

\* A write that stamps what it changes.
LEMMA StampedWrite ==
  ASSUME IInv, NEW p \in Proc, NEW m2, StampsNow(mem[p], m2), NEW rest, Write(p, m2, rest),
         \A k \in DOMAIN rest : rest[k][1] = "adopt" => rest[k][2] \in wire
  PROVE  WriteStep(p)
<1>1. /\ mem' = [mem EXCEPT ![p] = m2] /\ job' = [job EXCEPT ![p] = rest]
      /\ pc[p] = "idle" /\ pc' = [pc EXCEPT ![p] = "saving"]
      /\ clock' = Now /\ UNCHANGED <<read, disk, wire, acked>>
  BY DEF Write, Store!Mutate, Tick
<1>2. mem'[p] = m2 /\ job'[p] = rest
  BY <1>1 DEF IInv, TypeOK
<1> QED BY <1>1, <1>2 DEF WriteStep, StampsNow, IInv, TypeOK

LEMMA OfChunkIsWriteStep ==
  ASSUME IInv, NEW p \in Proc, NEW c \in ChunkId, OfChunk(p, c)
  PROVE  WriteStep(p)
<1> DEFINE m == mem[p]
<1>1. m \in Roadmap /\ clock \in Nat /\ Chunk(c) \in Slot /\ Link(c) \in Slot
  BY SlotsAreKeys DEF IInv, TypeOK
<1>2. ASSUME NEW m2, StampsNow(m, m2), NEW rest,
             \A k \in DOMAIN rest : rest[k][1] # "adopt", Call(p, m2, rest)
      PROVE  WriteStep(p)
  BY <1>2, StampedWrite DEF Call
<1>3. /\ \A k \in DOMAIN <<<<"emit", c>>>> : <<<<"emit", c>>>>[k][1] # "adopt"
      /\ \A k \in DOMAIN <<<<"touch", c>>, <<"emit", c>>>> :
           <<<<"touch", c>>, <<"emit", c>>>>[k][1] # "adopt"
      /\ \A a \in {"optIn", "proof"} :
           \A k \in DOMAIN <<<<"emit", c>>, <<a, c>>, <<"emit", c>>>> :
             <<<<"emit", c>>, <<a, c>>, <<"emit", c>>>>[k][1] # "adopt"
  OBVIOUS
<1>4. StampsNow(m, m)
  BY DEF StampsNow
<1>5. ASSUME NEW status \in Status, AddChunk(p, c, status)
      PROVE  WriteStep(p)
  <2> DEFINE m2 == [m EXCEPT ![Chunk(c)] = [stamp |-> Now, status |-> status,
                                            refs |-> {}, born |-> Now]]
  <2>1. StampsNow(m, m2)
    BY <1>1, <1>4, StampedEdit
  <2> HIDE DEF m2
  <2>2. \/ Call(p, m2, <<<<"emit", c>>, <<"optIn", c>>, <<"emit", c>>>>)
        \/ Call(p, m2, <<<<"emit", c>>>>)
    BY <1>5 DEF AddChunk, m2
  <2> QED BY <1>2, <1>3, <2>1, <2>2
<1>6. ASSUME NEW to \in Status, SetStatus(p, c, to)
      PROVE  WriteStep(p)
  <2>1. StampsNow(m, [Touched(m, c) EXCEPT ![Chunk(c)].status = to])
    BY <1>1, <1>4, <1>6, StampedEdits, RoadmapAssumption DEF SetStatus, Has
  <2> QED BY <1>2, <1>3, <1>6, <2>1 DEF SetStatus
<1>7. ASSUME UpdateChunk(p, c)
      PROVE  WriteStep(p)
  <2>1. StampsNow(m, Touched(m, c))
    BY <1>1, <1>4, <1>7, StampedEdits DEF UpdateChunk, Has
  <2> QED BY <1>2, <1>3, <1>7, <2>1 DEF UpdateChunk
<1>8. ASSUME CompleteChunk(p, c)
      PROVE  WriteStep(p)
  <2>1. "done" \in ChunkStatus
    BY DEF ChunkStatus
  <2>2. StampsNow(m, [Touched(m, c) EXCEPT ![Chunk(c)].status = "done"])
    BY <1>1, <1>4, <1>8, <2>1, StampedEdits DEF CompleteChunk, Has
  <2> QED BY <1>2, <1>3, <1>8, <2>2 DEF CompleteChunk
<1>9. ASSUME LinkChunk(p, c)
      PROVE  WriteStep(p)
  <2>1. StampsNow(m, WithRef(m, c, "proof"))
    BY <1>1, <1>4, <1>9, StampedEdits DEF LinkChunk, Has
  <2> QED BY <1>2, <1>3, <1>9, <2>1 DEF LinkChunk
<1>10. ASSUME RecordTrackerLink(p, c)
       PROVE  WriteStep(p)
  <2> DEFINE linked == [m EXCEPT ![Link(c)] = [stamp |-> Now]]
  <2>1. Fits(Link(c), [stamp |-> Now]) /\ Link(c)[1] # "chunk"
    BY <1>1, NowIsStamp DEF Fits, Link, PlainEntry
  <2>2. linked \in Roadmap /\ linked[Chunk(c)] # Absent
    BY <1>1, <1>10, <2>1, EditKeeps DEF RecordTrackerLink, Has, Keeps
  <2>3. StampsNow(m, linked)
    BY <1>1, <1>4, StampedEdit
  <2> HIDE DEF linked
  <2>4. StampsNow(m, Touched(linked, c)) /\ StampsNow(m, WithRef(linked, c, "twin"))
    BY <1>1, <2>2, <2>3, StampedEdits
  <2>5. \/ Call(p, Touched(linked, c), <<<<"emit", c>>>>)
        \/ Call(p, WithRef(linked, c, "twin"), <<<<"touch", c>>, <<"emit", c>>>>)
    BY <1>10 DEF RecordTrackerLink, linked
  <2> QED BY <1>2, <1>3, <2>4, <2>5
<1>11. ASSUME RecordTrackerHash(p, c)
       PROVE  WriteStep(p)
  <2> DEFINE e == [m[Link(c)] EXCEPT !.stamp = Now]
             linked == [m EXCEPT ![Link(c)] = e]
  <2>1. m[Link(c)] \in PlainEntry /\ Link(c)[1] = "link"
    BY <1>1, <1>11 DEF RecordTrackerHash, Roadmap, Fits, Link
  <2>2. Fits(Link(c), e) /\ e.stamp = Now
    BY <1>1, <2>1, NowIsStamp DEF Fits, PlainEntry
  <2>3. linked \in Roadmap /\ linked[Chunk(c)] # Absent
    BY <1>1, <1>11, <2>1, <2>2, EditKeeps DEF RecordTrackerHash, Has, Keeps
  <2>4. StampsNow(m, linked)
    BY <1>1, <1>4, <2>2, StampedEdit
  <2>5. Call(p, Touched(linked, c), <<<<"emit", c>>>>)
    BY <1>11 DEF RecordTrackerHash
  <2> HIDE DEF linked
  <2>6. StampsNow(m, Touched(linked, c))
    BY <1>1, <2>3, <2>4, StampedEdits
  <2> QED BY <1>2, <1>3, <2>5, <2>6
<1>12. ASSUME NEW enabled \in BOOLEAN, SetTrackerOptIn(p, c, enabled)
       PROVE  WriteStep(p)
  <2>1. StampsNow(m, WithOptIn(m, c, enabled, TRUE))
    BY <1>1, <1>4, <1>12, StampedEdits DEF SetTrackerOptIn, Has
  <2> QED BY <1>2, <1>3, <1>12, <2>1 DEF SetTrackerOptIn
<1> QED
  BY <1>5, <1>6, <1>7, <1>8, <1>9, <1>10, <1>11, <1>12 DEF OfChunk

\* What adopting a sidecar changes.
LEMMA AdoptedIsNewer ==
  ASSUME NEW m \in Roadmap, NEW e \in wire, e \in Envelope
  PROVE  \A s \in Slot : \/ Adopted(m, e)[s] = m[s]
                         \/ Adopted(m, e)[s] \in OnWire(s) /\ Adopted(m, e)[s].stamp > m[s].stamp
<1> DEFINE link == Newer(m[Link(e.id)], e.link)
           optIn == Newer(m[OptIn(e.id)], e.optIn)
           m1 == [m EXCEPT ![Link(e.id)] = link]
<1>1. /\ Link(e.id) \in Slot /\ OptIn(e.id) \in Slot /\ Link(e.id) # OptIn(e.id)
  BY SlotsAreKeys DEF Link, OptIn, Envelope
<1>2. m1[OptIn(e.id)] = m[OptIn(e.id)]
  BY <1>1 DEF Roadmap
<1>3. Adopted(m, e) = [m1 EXCEPT ![OptIn(e.id)] = optIn]
  BY <1>2 DEF Adopted
<1>4. \A s \in Slot : Adopted(m, e)[s] = IF s = OptIn(e.id) THEN optIn
                                         ELSE IF s = Link(e.id) THEN link ELSE m[s]
  BY <1>1, <1>3 DEF Roadmap
<1>5. link = m[Link(e.id)] \/ (link = e.link /\ link.stamp > m[Link(e.id)].stamp)
  BY DEF Newer
<1>6. optIn = m[OptIn(e.id)] \/ (optIn = e.optIn /\ optIn.stamp > m[OptIn(e.id)].stamp)
  BY DEF Newer
<1> HIDE DEF link, optIn, m1
<1> QED BY <1>4, <1>5, <1>6, CarriedIsOnWire

\* Any write that replaces records by their kind of change is such a step.
LEMMA WriteIsWriteStep ==
  ASSUME IInv, NEW p \in Proc, NEW m2, NEW rest, Write(p, m2, rest),
         \A s \in Slot : \/ m2[s] = mem[p][s]
                         \/ m2[s].stamp = Now
                         \/ m2[s] = Absent /\ s[1] = "focus"
                         \/ m2[s] \in OnWire(s) /\ m2[s].stamp > mem[p][s].stamp,
         \A k \in DOMAIN rest : rest[k][1] = "adopt" => rest[k][2] \in wire
  PROVE  WriteStep(p)
<1>1. /\ mem' = [mem EXCEPT ![p] = m2] /\ job' = [job EXCEPT ![p] = rest]
      /\ pc[p] = "idle" /\ pc' = [pc EXCEPT ![p] = "saving"]
      /\ clock' = Now /\ UNCHANGED <<read, disk, wire, acked>>
  BY DEF Write, Store!Mutate, Tick
<1>2. mem'[p] = m2 /\ job'[p] = rest
  BY <1>1 DEF IInv, TypeOK
<1> QED BY <1>1, <1>2 DEF WriteStep, IInv, TypeOK

LEMMA OtherCallsAreWriteSteps ==
  ASSUME IInv, NEW p \in Proc,
         \/ \E k \in Container, minted \in BOOLEAN : RecordContainerLink(p, k, minted)
         \/ \E l \in Lane : FocusSet(p, l) \/ FocusClear(p, l)
         \/ \E e \in wire : Reconcile(p, e)
  PROVE  WriteStep(p)
<1> DEFINE m == mem[p]
<1>1. m \in Roadmap /\ StampsNow(m, m)
  BY DEF IInv, TypeOK, StampsNow
<1>2. ASSUME NEW s \in Slot, NEW e, e.stamp = Now, Call(p, [m EXCEPT ![s] = e], <<>>)
      PROVE  WriteStep(p)
  BY <1>1, <1>2, StampedEdit, StampedWrite DEF Call
<1>3. ASSUME NEW k \in Container, NEW minted \in BOOLEAN, RecordContainerLink(p, k, minted)
      PROVE  WriteStep(p)
  <2> DEFINE e == [stamp |-> Now,
                   minted |-> (m[Bound(k)] # Absent /\ m[Bound(k)].minted) \/ minted]
  <2>1. e.stamp = Now /\ Bound(k) \in Slot
    BY SlotsAreKeys
  <2>2. Call(p, [m EXCEPT ![Bound(k)] = e], <<>>)
    BY <1>3 DEF RecordContainerLink
  <2> QED BY <1>2, <2>1, <2>2
<1>4. ASSUME NEW l \in Lane, FocusSet(p, l)
      PROVE  WriteStep(p)
  <2> DEFINE e == [stamp |-> Now]
  <2>1. e.stamp = Now /\ Focus(l) \in Slot
    BY SlotsAreKeys
  <2>2. Call(p, [m EXCEPT ![Focus(l)] = e], <<>>)
    BY <1>4 DEF FocusSet
  <2> QED BY <1>2, <2>1, <2>2
<1>5. ASSUME NEW l \in Lane, FocusClear(p, l)
      PROVE  WriteStep(p)
  <2> DEFINE m2 == [m EXCEPT ![Focus(l)] = Absent]
  <2>1. \A s \in Slot : m2[s] = m[s] \/ (m2[s] = Absent /\ s[1] = "focus")
    BY <1>1 DEF Roadmap, Focus
  <2>2. Write(p, m2, <<>>)
    BY <1>5 DEF FocusClear, Call
  <2> HIDE DEF m2
  <2> QED BY <2>1, <2>2, WriteIsWriteStep
<1>6. ASSUME NEW e \in wire, Reconcile(p, e)
      PROVE  WriteStep(p)
  <2>1. e \in Envelope
    BY DEF IInv, TypeOK
  <2>2. CASE e.chunk.stamp > m[Chunk(e.id)].stamp
    <3> DEFINE m2 == [m EXCEPT ![Chunk(e.id)] = e.chunk]
    <3>1. Write(p, m2, <<<<"adopt", e>>>>)
      BY <1>6, <2>2 DEF Reconcile, Call
    <3>2. \A s \in Slot : m2[s] = m[s] \/ (s = Chunk(e.id) /\ m2[s] = e.chunk)
      BY <1>1 DEF Roadmap
    <3>3. \A k \in DOMAIN <<<<"adopt", e>>>> : <<<<"adopt", e>>>>[k][2] \in wire
      OBVIOUS
    <3> HIDE DEF m2
    <3> QED BY <2>2, <3>1, <3>2, <3>3, WriteIsWriteStep, CarriedIsOnWire
  <2>3. CASE ~(e.chunk.stamp > m[Chunk(e.id)].stamp)
    <3>1. Write(p, Adopted(m, e), <<>>)
      BY <1>6, <2>3 DEF Reconcile, Call
    <3> QED BY <1>1, <2>1, <3>1, AdoptedIsNewer, WriteIsWriteStep
  <2> QED BY <2>2, <2>3
<1> QED BY <1>3, <1>4, <1>5, <1>6

\* What a call does after its first save writes, pushes a chunk or has nothing to do.
Sends(p) ==
  /\ \E c \in ChunkId : wire' \in {wire, wire \cup {EnvelopeOf(mem[p], c)}}
  /\ job[p] # <<>> /\ job' = [job EXCEPT ![p] = Tail(job[p])]
  /\ UNCHANGED <<mem, pc, read, disk, clock, acked>>

LEMMA ContinueIsWriteStepOrSends ==
  ASSUME IInv, VInv, NEW p \in Proc, Continue(p)
  PROVE  WriteStep(p) \/ Sends(p)
<1> DEFINE m == mem[p]
           rest == job[p]
           c == Subject(p)
<1>1. /\ m \in Roadmap /\ clock \in Nat /\ rest \in Seq(Step) /\ Grounded(m, rest)
      /\ StampsNow(m, m)
  BY DEF IInv, TypeOK, JobInv, StampsNow
<1>2. ASSUME NEW kind, Due(p, kind)
      PROVE  /\ rest # <<>>
             /\ kind # "adopt" => c \in ChunkId /\ m[Chunk(c)] # Absent
             /\ kind = "adopt" => c \in wire /\ c \in Envelope /\ c.id \in ChunkId
             /\ \A k \in DOMAIN Tail(rest) :
                  Tail(rest)[k][1] = "adopt" => Tail(rest)[k][2] \in wire
  <2>1. rest # <<>> /\ Head(rest)[1] = kind
    BY <1>2 DEF Due
  <2>2. 1 \in DOMAIN rest /\ Head(rest) = rest[1] /\ rest[1] \in Step
    BY <1>1, <2>1
  <2>3. kind # "adopt" => c \in ChunkId
    BY <2>1, <2>2 DEF Step, Subject
  <2>4. kind # "adopt" => m[Chunk(c)] # Absent
    BY <1>1, <2>1, <2>2 DEF Grounded, Subject
  <2>5. kind = "adopt" => c \in wire
    BY <2>1, <2>2 DEF Subject, VInv, AdoptInv
  <2>6. c \in wire => c \in Envelope /\ c.id \in ChunkId
    BY DEF IInv, TypeOK, Envelope
  <2>7. \A k \in DOMAIN Tail(rest) : k + 1 \in DOMAIN rest /\ Tail(rest)[k] = rest[k + 1]
    BY <1>1, <2>1
  <2> QED BY <2>1, <2>3, <2>4, <2>5, <2>6, <2>7 DEF VInv, AdoptInv
<1>3. ASSUME NEW kind, Due(p, kind), NEW d \in ChunkId, Skip(p)
      PROVE  Sends(p)
  BY <1>2, <1>3 DEF Skip, Sends
<1>4. CASE Emit(p)
  <2>1. Due(p, "emit")
    BY <1>4 DEF Emit
  <2>2. c \in ChunkId /\ rest # <<>>
    BY <1>2, <2>1
  <2> QED BY <1>4, <2>2 DEF Emit, Sends
<1>5. CASE TouchForLink(p)
  <2>1. Due(p, "touch") /\ Write(p, Touched(m, c), Tail(rest))
    BY <1>5 DEF TouchForLink
  <2>2. StampsNow(m, Touched(m, c))
    BY <1>1, <1>2, <2>1, StampedEdits
  <2> QED BY <1>2, <2>1, <2>2, StampedWrite
<1>6. CASE PushProof(p)
  <2>1. Due(p, "proof")
    BY <1>6 DEF PushProof
  <2>2. c \in ChunkId /\ StampsNow(m, WithRef(m, c, "proof"))
    BY <1>1, <1>2, <2>1, StampedEdits
  <2>3. CASE Skip(p)
    BY <1>3, <2>1, <2>2, <2>3
  <2>4. CASE Write(p, WithRef(m, c, "proof"), Tail(rest))
    BY <1>2, <2>1, <2>2, <2>4, StampedWrite
  <2> QED BY <1>6, <2>3, <2>4 DEF PushProof
<1>7. CASE InheritOptIn(p)
  <2>1. Due(p, "optIn") /\ Write(p, WithOptIn(m, c, TRUE, FALSE), Tail(rest))
    BY <1>7 DEF InheritOptIn
  <2>2. c \in ChunkId /\ m[Chunk(c)] # Absent
    BY <1>2, <2>1
  <2>3. StampsNow(m, WithOptIn(m, c, TRUE, FALSE))
    BY <1>1, <2>2, StampedEdits
  <2> QED BY <1>2, <2>1, <2>3, StampedWrite
<1>8. CASE AdoptSidecar(p)
  <2>1. Due(p, "adopt")
    BY <1>8 DEF AdoptSidecar
  <2>2. c \in wire /\ c \in Envelope /\ c.id \in ChunkId
    BY <1>2, <2>1
  <2>3. CASE Skip(p)
    BY <1>3, <2>1, <2>2, <2>3
  <2>4. CASE Write(p, Adopted(m, c), Tail(rest))
    BY <1>1, <1>2, <2>1, <2>2, <2>4, AdoptedIsNewer, WriteIsWriteStep
  <2> QED BY <1>8, <2>3, <2>4 DEF AdoptSidecar
<1> QED BY <1>4, <1>5, <1>6, <1>7, <1>8 DEF Continue

\* A step writes, sends, or is one of a save, a boot or a crash.
LEMMA NextIsOneOf ==
  ASSUME IInv, VInv, Next
  PROVE  \E p \in Proc : \/ WriteStep(p) \/ Sends(p) \/ RenameAndUnlock(p)
                         \/ LockAndRead(p) \/ ReadFails(p) \/ SaveFails(p) \/ Boot(p) \/ Crash(p)
BY OfChunkIsWriteStep, OtherCallsAreWriteSteps, ContinueIsWriteStepOrSends DEF Next

-----------------------------------------------------------------------------
(* The versions' invariant.                                                 *)

LEMMA InitVInv == Init => VInv
<1> SUFFICES ASSUME Init PROVE VInv
  OBVIOUS
<1>1. \A s \in Slot : \A e \in Copies(s) : e = Absent
  BY DEF Init, Copies, OnWire, Empty
<1> QED BY <1>1 DEF Init, VInv, ClockInv, VersionInv, AdoptInv, DownInv, Absent

\* Copies are stamped, and only those of nothing with 0.
LEMMA CopiesFit ==
  ASSUME IInv, NEW s \in Slot, NEW e \in Copies(s)
  PROVE  Fits(s, e) /\ e.stamp \in Nat /\ (e # Absent => e.stamp > 0)
<1>1. ASSUME NEW x \in wire, s \in ChunkSlots(x.id) PROVE Fits(s, x[s[1]])
  <2>1. x \in Envelope
    BY DEF IInv, TypeOK
  <2>2. /\ x["chunk"] \in ChunkEntry \cup {Absent} /\ x["link"] \in PlainEntry \cup {Absent}
        /\ x["optIn"] \in OptInEntry \cup {Absent}
    BY <2>1 DEF Envelope
  <2>3. s[1] \in {"chunk", "link", "optIn"}
    BY <1>1 DEF ChunkSlots, Chunk, Link, OptIn
  <2> QED BY <2>2, <2>3 DEF Fits
<1>2. Fits(s, e)
  BY <1>1 DEF Copies, OnWire, IInv, TypeOK, Roadmap
<1> QED BY <1>2, FitsIsEntry

\* A step after which every copy is an old one, nothing, or one written now by
\* process p, keeps stamps identifying versions.
LEMMA OldOrNowKeepsVersions ==
  ASSUME IInv, VInv, IInv', clock' \in {clock, Now}, NEW p \in Proc,
         \A s \in Slot : \A e \in Copies(s)' :
           \/ e \in Copies(s) \/ e = Absent
           \/ e = mem'[p][s] /\ e.stamp = Now /\ clock' = Now
           \/ s \in ContainerSlot /\ \E f \in Copies(s) : e.stamp = f.stamp
  PROVE  ClockInv' /\ VersionInv'
<1>1. clock \in Nat /\ clock' \in Nat /\ Now = clock + 1
  BY DEF IInv, TypeOK, Now
<1>2. ASSUME NEW s \in Slot, NEW e \in Copies(s)
      PROVE  e.stamp \in Nat /\ e.stamp <= clock /\ (e # Absent => e.stamp > 0)
  BY <1>2, CopiesFit DEF VInv, ClockInv
<1>3. ClockInv'
  BY <1>1, <1>2 DEF ClockInv, Absent
<1>4. ASSUME NEW s \in Slot \ ContainerSlot, NEW e \in Copies(s)', NEW f \in Copies(s)',
             e.stamp = f.stamp
      PROVE  e = f
  <2>1. /\ e \in Copies(s) \/ e = Absent \/ (e = mem'[p][s] /\ e.stamp = Now)
        /\ f \in Copies(s) \/ f = Absent \/ (f = mem'[p][s] /\ f.stamp = Now)
    OBVIOUS
  <2>2. e \in Copies(s) /\ f \in Copies(s) => e = f
    BY <1>4 DEF VInv, VersionInv
  <2> QED BY <1>1, <1>2, <1>4, <2>1, <2>2 DEF Absent
<1>5. VersionInv'
  BY <1>4 DEF VersionInv
<1> QED BY <1>3, <1>5

LEMMA WriteStepKeepsVInv ==
  ASSUME IInv, VInv, IInv', NEW p \in Proc, WriteStep(p)
  PROVE  VInv'
<1>1. ASSUME NEW s \in Slot, NEW e \in Copies(s)'
      PROVE  \/ e \in Copies(s) \/ e = Absent
             \/ e = mem'[p][s] /\ e.stamp = Now /\ clock' = Now
  <2>1. OnWire(s)' = OnWire(s) /\ disk' = disk
    BY DEF WriteStep, OnWire
  <2>2. e = mem'[p][s] \/ e \in Copies(s)
    BY <2>1 DEF Copies, WriteStep
  <2>3. e = mem'[p][s] => \/ e = mem[p][s] \/ e.stamp = Now \/ e = Absent \/ e \in OnWire(s)
    BY DEF WriteStep
  <2>4. mem[p][s] \in Copies(s) /\ clock' = Now
    BY DEF Copies, WriteStep
  <2> QED BY <2>2, <2>3, <2>4 DEF Copies
<1>2. ClockInv' /\ VersionInv'
  BY <1>1, OldOrNowKeepsVersions DEF WriteStep
<1>3. AdoptInv' /\ DownInv'
  BY DEF WriteStep, VInv, AdoptInv, DownInv, IInv, TypeOK
<1> QED BY <1>2, <1>3 DEF VInv

LEMMA SendsKeepsVInv ==
  ASSUME IInv, VInv, IInv', NEW p \in Proc, Sends(p)
  PROVE  VInv'
<1> PICK c \in ChunkId : wire' \in {wire, wire \cup {EnvelopeOf(mem[p], c)}}
  BY DEF Sends
<1>1. ASSUME NEW s \in Slot, NEW e \in Copies(s)'
      PROVE  e \in Copies(s)
  <2>1. e \in OnWire(s)' \/ e \in Copies(s)
    BY DEF Copies, Sends
  <2>2. ASSUME e \in OnWire(s)' PROVE e \in Copies(s)
    <3>1. PICK x \in wire' : s \in ChunkSlots(x.id) /\ e = x[s[1]]
      BY <2>2 DEF OnWire
    <3>2. CASE x \in wire
      BY <3>1, <3>2 DEF Copies, OnWire
    <3>3. CASE x = EnvelopeOf(mem[p], c)
      <4>1. x.id = c /\ mem[p] \in Roadmap
        BY <3>3 DEF EnvelopeOf, IInv, TypeOK
      <4>2. e = mem[p][s]
        BY <3>1, <3>3, <4>1, WhatTravels
      <4> QED BY <4>2 DEF Copies
    <3> QED BY <3>1, <3>2, <3>3
  <2> QED BY <2>1, <2>2
<1>2. ClockInv' /\ VersionInv'
  BY <1>1, OldOrNowKeepsVersions DEF Sends
<1>3. AdoptInv'
  <2>1. job[p] \in Seq(Step) /\ job[p] # <<>> /\ job' = [job EXCEPT ![p] = Tail(job[p])]
    BY DEF Sends, IInv, TypeOK
  <2>2. \A k \in DOMAIN Tail(job[p]) : k + 1 \in DOMAIN job[p] /\ Tail(job[p])[k] = job[p][k + 1]
    BY <2>1
  <2>3. wire \subseteq wire'
    OBVIOUS
  <2> QED BY <2>1, <2>2, <2>3 DEF VInv, AdoptInv, IInv, TypeOK
<1>4. DownInv'
  BY DEF Sends, VInv, DownInv
<1> QED BY <1>2, <1>3, <1>4 DEF VInv

\* A merge takes each record from memory or the file.
LEMMA MergeTakesCopies ==
  ASSUME NEW m \in Roadmap, NEW d \in Roadmap, NEW s \in Slot
  PROVE  \/ MergeRoadmaps(m, d)[s] \in {m[s], d[s]}
         \/ s \in ContainerSlot /\ MergeRoadmaps(m, d)[s].stamp \in {m[s].stamp, d[s].stamp}
BY DEF MergeRoadmaps, Newer

LEMMA SavesKeepVInv ==
  ASSUME IInv, VInv, IInv', NEW p \in Proc,
         \/ RenameAndUnlock(p) \/ LockAndRead(p) \/ ReadFails(p)
         \/ SaveFails(p) \/ Boot(p) \/ Crash(p)
  PROVE  VInv'
<1>1. UNCHANGED <<wire, clock>>
  BY DEF RenameAndUnlock, LockAndRead, ReadFails, SaveFails, Boot, Crash, Quiet
<1>2. \A s \in Slot : OnWire(s)' = OnWire(s)
  BY <1>1 DEF OnWire
<1>3. ASSUME \A s \in Slot : \A e \in Copies(s)' :
               \/ e \in Copies(s) \/ e = Absent
               \/ s \in ContainerSlot /\ \E f \in Copies(s) : e.stamp = f.stamp
      PROVE  ClockInv' /\ VersionInv'
  BY <1>1, <1>3, OldOrNowKeepsVersions
<1>4. CASE RenameAndUnlock(p)
  <2>1. /\ mem' = mem /\ pc' = [pc EXCEPT ![p] = "idle"] /\ pc[p] = "locked" /\ job' = job
        /\ disk' = mem[p] \/ (disk # NoFile /\ disk' = MergeRoadmaps(mem[p], disk))
    BY <1>4 DEF RenameAndUnlock, Store!RenameAndUnlock, Store!Saved, IInv, LockInv
  <2>2. mem[p] \in Roadmap /\ disk \in Roadmap \cup {NoFile}
    BY DEF IInv, TypeOK
  <2>3. ASSUME NEW s \in Slot, NEW e \in Copies(s)'
        PROVE  \/ e \in Copies(s)
               \/ s \in ContainerSlot /\ \E f \in Copies(s) : e.stamp = f.stamp
    <3>1. e = disk'[s] \/ e \in Copies(s)
      BY <1>2, <2>1 DEF Copies
    <3>2. mem[p][s] \in Copies(s) /\ (disk # NoFile => disk[s] \in Copies(s))
      BY DEF Copies
    <3>3. CASE disk' = mem[p]
      BY <3>1, <3>2, <3>3
    <3>4. CASE disk # NoFile /\ disk' = MergeRoadmaps(mem[p], disk)
      BY <2>2, <3>1, <3>2, <3>4, MergeTakesCopies
    <3> QED BY <2>1, <3>3, <3>4
  <2>4. AdoptInv' /\ DownInv'
    BY <1>1, <2>1 DEF VInv, AdoptInv, DownInv, IInv, TypeOK
  <2> QED BY <1>3, <2>3, <2>4 DEF VInv
<1>5. CASE LockAndRead(p) \/ ReadFails(p) \/ SaveFails(p)
  <2>1. /\ UNCHANGED <<mem, disk, job>> /\ pc[p] # "down"
        /\ pc' \in {[pc EXCEPT ![p] = "locked"], [pc EXCEPT ![p] = "idle"]}
    BY <1>5 DEF LockAndRead, Store!LockAndRead, ReadFails, Store!ReadFails,
                SaveFails, Store!SaveFails
  <2>2. \A s \in Slot : Copies(s)' = Copies(s)
    BY <1>2, <2>1 DEF Copies
  <2>3. AdoptInv' /\ DownInv'
    BY <1>1, <2>1 DEF VInv, AdoptInv, DownInv, IInv, TypeOK
  <2> QED BY <1>3, <2>2, <2>3 DEF VInv
<1>6. CASE Boot(p) \/ Crash(p)
  <2>1. /\ disk' = disk /\ \A q \in Proc : q # p => mem'[q] = mem[q] /\ pc'[q] = pc[q]
        /\ mem'[p] = Empty \/ (disk # NoFile /\ mem'[p] = disk)
        /\ pc'[p] = "down" => mem'[p] = Empty
        /\ \A q \in Proc : job'[q] \in {job[q], <<>>}
    BY <1>6 DEF Boot, Store!Boot, Crash, Store!Crash, IInv, TypeOK
  <2>2. ASSUME NEW s \in Slot, NEW e \in Copies(s)'
        PROVE  e \in Copies(s) \/ e = Absent
    BY <1>2, <2>1 DEF Copies, Empty
  <2>3. AdoptInv' /\ DownInv'
    BY <1>1, <2>1 DEF VInv, AdoptInv, DownInv
  <2> QED BY <1>3, <2>2, <2>3 DEF VInv
<1> QED BY <1>4, <1>5, <1>6

LEMMA NextKeepsVInv == (IInv /\ VInv) /\ [Next]_vars => (IInv /\ VInv)'
<1> SUFFICES ASSUME IInv, VInv, [Next]_vars
             PROVE  (IInv /\ VInv)'
  OBVIOUS
<1>1. IInv'
  BY NextKeepsIInv
<1>2. CASE UNCHANGED vars
  BY <1>1, <1>2
  DEF vars, VInv, ClockInv, VersionInv, AdoptInv, DownInv, Copies, OnWire
<1>3. CASE Next
  BY <1>1, <1>3, NextIsOneOf, WriteStepKeepsVInv, SendsKeepsVInv, SavesKeepVInv
<1> QED BY <1>2, <1>3

THEOREM VersionsInvariance == Spec => [](IInv /\ VInv)
BY InitIInv, InitVInv, NextKeepsVInv, PTL DEF Spec

\* Two copies of a record with one stamp are one version, in whatever memory, on
\* file or on the wire: every stamp is taken once, and copies are made whole
\* (updated_at; merge_roadmaps).
THEOREM StampsAreVersions == Spec => []StampsIdentifyVersions
<1>1. ASSUME IInv, VInv PROVE StampsIdentifyVersions
  <2> DEFINE sent == {[s \in ChunkSlots(e.id) |-> e[s[1]]] : e \in wire}
             copies == {mem[p] : p \in Proc} \cup ({disk} \ {NoFile}) \cup sent
  <2>1. ASSUME NEW m \in copies, NEW s \in DOMAIN m
        PROVE  s \in Slot /\ m[s] \in Copies(s)
    <3>1. CASE m \in sent
      <4>1. PICK e \in wire : m = [t \in ChunkSlots(e.id) |-> e[t[1]]]
        BY <3>1
      <4>2. s \in ChunkSlots(e.id) /\ m[s] = e[s[1]] /\ e.id \in ChunkId
        BY <1>1, <2>1, <4>1 DEF IInv, TypeOK, Envelope
      <4>3. s \in Slot
        BY <4>2, SlotsAreKeys DEF ChunkSlots
      <4> QED BY <4>2, <4>3 DEF Copies, OnWire
    <3>2. CASE \E p \in Proc : m = mem[p]
      BY <1>1, <2>1, <3>2 DEF Copies, IInv, TypeOK, Roadmap
    <3>3. CASE m = disk /\ disk # NoFile
      BY <1>1, <2>1, <3>3 DEF Copies, IInv, TypeOK, Roadmap
    <3> QED BY <2>1, <3>1, <3>2, <3>3
  <2>2. ASSUME NEW m \in copies, NEW n \in copies,
               NEW s \in (DOMAIN m \cap DOMAIN n) \ ContainerSlot, m[s].stamp = n[s].stamp
        PROVE  m[s] = n[s]
    BY <1>1, <2>1, <2>2 DEF VInv, VersionInv
  <2> HIDE DEF copies
  <2>3. \A m, n \in copies : \A s \in (DOMAIN m \cap DOMAIN n) \ ContainerSlot :
          m[s].stamp = n[s].stamp => m[s] = n[s]
    BY <2>2
  <2> QED BY <2>3 DEF StampsIdentifyVersions, copies
<1> QED BY <1>1, VersionsInvariance, PTL

\* No record of a chunk ever gets older in the memory of a server that is up: a call
\* stamps it now, a pull takes it only when it is newer, and a boot starts from
\* nothing (upsert_chunk).
THEOREM MemoryOnlyAdvances == Spec => MemoryNeverRegresses
<1> DEFINE Advance ==
      \A p \in Proc :
        pc'[p] # "down" =>
          \A c \in ChunkId : \A s \in ChunkSlots(c) : mem'[p][s].stamp >= mem[p][s].stamp
<1>1. IInv /\ VInv /\ [Next]_vars => [Advance]_vars
  <2> SUFFICES ASSUME IInv, VInv, Next,
                      NEW q \in Proc, pc'[q] # "down", NEW c \in ChunkId, NEW s \in ChunkSlots(c)
               PROVE  mem'[q][s].stamp >= mem[q][s].stamp
    OBVIOUS
  <2>1. s \in Slot /\ s[1] # "focus"
    <3>1. mem[q] \in Roadmap
      BY DEF IInv, TypeOK
    <3> QED BY <3>1, WhatTravels
  <2>2. mem[q][s] \in Copies(s) /\ mem[q][s].stamp \in Nat /\ mem[q][s].stamp <= clock
    <3>1. mem[q][s] \in Copies(s)
      BY DEF Copies
    <3> QED BY <2>1, <3>1, CopiesFit DEF VInv, ClockInv
  <2>3. ASSUME mem'[q] = mem[q] PROVE mem'[q][s].stamp >= mem[q][s].stamp
    BY <2>2, <2>3
  <2>4. ASSUME NEW p \in Proc, WriteStep(p) PROVE mem'[q][s].stamp >= mem[q][s].stamp
    <3>1. CASE q # p
      BY <2>3, <2>4, <3>1 DEF WriteStep
    <3>2. CASE q = p
      <4>1. clock \in Nat /\ Now = clock + 1
        BY DEF IInv, TypeOK, Now
      <4>2. \/ mem'[q][s] = mem[q][s] \/ mem'[q][s].stamp = Now
            \/ (mem'[q][s] \in OnWire(s) /\ mem'[q][s].stamp > mem[q][s].stamp)
        BY <2>1, <2>4, <3>2 DEF WriteStep
      <4>3. ASSUME mem'[q][s] \in OnWire(s) PROVE mem'[q][s].stamp \in Nat
        BY <2>1, <4>3, CopiesFit DEF Copies
      <4> QED BY <2>2, <4>1, <4>2, <4>3
    <3> QED BY <3>1, <3>2
  <2>5. ASSUME NEW p \in Proc, Boot(p) PROVE mem'[q][s].stamp >= mem[q][s].stamp
    <3>1. CASE q # p
      BY <2>3, <2>5, <3>1 DEF Boot, Store!Boot, IInv, TypeOK
    <3>2. CASE q = p
      <4>1. mem[q][s].stamp = 0
        BY <2>1, <2>5, <3>2 DEF Boot, Store!Boot, VInv, DownInv, Empty, Absent
      <4>2. mem'[q] \in Roadmap
        BY NextKeepsIInv DEF IInv, TypeOK
      <4>3. mem'[q][s].stamp \in Nat
        BY <2>1, <4>2, FitsIsEntry DEF Roadmap
      <4> QED BY <4>1, <4>3
    <3> QED BY <3>1, <3>2
  <2>6. ASSUME NEW p \in Proc, Crash(p) PROVE mem'[q][s].stamp >= mem[q][s].stamp
    BY <2>3, <2>6 DEF Crash, Store!Crash, IInv, TypeOK
  <2>7. ASSUME NEW p \in Proc,
               Sends(p) \/ RenameAndUnlock(p) \/ LockAndRead(p) \/ ReadFails(p) \/ SaveFails(p)
        PROVE  mem'[q] = mem[q]
    BY <2>7 DEF Sends, RenameAndUnlock, Store!RenameAndUnlock, LockAndRead,
                Store!LockAndRead, ReadFails, Store!ReadFails, SaveFails, Store!SaveFails
  <2> QED BY <2>3, <2>4, <2>5, <2>6, <2>7, NextIsOneOf
<1> QED BY <1>1, VersionsInvariance, PTL DEF Spec, MemoryNeverRegresses

-----------------------------------------------------------------------------
(* Saves are atomic.                                                        *)

\* A step writes memory and starts a save, moves no memory and no file, or is one of
\* a save, a boot or a crash.
LEMMA NextMutatesOrSaves ==
  ASSUME Next
  PROVE  \/ UNCHANGED <<mem, pc, read, disk>>
         \/ \E p \in Proc : \/ \E m2 : Store!Mutate(p, m2)
                           \/ RenameAndUnlock(p) \/ LockAndRead(p) \/ ReadFails(p)
                           \/ SaveFails(p) \/ Boot(p) \/ Crash(p)
<1> DEFINE Writes(p) == \/ UNCHANGED <<mem, pc, read, disk>>
                        \/ \E m2 : Store!Mutate(p, m2)
<1>1. ASSUME NEW p \in Proc, NEW m2, NEW rest, Write(p, m2, rest)
      PROVE  Writes(p)
  BY <1>1 DEF Write
<1>2. ASSUME NEW p \in Proc, NEW m2, NEW rest, Call(p, m2, rest)
      PROVE  Writes(p)
  BY <1>1, <1>2 DEF Call
<1>3. ASSUME NEW p \in Proc, Skip(p)
      PROVE  Writes(p)
  BY <1>3 DEF Skip
<1> HIDE DEF Writes
<1>4. ASSUME NEW p \in Proc, NEW c \in ChunkId, OfChunk(p, c)
      PROVE  Writes(p)
  BY <1>2, <1>4 DEF OfChunk, AddChunk, SetStatus, UpdateChunk, CompleteChunk, LinkChunk,
                    RecordTrackerLink, RecordTrackerHash, SetTrackerOptIn
<1>5. ASSUME NEW p \in Proc,
             \/ \E k \in Container, minted \in BOOLEAN : RecordContainerLink(p, k, minted)
             \/ \E l \in Lane : FocusSet(p, l) \/ FocusClear(p, l)
             \/ \E e \in wire : Reconcile(p, e)
      PROVE  Writes(p)
  BY <1>2, <1>5 DEF RecordContainerLink, FocusSet, FocusClear, Reconcile
<1>6. ASSUME NEW p \in Proc, Continue(p)
      PROVE  Writes(p)
  <2>1. CASE Emit(p)
    BY <2>1 DEF Emit, Writes
  <2> QED
    BY <1>1, <1>3, <1>6, <2>1 DEF Continue, TouchForLink, PushProof, InheritOptIn, AdoptSidecar
<1> QED
  BY <1>4, <1>5, <1>6 DEF Next, Writes

\* A step of a save by p moves nobody else's: their saves stay blind or not.
LEMMA OthersStayBusy ==
  ASSUME IInv, NEW p \in Proc, NEW to, pc' = [pc EXCEPT ![p] = to],
         \A q \in Proc : q # p => read'[q] = read[q],
         disk' = disk \/ \A q \in Proc : q # p => pc[q] # "locked"
  PROVE  /\ \A q \in Proc : q # p => Busy'[q] = Busy[q]
         /\ to # "locked" => Busy' = [Busy EXCEPT ![p] = to]
<1>1. pc \in [Proc -> Store!PC]
  BY DEF IInv, TypeOK
<1>2. ASSUME NEW q \in Proc, q # p
      PROVE  Busy'[q] = Busy[q]
  <2>1. pc'[q] = pc[q] /\ read'[q] = read[q] /\ (disk' = disk \/ pc[q] # "locked")
    BY <1>1, <1>2
  <2> QED
    BY <2>1 DEF Busy, Store!Unread
<1>3. ASSUME to # "locked"
      PROVE  Busy' = [Busy EXCEPT ![p] = to]
  <2>1. Busy'[p] = to
    BY <1>1, <1>3 DEF Busy, Store!Unread
  <2>2. Busy' = [q \in Proc |-> Busy'[q]] /\ Busy = [q \in Proc |-> Busy[q]]
    BY DEF Busy
  <2> HIDE DEF Busy
  <2> QED
    BY <1>2, <2>1, <2>2
<1> QED
  BY <1>2, <1>3

\* Every step is one of AtomicSave's, or none: what a rename merges with is the file,
\* when it merges.
LEMMA StepIsAtomic ==
  ASSUME IInv, IInv', Next
  PROVE  Atomic!Next \/ UNCHANGED Atomic!vars
<1>1. /\ pc \in [Proc -> Store!PC] /\ mem \in [Proc -> Roadmap] /\ mem' \in [Proc -> Roadmap]
      /\ read \in [Proc -> Roadmap \cup {NoFile}]
      /\ \A p \in Proc : pc[p] = "locked" => read[p] \in {disk, NoFile}
      /\ \A p, q \in Proc : pc[p] = "locked" /\ pc[q] = "locked" => p = q
  BY DEF IInv, TypeOK, LockInv
<1> DEFINE Turned(p, from, to) == Busy[p] = from /\ Busy' = [Busy EXCEPT ![p] = to]
<1>2. CASE UNCHANGED <<mem, pc, read, disk>>
  BY <1>2 DEF Atomic!vars, Busy, Store!Unread
<1>3. ASSUME NEW p \in Proc, NEW m2, Store!Mutate(p, m2)
      PROVE  Atomic!Change(p)
  <2>1. Turned(p, "idle", "saving")
    <3>1. Busy' = [Busy EXCEPT ![p] = "saving"]
      BY <1>3, OthersStayBusy DEF Store!Mutate
    <3> QED
      BY <1>3, <3>1 DEF Store!Mutate, Busy, Store!Unread
  <2> QED
    BY <1>1, <1>3, <2>1 DEF Store!Mutate, Atomic!Change, Atomic!Turn, Atomic!OthersKeep
<1>4. ASSUME NEW p \in Proc, LockAndRead(p)
      PROVE  UNCHANGED Atomic!vars
  <2>1. /\ pc[p] = "saving" /\ pc' = [pc EXCEPT ![p] = "locked"]
        /\ read' = [read EXCEPT ![p] = disk] /\ UNCHANGED <<mem, disk>>
    BY <1>4 DEF LockAndRead, Store!LockAndRead
  <2>2. \A q \in Proc : q # p => Busy'[q] = Busy[q]
    BY <1>1, <2>1, OthersStayBusy
  <2>3. Busy'[p] = Busy[p]
    BY <1>1, <2>1 DEF Busy, Store!Unread
  <2>4. Busy' = [q \in Proc |-> Busy'[q]] /\ Busy = [q \in Proc |-> Busy[q]]
    BY DEF Busy
  <2> HIDE DEF Busy
  <2>5. Busy' = Busy
    BY <2>2, <2>3, <2>4
  <2> QED
    BY <2>1, <2>5 DEF Atomic!vars
<1>5. ASSUME NEW p \in Proc, ReadFails(p)
      PROVE  Atomic!GoBlind(p)
  <2>1. /\ pc[p] = "saving" /\ pc' = [pc EXCEPT ![p] = "locked"] /\ disk # NoFile
        /\ read' = [read EXCEPT ![p] = NoFile] /\ UNCHANGED <<mem, disk>>
    BY <1>5 DEF ReadFails, Store!ReadFails
  <2>2. \A q \in Proc : q # p => Busy'[q] = Busy[q]
    BY <1>1, <2>1, OthersStayBusy
  <2>3. Busy[p] = "saving" /\ Busy'[p] = "blind"
    BY <1>1, <2>1 DEF Busy, Store!Unread
  <2>4. Busy' = [q \in Proc |-> Busy'[q]] /\ Busy = [q \in Proc |-> Busy[q]]
    BY DEF Busy
  <2> HIDE DEF Busy
  <2>5. Busy' = [Busy EXCEPT ![p] = "blind"]
    BY <2>2, <2>3, <2>4
  <2> QED
    BY <2>1, <2>3, <2>5 DEF Atomic!GoBlind, Atomic!Turn
<1>6. ASSUME NEW p \in Proc, RenameAndUnlock(p)
      PROVE  Atomic!Save(p) \/ Atomic!Overwrite(p)
  <2>1. /\ pc[p] = "locked" /\ pc' = [pc EXCEPT ![p] = "idle"]
        /\ read' = [read EXCEPT ![p] = NoFile] /\ mem' = mem
        /\ disk' = IF read[p] = NoFile THEN mem[p] ELSE MergeRoadmaps(mem[p], read[p])
    BY <1>6 DEF RenameAndUnlock, Store!RenameAndUnlock, Store!Saved
  <2>2. Busy' = [Busy EXCEPT ![p] = "idle"]
    BY <1>1, <2>1, OthersStayBusy
  <2>3. CASE Store!Unread(p)
    <3>1. Busy[p] = "blind" /\ disk' = mem[p]
      BY <2>1, <2>3 DEF Busy, Store!Unread
    <3> QED
      BY <2>1, <2>2, <3>1 DEF Atomic!Overwrite, Atomic!Turn
  <2>4. CASE ~Store!Unread(p)
    <3>1. Busy[p] = "saving" /\ read[p] = disk
      BY <1>1, <2>1, <2>4 DEF Busy, Store!Unread
    <3> QED
      BY <2>1, <2>2, <3>1 DEF Atomic!Save, Atomic!Turn
  <2> QED
    BY <2>3, <2>4
<1>7. ASSUME NEW p \in Proc, SaveFails(p)
      PROVE  Atomic!Fail(p)
  <2>1. /\ pc[p] \in {"saving", "locked"} /\ pc' = [pc EXCEPT ![p] = "idle"]
        /\ read' = [read EXCEPT ![p] = NoFile] /\ UNCHANGED <<mem, disk>>
    BY <1>7 DEF SaveFails, Store!SaveFails
  <2>2. Busy' = [Busy EXCEPT ![p] = "idle"]
    BY <1>1, <2>1, OthersStayBusy
  <2>3. Busy[p] \in {"saving", "blind"}
    BY <2>1 DEF Busy
  <2> HIDE DEF Busy
  <2> QED
    BY <2>1, <2>2, <2>3 DEF Atomic!Fail, Atomic!Turn
<1>8. ASSUME NEW p \in Proc, Boot(p)
      PROVE  Atomic!Boot(p)
  <2>1. Turned(p, "down", "idle")
    <3>1. Busy' = [Busy EXCEPT ![p] = "idle"]
      BY <1>8, OthersStayBusy DEF Boot, Store!Boot
    <3> QED
      BY <1>8, <3>1 DEF Boot, Store!Boot, Busy, Store!Unread
  <2> QED
    BY <1>8, <2>1 DEF Boot, Store!Boot, Atomic!Boot, Atomic!Turn
<1>9. ASSUME NEW p \in Proc, Crash(p)
      PROVE  Atomic!Crash(p)
  <2>1. /\ pc[p] # "down" /\ pc' = [pc EXCEPT ![p] = "down"]
        /\ read' = [read EXCEPT ![p] = NoFile]
        /\ mem' = [mem EXCEPT ![p] = Empty] /\ disk' = disk
    BY <1>9 DEF Crash, Store!Crash
  <2>2. Busy' = [Busy EXCEPT ![p] = "down"]
    BY <1>1, <2>1, OthersStayBusy
  <2>3. Busy[p] \in {"idle", "saving", "blind"}
    BY <1>1, <2>1 DEF Busy, Store!PC
  <2> HIDE DEF Busy
  <2> QED
    BY <2>1, <2>2, <2>3 DEF Atomic!Crash, Atomic!Turn
<1> QED
  BY <1>2, <1>3, <1>4, <1>5, <1>6, <1>7, <1>8, <1>9, NextMutatesOrSaves DEF Atomic!Next

\* The store implements AtomicSave: the lock, the read, the merge and the rename are one
\* step to whoever looks at memories and the file, wherever servers crash between them,
\* however many servers save at a time (locked_merge_write).
THEOREM StoreImplementsAtomicSave == Spec => SavesAreAtomic
<1>1. Init => Atomic!Init
  <2>1. ASSUME Init PROVE Busy = [p \in Proc |-> "down"]
    BY <2>1 DEF Init, Busy, Store!Unread
  <2> QED
    BY <2>1 DEF Init, Atomic!Init
<1>2. IInv /\ IInv' /\ [Next]_vars => [Atomic!Next]_Atomic!vars
  <2>1. ASSUME UNCHANGED vars PROVE UNCHANGED Atomic!vars
    BY <2>1 DEF vars, Atomic!vars, Busy, Store!Unread
  <2> QED
    BY <2>1, StepIsAtomic
<1> QED
  BY <1>1, <1>2, Invariance, PTL DEF Spec, SavesAreAtomic, Atomic!Spec
=============================================================================
