------------------------------ MODULE ShipProofs ------------------------------
(***************************************************************************)
(* What the ship family guarantees for every number of servers and tasks,  *)
(* with or without I/O errors; and, last, what it guarantees besides to a  *)
(* server that is alone on its store, whose saves do not fail and whose    *)
(* plan is not reordered (SpecC).                                          *)
(***************************************************************************)
EXTENDS CheckTask, GateState, SubsequenceProofs

-----------------------------------------------------------------------------
(* Plans as sequences.                                                      *)

LEMMA MinFacts ==
  ASSUME NEW S \in SUBSET Nat, S # {}
  PROVE  Min(S) \in S /\ \A x \in S : Min(S) <= x
<1>1. PICK t \in S : \A u \in S : ~ (<<u, t>> \in OpToRel(<, Nat))
  BY NatLessThanWellFounded, WFMin
<1>2. \A u \in S : t <= u
  <2>1. \A u \in S : ~(u < t)
    BY <1>1 DEF OpToRel
  <2> QED
    BY <2>1
<1>3. \E z \in S : \A y \in S : z <= y
  BY <1>2
<1> QED
  BY <1>3, Zenon DEF Min

\* The task a call names is one of the plan.
LEMMA IndexFacts ==
  ASSUME NEW A, NEW s \in Seq(A), NEW id
  PROVE  /\ TaskIndex(s, id) # 0 => /\ TaskIndex(s, id) \in 1 .. Len(s)
                                    /\ s[TaskIndex(s, id)].id = id
         /\ TaskIndex(s, id) = 0 => \A i \in 1 .. Len(s) : s[i].id # id
<1> DEFINE I == {i \in 1 .. Len(s) : s[i].id = id}
<1>1. TaskIndex(s, id) = IF I # {} THEN Min(I) ELSE 0
  BY DEF TaskIndex, SelectInSeq
<1>2. I \in SUBSET Nat /\ 0 \notin I
  OBVIOUS
<1>3. I # {} => Min(I) \in I
  BY <1>2, MinFacts
<1> QED
  BY <1>1, <1>2, <1>3

\* A merge keeps memory's tasks, and adds every id that only the file has; nothing
\* comes from elsewhere.
LEMMA UnionFacts ==
  ASSUME NEW A, NEW s \in Seq(A), NEW t \in Seq(A)
  PROVE  /\ UnionById(s, t) \in Seq(A)
         /\ \A k \in DOMAIN UnionById(s, t) :
              \/ \E i \in DOMAIN s : UnionById(s, t)[k] = s[i]
              \/ \E i \in DOMAIN t : UnionById(s, t)[k] = t[i]
         /\ Ids(s) \cup Ids(t) \subseteq Ids(UnionById(s, t))
<1> DEFINE I == {i \in DOMAIN t : t[i].id \notin Ids(s) \cup Ids(SubSeq(t, 1, i - 1))}
           more == Picked(t, I)
           n == Len(s)
<1>1. /\ n \in Nat /\ DOMAIN s = 1 .. n
      /\ Len(t) \in Nat /\ DOMAIN t = 1 .. Len(t)
  OBVIOUS
<1>2. UnionById(s, t) = s \o more
  BY DEF UnionById
<1>3. I \in SUBSET (1 .. Len(t))
  BY <1>1
<1>4. /\ more \in Seq(A)
      /\ \A k \in DOMAIN more : \E i \in I : more[k] = t[i]
      /\ \A i \in I : \E k \in DOMAIN more : more[k] = t[i]
  <2> HIDE DEF I
  <2>1. Picked(t, I) \in Seq(A)
    BY <1>3, PickedFacts
  <2>2. \A k \in DOMAIN Picked(t, I) : \E i \in I : Picked(t, I)[k] = t[i]
    BY <1>3, PickedFacts
  <2>3. \A i \in I : \E k \in DOMAIN Picked(t, I) : Picked(t, I)[k] = t[i]
    BY <1>3, PickedFacts
  <2> QED
    BY <2>1, <2>2, <2>3, Zenon
<1>5. \A i \in DOMAIN t : t[i].id \in Ids(s) \/ \E k \in I : t[k].id = t[i].id
  <2> SUFFICES ASSUME NEW i \in DOMAIN t, t[i].id \notin Ids(s)
               PROVE  \E k \in I : t[k].id = t[i].id
    OBVIOUS
  <2> DEFINE J == {k \in 1 .. Len(t) : t[k].id = t[i].id}
             first == Min(J)
  <2>1. J \in SUBSET Nat /\ i \in J
    BY <1>1
  <2>2. first \in J /\ \A k \in J : first <= k
    BY <2>1, MinFacts
  <2> HIDE DEF first
  <2>3. first \in 1 .. Len(t) /\ t[first].id = t[i].id
    BY <2>2
  <2> DEFINE before == SubSeq(t, 1, first - 1)
  <2>4. /\ DOMAIN before = 1 .. first - 1
        /\ \A k \in 1 .. first - 1 : before[k] = t[k] /\ k \in 1 .. Len(t) /\ ~(first <= k)
    BY <2>3, <1>1
  <2> HIDE DEF before
  <2>5. t[first].id \notin Ids(before)
    BY <2>2, <2>3, <2>4 DEF Ids
  <2>6. first \in I
    BY <2>3, <2>5, <1>1 DEF before
  <2> QED
    BY <2>3, <2>6
<1> HIDE DEF I, more, n
<1>6. Len(more) \in Nat /\ DOMAIN more = 1 .. Len(more)
  BY <1>4
<1>7. /\ s \o more \in Seq(A) /\ DOMAIN (s \o more) = 1 .. n + Len(more)
      /\ \A i \in 1 .. n : (s \o more)[i] = s[i]
      /\ \A i \in 1 .. Len(more) : (s \o more)[n + i] = more[i]
  BY <1>4, Concatenated DEF n
<1>8. /\ \A i \in 1 .. n + Len(more) : i \notin 1 .. n => i - n \in 1 .. Len(more) /\ i = n + (i - n)
      /\ \A i \in 1 .. n : i \in 1 .. n + Len(more)
      /\ \A i \in 1 .. Len(more) : n + i \in 1 .. n + Len(more)
  BY <1>1, <1>6, Indices
<1>9. \A k \in DOMAIN (s \o more) :
        (\E i \in DOMAIN s : (s \o more)[k] = s[i]) \/ (\E i \in DOMAIN t : (s \o more)[k] = t[i])
  <2> TAKE k \in DOMAIN (s \o more)
  <2>1. CASE k \in 1 .. n
    BY <2>1, <1>1, <1>7
  <2>2. CASE k \notin 1 .. n
    <3>1. k - n \in DOMAIN more /\ (s \o more)[k] = more[k - n]
      BY <2>2, <1>6, <1>7, <1>8
    <3>2. PICK i \in I : more[k - n] = t[i]
      BY <3>1, <1>4
    <3>3. i \in DOMAIN t
      BY <1>1, <1>3
    <3> QED
      BY <3>1, <3>2, <3>3
  <2> QED
    BY <2>1, <2>2
<1>10. Ids(s) \subseteq Ids(s \o more)
  BY <1>1, <1>7, <1>8 DEF Ids
<1>11. Ids(t) \subseteq Ids(s \o more)
  <2> SUFFICES ASSUME NEW i \in DOMAIN t
               PROVE  t[i].id \in Ids(s \o more)
    BY DEF Ids
  <2>1. CASE t[i].id \in Ids(s)
    BY <2>1, <1>10
  <2>2. CASE t[i].id \notin Ids(s)
    <3>1. PICK k \in I : t[k].id = t[i].id
      BY <2>2, <1>5
    <3>2. PICK j \in DOMAIN more : more[j] = t[k]
      BY <1>4
    <3>3. n + j \in DOMAIN (s \o more) /\ (s \o more)[n + j] = t[k]
      BY <3>2, <1>6, <1>7, <1>8
    <3> QED
      BY <3>1, <3>3 DEF Ids
  <2> QED
    BY <2>1, <2>2
<1> DEFINE u == s \o more
<1>12. /\ u \in Seq(A)
       /\ \A k \in DOMAIN u :
            (\E i \in DOMAIN s : u[k] = s[i]) \/ (\E i \in DOMAIN t : u[k] = t[i])
       /\ Ids(s) \subseteq Ids(u) /\ Ids(t) \subseteq Ids(u)
  BY <1>7, <1>9, <1>10, <1>11
<1>13. UnionById(s, t) = u
  BY <1>2
<1> HIDE DEF u
<1> QED
  BY <1>12, <1>13

-----------------------------------------------------------------------------
(* The inductive invariant, over the kinds of check that may be recorded.   *)

\* A task of a cycle of that line, whose next action has that number.
OwnTask(kinds, line, next) ==
  {t \in TaskWith(kinds) : t.born \in {0, line} /\ \A n \in t.actions : n < next}

\* A cycle of its own tasks; one with no objective has neither stamp nor line.
Sound(kinds) ==
  {m \in CycleWith(kinds) :
     /\ m.tasks \in Seq(OwnTask(kinds, m.line, m.nextAction))
     /\ m.status = "none" <=> m.stamp = 0
     /\ m.stamp = 0 => m.line = 0}

SoundInv(kinds) ==
  /\ mem \in [Proc -> Sound(kinds)]
  /\ pc \in [Proc -> Store!PC]
  /\ read \in [Proc -> Sound(kinds) \cup {NoFile}]
  /\ disk \in Sound(kinds) \cup {NoFile}
  /\ clock \in Nat /\ resetAt \in Nat /\ spared \subseteq Nat
  /\ acked \subseteq Nat \X Nat \X TaskId

\* Every cycle there is: the engines', the one on file and those read from it.
Cycles == ({mem[p] : p \in Proc} \cup {read[p] : p \in Proc} \cup {disk}) \ {NoFile}

\* Stamps are of the past, and tell lines apart.
StampInv ==
  /\ \A m \in Cycles : m.stamp <= clock
  /\ \A m, n \in Cycles : m.stamp = n.stamp => m.line = n.line

\* A cycle set before the last reset is one that it spared.
ResetInv ==
  /\ resetAt <= clock
  /\ \A m \in Cycles : m.stamp \in 1 .. resetAt => m.stamp \in spared

\* The lock is exclusive; its holder has read what is on file, unless a reset has
\* removed it since or the re-read failed.
LockInv ==
  /\ \A p \in Proc : pc[p] = "locked" => read[p] \in {disk, NoFile} \/ disk = NoFile
  /\ \A p, q \in Proc : pc[p] = "locked" /\ pc[q] = "locked" => p = q

\* What was acknowledged is of the cycle on file, which has it, or of an older one.
AckedInv ==
  \A a \in acked : /\ disk # NoFile
                   /\ a[1] <= disk.stamp
                   /\ a[1] = disk.stamp => a[3] \in Ids(disk.tasks)

IInv(kinds) == SoundInv(kinds) /\ StampInv /\ ResetInv /\ LockInv /\ AckedInv

LEMMA FreshIsSound ==
  ASSUME NEW kinds
  PROVE  Fresh \in Sound(kinds) /\ Fresh.stamp = 0 /\ Fresh.line = 0
<1>1. <<>> \in Seq(OwnTask(kinds, 0, 1)) /\ <<>> \in Seq(TaskWith(kinds))
  OBVIOUS
<1>2. /\ Fresh.stamp = 0 /\ Fresh.line = 0 /\ Fresh.status = "none" /\ Fresh.tasks = <<>>
      /\ Fresh.nextAction = 1
  BY DEF Fresh
<1>3. Fresh \in CycleWith(kinds)
  BY <1>1 DEF Fresh, CycleWith, ObjectiveStatus
<1> QED
  BY <1>1, <1>2, <1>3 DEF Sound

\* The parts of a sound cycle.
LEMMA SoundParts ==
  ASSUME NEW kinds, NEW m \in Sound(kinds)
  PROVE  /\ m = [stamp |-> m.stamp, line |-> m.line, status |-> m.status,
                 tasks |-> m.tasks, nextAction |-> m.nextAction]
         /\ m.stamp \in Nat /\ m.line \in Nat /\ m.status \in ObjectiveStatus
         /\ m.nextAction \in Nat
         /\ m.tasks \in Seq(OwnTask(kinds, m.line, m.nextAction))
         /\ m.status = "none" <=> m.stamp = 0
         /\ m.stamp = 0 => m.line = 0
BY DEF Sound, CycleWith

\* And what they make.
LEMMA SoundWhole ==
  ASSUME NEW kinds, NEW stamp \in Nat, NEW line \in Nat, NEW status \in ObjectiveStatus,
         NEW next \in Nat, NEW tasks \in Seq(OwnTask(kinds, line, next)),
         status = "none" <=> stamp = 0, stamp = 0 => line = 0
  PROVE  [stamp |-> stamp, line |-> line, status |-> status, tasks |-> tasks,
          nextAction |-> next] \in Sound(kinds)
<1> DEFINE m == [stamp |-> stamp, line |-> line, status |-> status, tasks |-> tasks,
                 nextAction |-> next]
<1> SUFFICES m \in Sound(kinds)
  OBVIOUS
<1>1. OwnTask(kinds, line, next) \subseteq TaskWith(kinds)
  BY DEF OwnTask
<1>2. tasks \in Seq(TaskWith(kinds))
  BY <1>1
<1>3. m \in CycleWith(kinds)
  BY <1>2 DEF CycleWith
<1>4. m.tasks = tasks /\ m.line = line /\ m.nextAction = next /\ m.status = status
        /\ m.stamp = stamp
  OBVIOUS
<1> HIDE DEF m
<1> QED
  BY <1>3, <1>4 DEF Sound

\* A plan keeps its tasks when its counter rises.
LEMMA CounterMayRise ==
  ASSUME NEW kinds, NEW line, NEW n \in Nat, NEW k \in Nat, n <= k,
         NEW tasks \in Seq(OwnTask(kinds, line, n))
  PROVE  tasks \in Seq(OwnTask(kinds, line, k))
<1>1. OwnTask(kinds, line, n) \subseteq OwnTask(kinds, line, k)
  <2> SUFFICES ASSUME NEW t \in OwnTask(kinds, line, n)
               PROVE  t \in OwnTask(kinds, line, k)
    OBVIOUS
  <2>1. t \in TaskWith(kinds) /\ t.born \in {0, line} /\ t.actions \subseteq Nat
          /\ \A x \in t.actions : x < n
    BY DEF OwnTask, TaskWith
  <2>2. \A x \in t.actions : x < k
    BY <2>1
  <2> QED
    BY <2>1, <2>2 DEF OwnTask
<1> QED
  BY <1>1

\* A merge is sound, is of the newer cycle, and keeps every id of that cycle.
LEMMA MergeFacts ==
  ASSUME NEW kinds, NEW m \in Sound(kinds), NEW d \in Sound(kinds),
         m.stamp = d.stamp => m.line = d.line
  PROVE  LET r == MergeStates(m, d) IN
         /\ r \in Sound(kinds)
         /\ \/ r.stamp = m.stamp /\ r.line = m.line
            \/ r.stamp = d.stamp /\ r.line = d.line
         /\ r.stamp >= m.stamp /\ r.stamp >= d.stamp
         /\ r.stamp = m.stamp => Ids(m.tasks) \subseteq Ids(r.tasks) /\ r.line = m.line
         /\ r.stamp = d.stamp => Ids(d.tasks) \subseteq Ids(r.tasks)
<1> DEFINE r == MergeStates(m, d)
           next == IF m.nextAction >= d.nextAction THEN m.nextAction ELSE d.nextAction
           both == UnionById(m.tasks, d.tasks)
<1>1. m.stamp \in Nat /\ d.stamp \in Nat
  BY SoundParts
<1>2. CASE m.stamp = d.stamp
  <2>1. next \in Nat /\ m.nextAction <= next /\ d.nextAction <= next
    BY SoundParts
  <2>2. /\ m.tasks \in Seq(OwnTask(kinds, m.line, next))
        /\ d.tasks \in Seq(OwnTask(kinds, m.line, next))
    <3>1. m.tasks \in Seq(OwnTask(kinds, m.line, m.nextAction)) /\ m.nextAction \in Nat
      BY SoundParts
    <3>2. d.tasks \in Seq(OwnTask(kinds, m.line, d.nextAction)) /\ d.nextAction \in Nat
      BY <1>2, SoundParts
    <3> HIDE DEF next
    <3> QED
      BY <2>1, <3>1, <3>2, CounterMayRise
  <2>3. /\ both \in Seq(OwnTask(kinds, m.line, next))
        /\ Ids(m.tasks) \cup Ids(d.tasks) \subseteq Ids(both)
    BY <2>2, UnionFacts
  <2>4. r = [stamp |-> m.stamp, line |-> m.line, status |-> m.status, tasks |-> both,
             nextAction |-> next]
    <3>1. r = [m EXCEPT !.tasks = both, !.nextAction = next]
      BY <1>2 DEF MergeStates
    <3> HIDE DEF r, both, next
    <3>2. [m EXCEPT !.tasks = both, !.nextAction = next]
            = [stamp |-> m.stamp, line |-> m.line, status |-> m.status, tasks |-> both,
               nextAction |-> next]
      <4> DEFINE joined == [m EXCEPT !.tasks = both]
      <4>1. m \in CycleWith(kinds)
        BY DEF Sound
      <4>2. joined = [stamp |-> m.stamp, line |-> m.line, status |-> m.status,
                      tasks |-> both, nextAction |-> m.nextAction]
        BY <4>1 DEF CycleWith
      <4>3. [m EXCEPT !.tasks = both, !.nextAction = next] = [joined EXCEPT !.nextAction = next]
        OBVIOUS
      <4> HIDE DEF joined
      <4> QED
        BY <4>2, <4>3
    <3> QED
      BY <3>1, <3>2
  <2> HIDE DEF r, both, next
  <2>5. r \in Sound(kinds)
    BY <2>1, <2>3, <2>4, SoundParts, SoundWhole
  <2> QED
    BY <1>1, <1>2, <2>3, <2>4, <2>5 DEF r
<1>3. CASE m.stamp # d.stamp
  <2>1. r = IF d.stamp > m.stamp THEN d ELSE m
    BY <1>3 DEF MergeStates
  <2> HIDE DEF r
  <2>2. CASE d.stamp > m.stamp
    BY <1>1, <1>3, <2>1, <2>2 DEF r
  <2>3. CASE ~(d.stamp > m.stamp)
    BY <1>1, <1>3, <2>1, <2>3 DEF r
  <2> QED
    BY <2>2, <2>3
<1> QED
  BY <1>2, <1>3


-----------------------------------------------------------------------------
(* What changes the cycles there are.                                       *)

LEMMA CyclesAreSound ==
  ASSUME NEW kinds, NoFile \notin CycleWith(kinds), SoundInv(kinds)
  PROVE  /\ Cycles \subseteq Sound(kinds)
         /\ \A p \in Proc : mem[p] \in Cycles /\ mem[p] \in Sound(kinds)
         /\ \A p \in Proc : read[p] # NoFile => read[p] \in Cycles
         /\ disk # NoFile => disk \in Cycles
<1>1. Sound(kinds) \subseteq CycleWith(kinds)
  BY DEF Sound
<1> QED
  BY <1>1 DEF Cycles, SoundInv

\* A cycle may be added that is of a line there is, of a new one, or of none.
LEMMA CyclesGrow ==
  ASSUME NEW kinds, NoFile \notin CycleWith(kinds), SoundInv(kinds), StampInv,
         clock' \in Nat, clock <= clock',
         NEW m \in Sound(kinds), m.stamp <= clock',
         \/ \E c \in Cycles : m.stamp = c.stamp /\ m.line = c.line
         \/ m.stamp > clock
         \/ m.stamp = 0,
         Cycles' \subseteq Cycles \cup {m}
  PROVE  StampInv'
<1>1. /\ \A c \in Cycles : /\ c.stamp \in Nat /\ c.line \in Nat /\ c.stamp <= clock
                           /\ c.stamp = 0 => c.line = 0
      /\ m.stamp \in Nat /\ m.line \in Nat /\ (m.stamp = 0 => m.line = 0)
      /\ clock \in Nat
  BY CyclesAreSound, SoundParts DEF StampInv, SoundInv
<1>2. \A c \in Cycles : m.stamp = c.stamp => m.line = c.line
  <2>1. CASE \E c \in Cycles : m.stamp = c.stamp /\ m.line = c.line
    BY <2>1 DEF StampInv
  <2>2. CASE m.stamp > clock
    BY <2>2, <1>1
  <2>3. CASE m.stamp = 0
    BY <2>3, <1>1
  <2> QED
    BY <2>1, <2>2, <2>3
<1>3. \A c \in Cycles : c.stamp <= clock'
  BY <1>1
<1> QED
  BY <1>2, <1>3 DEF StampInv

\* What a reset did not spare is then not among them either.
LEMMA ResetsStand ==
  ASSUME NEW kinds, NoFile \notin CycleWith(kinds), SoundInv(kinds), ResetInv,
         clock' \in Nat, clock <= clock', resets' = resets,
         NEW m \in Sound(kinds),
         \/ \E c \in Cycles : m.stamp = c.stamp /\ m.line = c.line
         \/ m.stamp > clock
         \/ m.stamp = 0,
         Cycles' \subseteq Cycles \cup {m}
  PROVE  ResetInv'
<1>1. /\ resetAt' = resetAt /\ spared' = spared /\ resetAt <= clock
      /\ resetAt \in Nat /\ clock \in Nat /\ m.stamp \in Nat
  BY SoundParts DEF ResetInv, SoundInv, resets
<1>2. resetAt' <= clock'
  BY <1>1
<1>3. m.stamp \in 1 .. resetAt => m.stamp \in spared
  <2>1. CASE \E c \in Cycles : m.stamp = c.stamp /\ m.line = c.line
    BY <2>1 DEF ResetInv
  <2>2. CASE m.stamp > clock \/ m.stamp = 0
    BY <2>2, <1>1
  <2> QED
    BY <2>1, <2>2
<1> QED
  BY <1>1, <1>2, <1>3 DEF ResetInv

\* The tool calls that change a plan: one engine's memory becomes a sound cycle, its own
\* or one begun now.
Edited(kinds, p, m) ==
  /\ Store!Mutate(p, m)
  /\ m \in Sound(kinds)
  /\ \/ m.stamp = mem[p].stamp /\ m.line = mem[p].line
     \/ m.stamp = clock + 1
  /\ clock' = clock + 1 /\ resets' = resets
  /\ acked' \subseteq acked

LEMMA EditKeeps ==
  ASSUME NEW kinds, NoFile \notin CycleWith(kinds), IInv(kinds), NEW p \in Proc, NEW m,
         Edited(kinds, p, m)
  PROVE  IInv(kinds)'
<1>1. /\ pc[p] = "idle" /\ mem' = [mem EXCEPT ![p] = m]
      /\ pc' = [pc EXCEPT ![p] = "saving"]
      /\ UNCHANGED <<read, disk>> /\ m \in Sound(kinds)
      /\ clock' = clock + 1 /\ resets' = resets /\ acked' \subseteq acked
  BY DEF Edited, Store!Mutate
<1>2. SoundInv(kinds)'
  BY <1>1 DEF IInv, SoundInv, Store!PC, resets
<1>3. StampInv' /\ ResetInv'
  <2> DEFINE old == mem[p]
  <2>1. /\ clock \in Nat /\ clock' \in Nat /\ clock <= clock'
        /\ old.stamp <= clock /\ old.stamp \in Nat /\ old \in Cycles
    <3>1. old \in Cycles /\ old \in Sound(kinds)
      BY CyclesAreSound DEF IInv
    <3>2. old.stamp \in Nat
      BY <3>1, SoundParts
    <3>3. old.stamp <= clock
      BY <3>1 DEF IInv, StampInv
    <3>4. clock \in Nat /\ clock' \in Nat /\ clock <= clock'
      BY <1>1 DEF IInv, SoundInv
    <3> QED
      BY <3>1, <3>2, <3>3, <3>4
  <2>2. /\ m.stamp <= clock'
        /\ \/ \E c \in Cycles : m.stamp = c.stamp /\ m.line = c.line
           \/ m.stamp > clock
    <3>1. CASE m.stamp = old.stamp /\ m.line = old.line
      BY <3>1, <2>1
    <3>2. CASE m.stamp = clock + 1
      BY <3>2, <2>1, <1>1
    <3> QED
      BY <3>1, <3>2 DEF Edited
  <2>3. Cycles' \subseteq Cycles \cup {m}
    BY <1>1 DEF Cycles, IInv, SoundInv
  <2> QED
    BY <1>1, <2>1, <2>2, <2>3, CyclesGrow, ResetsStand DEF IInv
<1>4. LockInv'
  BY <1>1 DEF IInv, LockInv, SoundInv
<1>5. AckedInv'
  BY <1>1 DEF IInv, AckedInv
<1> QED
  BY <1>2, <1>3, <1>4, <1>5 DEF IInv

\* An edit of the plan under the same objective.
LEMMA Replanned ==
  ASSUME NEW kinds, IInv(kinds), NEW p \in Proc,
         NEW status \in ObjectiveStatus, status = "none" <=> mem[p].status = "none",
         NEW next \in Nat, NEW tasks \in Seq(OwnTask(kinds, mem[p].line, next)),
         NEW m, m = [stamp |-> mem[p].stamp, line |-> mem[p].line, status |-> status,
                     tasks |-> tasks, nextAction |-> next],
         Store!Mutate(p, m), clock' = clock + 1, resets' = resets, acked' \subseteq acked
  PROVE  Edited(kinds, p, m)
<1>1. mem[p] \in Sound(kinds)
  BY DEF IInv, SoundInv
<1>2. /\ mem[p].stamp \in Nat /\ mem[p].line \in Nat
      /\ status = "none" <=> mem[p].stamp = 0
      /\ mem[p].stamp = 0 => mem[p].line = 0
  BY <1>1, SoundParts
<1>3. m \in Sound(kinds)
  BY <1>2, SoundWhole
<1>4. m.stamp = mem[p].stamp /\ m.line = mem[p].line
  OBVIOUS
<1> QED
  BY <1>3, <1>4 DEF Edited


-----------------------------------------------------------------------------
(* The tool calls.                                                          *)

\* A cycle with one part replaced.
LEMMA Replaced ==
  ASSUME NEW kinds, NEW m \in Sound(kinds), NEW x
  PROVE  /\ [m EXCEPT !.tasks = x] =
              [stamp |-> m.stamp, line |-> m.line, status |-> m.status, tasks |-> x,
               nextAction |-> m.nextAction]
         /\ [m EXCEPT !.status = x] =
              [stamp |-> m.stamp, line |-> m.line, status |-> x, tasks |-> m.tasks,
               nextAction |-> m.nextAction]
         /\ [m EXCEPT !.nextAction = x] =
              [stamp |-> m.stamp, line |-> m.line, status |-> m.status, tasks |-> m.tasks,
               nextAction |-> x]
<1>1. m \in CycleWith(kinds)
  BY DEF Sound
<1> QED
  BY <1>1 DEF CycleWith

\* A plan with a task taken out, replaced or put in.
LEMMA PlanEdits ==
  ASSUME NEW A, NEW s \in Seq(A)
  PROVE  /\ \A i \in 1 .. Len(s) : /\ s[i] \in A
                                   /\ RemoveAt(s, i) \in Seq(A)
                                   /\ \A e \in A : [s EXCEPT ![i] = e] \in Seq(A)
         /\ \A e \in A : <<e>> \o s \in Seq(A) /\ Append(s, e) \in Seq(A)
         /\ \A i \in 1 .. Len(s) + 1, e \in A : InsertAt(s, i, e) \in Seq(A)
<1>1. Len(s) \in Nat
  OBVIOUS
<1>2. ASSUME NEW i \in 1 .. Len(s)
      PROVE  RemoveAt(s, i) \in Seq(A)
  <2>1. SubSeq(s, 1, i - 1) \in Seq(A) /\ SubSeq(s, i + 1, Len(s)) \in Seq(A)
    BY <1>1
  <2> QED
    BY <2>1, Concatenated DEF RemoveAt
<1>3. ASSUME NEW i \in 1 .. Len(s) + 1, NEW e \in A
      PROVE  InsertAt(s, i, e) \in Seq(A)
  <2>1. SubSeq(s, 1, i - 1) \in Seq(A) /\ SubSeq(s, i, Len(s)) \in Seq(A) /\ <<e>> \in Seq(A)
    BY <1>1
  <2>2. SubSeq(s, 1, i - 1) \o <<e>> \in Seq(A)
    BY <2>1, Concatenated
  <2> QED
    BY <2>1, <2>2, Concatenated DEF InsertAt
<1>4. \A e \in A : <<e>> \o s \in Seq(A) /\ Append(s, e) \in Seq(A)
  OBVIOUS
<1>5. \A i \in 1 .. Len(s) : s[i] \in A /\ \A e \in A : [s EXCEPT ![i] = e] \in Seq(A)
  OBVIOUS
<1> QED
  BY <1>2, <1>3, <1>4, <1>5

\* A task of a plan with one part changed.
LEMMA TaskEdits ==
  ASSUME NEW kinds, NEW line, NEW n \in Nat, NEW t \in OwnTask(kinds, line, n)
  PROVE  /\ \A s \in TaskStatus : [t EXCEPT !.status = s] \in OwnTask(kinds, line, n)
         /\ \A k \in kinds : [t EXCEPT !.checks = t.checks \cup {k}] \in OwnTask(kinds, line, n)
         /\ [t EXCEPT !.actions = t.actions \cup {n}] \in OwnTask(kinds, line, n + 1)
<1>1. /\ t \in TaskWith(kinds) /\ t.born \in {0, line} /\ t.actions \subseteq Nat
      /\ \A x \in t.actions : x < n
  BY DEF OwnTask, TaskWith
<1>2. ASSUME NEW s \in TaskStatus
      PROVE  [t EXCEPT !.status = s] \in OwnTask(kinds, line, n)
  <2> DEFINE u == [t EXCEPT !.status = s]
  <2>1. u \in TaskWith(kinds) /\ u.born = t.born /\ u.actions = t.actions
    BY <1>1 DEF TaskWith
  <2> QED
    BY <1>1, <2>1 DEF OwnTask
<1>3. ASSUME NEW k \in kinds
      PROVE  [t EXCEPT !.checks = t.checks \cup {k}] \in OwnTask(kinds, line, n)
  <2> DEFINE u == [t EXCEPT !.checks = t.checks \cup {k}]
  <2>1. u \in TaskWith(kinds) /\ u.born = t.born /\ u.actions = t.actions
    BY <1>1 DEF TaskWith
  <2> QED
    BY <1>1, <2>1 DEF OwnTask
<1>4. [t EXCEPT !.actions = t.actions \cup {n}] \in OwnTask(kinds, line, n + 1)
  <2> DEFINE u == [t EXCEPT !.actions = t.actions \cup {n}]
  <2>1. u \in TaskWith(kinds) /\ u.born = t.born /\ u.actions = t.actions \cup {n}
    BY <1>1 DEF TaskWith
  <2>2. \A x \in u.actions : x < n + 1
    BY <1>1, <2>1
  <2> QED
    BY <1>1, <2>1, <2>2 DEF OwnTask
<1> QED
  BY <1>2, <1>3, <1>4

\* An edit of the tasks alone.
LEMMA TasksEdited ==
  ASSUME NEW kinds, IInv(kinds), NEW p \in Proc,
         NEW tasks \in Seq(OwnTask(kinds, mem[p].line, mem[p].nextAction)),
         Store!Mutate(p, [mem[p] EXCEPT !.tasks = tasks]),
         Tick, resets' = resets, acked' \subseteq acked
  PROVE  \E m : Edited(kinds, p, m)
<1>1. mem[p] \in Sound(kinds)
  BY DEF IInv, SoundInv
<1> DEFINE m == [stamp |-> mem[p].stamp, line |-> mem[p].line, status |-> mem[p].status,
                 tasks |-> tasks, nextAction |-> mem[p].nextAction]
<1>2. Store!Mutate(p, m)
  BY <1>1, Replaced
<1>3. mem[p].status \in ObjectiveStatus /\ mem[p].nextAction \in Nat
  BY <1>1, SoundParts
<1>4. clock' = clock + 1
  BY DEF Tick
<1>5. m = [stamp |-> mem[p].stamp, line |-> mem[p].line, status |-> mem[p].status,
           tasks |-> tasks, nextAction |-> mem[p].nextAction]
  OBVIOUS
<1> HIDE DEF m
<1>6. Edited(kinds, p, m)
  BY <1>2, <1>3, <1>4, <1>5, Replanned
<1> QED
  BY <1>6

LEMMA SetTaskEdits ==
  ASSUME NEW kinds, IInv(kinds), NEW p \in Proc, NEW i \in 1 .. Len(mem[p].tasks),
         NEW task \in OwnTask(kinds, mem[p].line, mem[p].nextAction),
         SetTask(p, i, task)
  PROVE  \E m : Edited(kinds, p, m)
<1> DEFINE tasks == [mem[p].tasks EXCEPT ![i] = task]
<1>1. mem[p].tasks \in Seq(OwnTask(kinds, mem[p].line, mem[p].nextAction))
  BY SoundParts DEF IInv, SoundInv
<1>2. tasks \in Seq(OwnTask(kinds, mem[p].line, mem[p].nextAction))
  BY <1>1, PlanEdits
<1>3. [mem[p] EXCEPT !.tasks[i] = task] = [mem[p] EXCEPT !.tasks = tasks]
  OBVIOUS
<1>4. Store!Mutate(p, [mem[p] EXCEPT !.tasks = tasks]) /\ Tick /\ resets' = resets
        /\ acked' \subseteq acked
  BY <1>3 DEF SetTask, Update
<1> QED
  BY <1>2, <1>4, TasksEdited

\* Whatever acts on a task of the plan finds it there.
LEMMA NamedTask ==
  ASSUME NEW kinds, IInv(kinds), NEW p \in Proc, NEW id, TaskIndex(mem[p].tasks, id) # 0
  PROVE  LET i == TaskIndex(mem[p].tasks, id) IN
         /\ i \in 1 .. Len(mem[p].tasks)
         /\ mem[p].tasks[i] \in OwnTask(kinds, mem[p].line, mem[p].nextAction)
         /\ mem[p].tasks \in Seq(OwnTask(kinds, mem[p].line, mem[p].nextAction))
         /\ mem[p].nextAction \in Nat
<1>1. /\ mem[p].tasks \in Seq(OwnTask(kinds, mem[p].line, mem[p].nextAction))
      /\ mem[p].nextAction \in Nat
  BY SoundParts DEF IInv, SoundInv
<1>2. TaskIndex(mem[p].tasks, id) \in 1 .. Len(mem[p].tasks)
  BY <1>1, IndexFacts
<1> QED
  BY <1>1, <1>2, PlanEdits

LEMMA SetObjectiveEdits ==
  ASSUME NEW kinds, IInv(kinds), NEW p \in Proc, SetObjective(p)
  PROVE  \E m : Edited(kinds, p, m)
<1> DEFINE old == mem[p]
           line == IF old.status \in InFlight THEN old.line ELSE clock + 1
           tasks == IF old.status = "completed" THEN <<>> ELSE old.tasks
           next == IF old.status = "completed" THEN 1 ELSE old.nextAction
           m == [stamp |-> clock + 1, line |-> line, status |-> "defined", tasks |-> tasks,
                 nextAction |-> next]
<1>1. old \in Sound(kinds) /\ clock \in Nat
  BY DEF IInv, SoundInv
<1>2. /\ old.stamp \in Nat /\ old.line \in Nat /\ old.status \in ObjectiveStatus
      /\ old.nextAction \in Nat
      /\ old.tasks \in Seq(OwnTask(kinds, old.line, old.nextAction))
      /\ old.status = "none" <=> old.stamp = 0
      /\ old.stamp = 0 => old.line = 0
  BY <1>1, SoundParts
<1>3. /\ Store!Mutate(p, m) /\ clock' = clock + 1 /\ resets' = resets
      /\ acked' \subseteq acked
  <2>1. Update(p, [stamp |-> clock + 1, line |-> line, status |-> "defined",
                   tasks |-> tasks, nextAction |-> next])
    BY DEF SetObjective
  <2> QED
    BY <2>1 DEF Update, Tick
<1>4. line \in Nat /\ next \in Nat /\ clock + 1 \in Nat /\ clock + 1 # 0
  BY <1>1, <1>2
<1>5. tasks \in Seq(OwnTask(kinds, line, next))
  <2>1. CASE old.status = "completed"
    BY <2>1
  <2>2. CASE old.status \in InFlight
    BY <2>2, <1>2 DEF InFlight
  <2>3. CASE old.status = "none"
    <3>1. old.line = 0 /\ tasks = old.tasks /\ next = old.nextAction
      BY <2>3, <1>2
    <3>2. OwnTask(kinds, 0, next) \subseteq OwnTask(kinds, line, next)
      BY DEF OwnTask
    <3>3. tasks \in Seq(OwnTask(kinds, 0, next))
      BY <3>1, <1>2
    <3> HIDE DEF tasks, next, line
    <3> QED
      BY <3>2, <3>3
  <2> QED
    BY <2>1, <2>2, <2>3, <1>2 DEF ObjectiveStatus
<1> HIDE DEF line, tasks, next
<1>6. m \in Sound(kinds)
  BY <1>4, <1>5, SoundWhole DEF ObjectiveStatus, InFlight
<1>7. m.stamp = clock + 1
  OBVIOUS
<1> HIDE DEF m
<1>8. Edited(kinds, p, m)
  BY <1>3, <1>6, <1>7 DEF Edited
<1> QED
  BY <1>8

LEMMA AddTaskEdits ==
  ASSUME NEW kinds, IInv(kinds), NEW p \in Proc, NEW id \in TaskId, AddTask(p, id)
  PROVE  \E m : Edited(kinds, p, m)
<1> DEFINE old == mem[p]
           task == [id |-> id, status |-> "planned", actions |-> {}, checks |-> {},
                    born |-> old.line]
           status == IF old.status = "defined" THEN "active" ELSE old.status
           tasks == Append(old.tasks, task)
           m == [stamp |-> old.stamp, line |-> old.line, status |-> status, tasks |-> tasks,
                 nextAction |-> old.nextAction]
<1>1. old \in Sound(kinds)
  BY DEF IInv, SoundInv
<1>2. /\ old.stamp \in Nat /\ old.line \in Nat /\ old.status \in ObjectiveStatus
      /\ old.nextAction \in Nat
      /\ old.tasks \in Seq(OwnTask(kinds, old.line, old.nextAction))
  BY <1>1, SoundParts
<1>3. task \in OwnTask(kinds, old.line, old.nextAction)
  <2>1. task \in TaskWith(kinds)
    BY <1>2 DEF TaskWith, TaskStatus
  <2>2. task.born = old.line /\ task.actions = {}
    OBVIOUS
  <2> QED
    BY <2>1, <2>2 DEF OwnTask
<1> HIDE DEF task
<1>4. tasks \in Seq(OwnTask(kinds, old.line, old.nextAction))
  BY <1>2, <1>3, PlanEdits
<1>5. status \in ObjectiveStatus /\ (status = "none" <=> old.status = "none")
  BY <1>2 DEF ObjectiveStatus, InFlight
<1>6. Store!Mutate(p, m) /\ clock' = clock + 1 /\ resets' = resets /\ acked' \subseteq acked
  <2>1. Update(p, [old EXCEPT !.status = status, !.tasks = tasks])
    BY DEF AddTask, task
  <2>2. [old EXCEPT !.status = status, !.tasks = tasks] = m
    <3> HIDE DEF status, tasks
    <3> DEFINE first == [old EXCEPT !.status = status]
    <3>1. first = [stamp |-> old.stamp, line |-> old.line, status |-> status,
                   tasks |-> old.tasks, nextAction |-> old.nextAction]
      BY <1>1, Replaced
    <3>2. [old EXCEPT !.status = status, !.tasks = tasks] = [first EXCEPT !.tasks = tasks]
      OBVIOUS
    <3> HIDE DEF first
    <3> QED
      BY <3>1, <3>2
  <2> HIDE DEF m
  <2> QED
    BY <2>1, <2>2 DEF Update, Tick
<1> HIDE DEF tasks, status
<1>7. Edited(kinds, p, m)
  BY <1>2, <1>4, <1>5, <1>6, Replanned
<1> QED
  BY <1>7


LEMMA RemoveTaskEdits ==
  ASSUME NEW kinds, IInv(kinds), NEW p \in Proc, NEW id, RemoveTask(p, id)
  PROVE  \E m : Edited(kinds, p, m)
<1> DEFINE i == TaskIndex(mem[p].tasks, id)
           tasks == RemoveAt(mem[p].tasks, i)
<1>1. /\ i # 0 /\ Store!Mutate(p, [mem[p] EXCEPT !.tasks = tasks])
      /\ Tick /\ resets' = resets /\ acked' \subseteq acked
  BY DEF RemoveTask
<1>2. tasks \in Seq(OwnTask(kinds, mem[p].line, mem[p].nextAction))
  BY <1>1, NamedTask, PlanEdits
<1> HIDE DEF tasks, i
<1> QED
  BY <1>1, <1>2, TasksEdited

\* Where a task that is moved goes.
LEMMA Rest ==
  ASSUME NEW kinds, IInv(kinds), NEW p \in Proc, NEW id, TaskIndex(mem[p].tasks, id) # 0
  PROVE  LET i == TaskIndex(mem[p].tasks, id)
             rest == RemoveAt(mem[p].tasks, i)
             A == OwnTask(kinds, mem[p].line, mem[p].nextAction)
         IN /\ rest \in Seq(A) /\ mem[p].tasks[i] \in A
            /\ \A after : TaskIndex(rest, after) # 0
                 => InsertAt(rest, TaskIndex(rest, after) + 1, mem[p].tasks[i]) \in Seq(A)
<1> DEFINE A == OwnTask(kinds, mem[p].line, mem[p].nextAction)
           i == TaskIndex(mem[p].tasks, id)
           rest == RemoveAt(mem[p].tasks, i)
<1>1. i \in 1 .. Len(mem[p].tasks) /\ mem[p].tasks[i] \in A /\ mem[p].tasks \in Seq(A)
  BY NamedTask
<1> HIDE DEF A, i
<1>2. rest \in Seq(A)
  BY <1>1, PlanEdits
<1> HIDE DEF rest
<1>3. ASSUME NEW after, TaskIndex(rest, after) # 0
      PROVE  InsertAt(rest, TaskIndex(rest, after) + 1, mem[p].tasks[i]) \in Seq(A)
  <2>1. TaskIndex(rest, after) \in 1 .. Len(rest) /\ Len(rest) \in Nat
    BY <1>2, <1>3, IndexFacts
  <2>2. TaskIndex(rest, after) + 1 \in 1 .. Len(rest) + 1
    BY <2>1
  <2> QED
    BY <1>1, <1>2, <2>2, PlanEdits
<1> QED
  BY <1>1, <1>2, <1>3 DEF A, i, rest

LEMMA ReorderEdits ==
  ASSUME NEW kinds, IInv(kinds), NEW p \in Proc, NEW id,
         ReorderTaskFirst(p, id) \/ \E after \in AfterId : ReorderTask(p, id, after)
  PROVE  \E m : Edited(kinds, p, m)
<1> DEFINE A == OwnTask(kinds, mem[p].line, mem[p].nextAction)
           i == TaskIndex(mem[p].tasks, id)
           rest == RemoveAt(mem[p].tasks, i)
<1>1. i # 0
  BY DEF ReorderTaskFirst, ReorderTask
<1>2. /\ rest \in Seq(A) /\ mem[p].tasks[i] \in A
      /\ \A after : TaskIndex(rest, after) # 0
           => InsertAt(rest, TaskIndex(rest, after) + 1, mem[p].tasks[i]) \in Seq(A)
  BY <1>1, Rest
<1>3. ASSUME NEW tasks \in Seq(A), Update(p, [mem[p] EXCEPT !.tasks = tasks])
      PROVE  \E m : Edited(kinds, p, m)
  <2>1. /\ Store!Mutate(p, [mem[p] EXCEPT !.tasks = tasks])
        /\ Tick /\ resets' = resets /\ acked' \subseteq acked
    BY <1>3 DEF Update
  <2> QED
    BY <1>3, <2>1, TasksEdited
<1>4. CASE ReorderTaskFirst(p, id)
  <2>1. Update(p, [mem[p] EXCEPT !.tasks = <<mem[p].tasks[i]>> \o rest])
    BY <1>4 DEF ReorderTaskFirst
  <2>2. <<mem[p].tasks[i]>> \o rest \in Seq(A)
    <3> HIDE DEF A, i, rest
    <3> QED
      BY <1>2, PlanEdits
  <2> HIDE DEF A, rest, i
  <2> QED
    BY <1>3, <2>1, <2>2
<1>5. ASSUME NEW after \in AfterId, ReorderTask(p, id, after)
      PROVE  \E m : Edited(kinds, p, m)
  <2> DEFINE tasks == InsertAt(rest, TaskIndex(rest, after) + 1, mem[p].tasks[i])
  <2>1. TaskIndex(rest, after) # 0 /\ Update(p, [mem[p] EXCEPT !.tasks = tasks])
    BY <1>5 DEF ReorderTask
  <2>2. tasks \in Seq(A)
    BY <1>2, <2>1
  <2> HIDE DEF A, tasks
  <2> QED
    BY <1>3, <2>1, <2>2
<1> QED
  BY <1>4, <1>5

LEMMA StatusEdits ==
  ASSUME NEW kinds, IInv(kinds), NEW p \in Proc, NEW id,
         StartTask(p, id) \/ CompleteTask(p, id) \/ BlockTask(p, id)
  PROVE  \E m : Edited(kinds, p, m)
<1> DEFINE i == TaskIndex(mem[p].tasks, id)
           task(s) == [mem[p].tasks[i] EXCEPT !.status = s]
<1>1. i # 0
  BY DEF StartTask, CompleteTask, BlockTask
<1>2. \E s \in TaskStatus : SetTask(p, i, task(s))
  BY DEF StartTask, CompleteTask, BlockTask, TaskStatus
<1>3. /\ i \in 1 .. Len(mem[p].tasks) /\ mem[p].nextAction \in Nat
      /\ mem[p].tasks[i] \in OwnTask(kinds, mem[p].line, mem[p].nextAction)
  BY <1>1, NamedTask
<1>4. \A s \in TaskStatus : task(s) \in OwnTask(kinds, mem[p].line, mem[p].nextAction)
  BY <1>3, TaskEdits
<1> HIDE DEF task, i
<1> QED
  BY <1>2, <1>3, <1>4, SetTaskEdits

LEMMA RecordCheckEdits ==
  ASSUME NEW kinds, IInv(kinds), NEW p \in Proc, NEW id, NEW kind \in kinds,
         RecordCheck(p, id, kind)
  PROVE  \E m : Edited(kinds, p, m)
<1> DEFINE i == TaskIndex(mem[p].tasks, id)
           task == [mem[p].tasks[i] EXCEPT !.checks = mem[p].tasks[i].checks \cup {kind}]
<1>1. i # 0 /\ SetTask(p, i, task)
  BY DEF RecordCheck
<1>2. /\ i \in 1 .. Len(mem[p].tasks) /\ mem[p].nextAction \in Nat
      /\ mem[p].tasks[i] \in OwnTask(kinds, mem[p].line, mem[p].nextAction)
  BY <1>1, NamedTask
<1>3. task \in OwnTask(kinds, mem[p].line, mem[p].nextAction)
  BY <1>2, TaskEdits
<1> HIDE DEF task, i
<1> QED
  BY <1>1, <1>2, <1>3, SetTaskEdits

LEMMA RecordActionEdits ==
  ASSUME NEW kinds, IInv(kinds), NEW p \in Proc, NEW id, RecordAction(p, id)
  PROVE  \E m : Edited(kinds, p, m)
<1> DEFINE old == mem[p]
           n == old.nextAction
           i == TaskIndex(old.tasks, id)
           task == [old.tasks[i] EXCEPT !.actions = old.tasks[i].actions \cup {n}]
           tasks == [old.tasks EXCEPT ![i] = task]
           m == [stamp |-> old.stamp, line |-> old.line, status |-> old.status,
                 tasks |-> tasks, nextAction |-> n + 1]
<1>1. old \in Sound(kinds)
  BY DEF IInv, SoundInv
<1>2. /\ i # 0
      /\ Update(p, [old EXCEPT !.nextAction = n + 1,
                               !.tasks[i].actions = old.tasks[i].actions \cup {n}])
  BY DEF RecordAction
<1>3. /\ i \in 1 .. Len(old.tasks) /\ n \in Nat
      /\ old.tasks[i] \in OwnTask(kinds, old.line, n)
      /\ old.tasks \in Seq(OwnTask(kinds, old.line, n))
  BY <1>2, NamedTask
<1>4. n + 1 \in Nat /\ n <= n + 1
  BY <1>3
<1>5. task \in OwnTask(kinds, old.line, n + 1)
  BY <1>3, TaskEdits
<1>6. old.tasks \in Seq(OwnTask(kinds, old.line, n + 1))
  BY <1>3, <1>4, CounterMayRise
<1>7. [old EXCEPT !.nextAction = n + 1, !.tasks[i].actions = old.tasks[i].actions \cup {n}] = m
  <2> DEFINE first == [old EXCEPT !.nextAction = n + 1]
  <2>1. first = [stamp |-> old.stamp, line |-> old.line, status |-> old.status,
                 tasks |-> old.tasks, nextAction |-> n + 1]
    BY <1>1, Replaced
  <2>2. [old EXCEPT !.nextAction = n + 1, !.tasks[i].actions = old.tasks[i].actions \cup {n}]
          = [first EXCEPT !.tasks[i].actions = old.tasks[i].actions \cup {n}]
    OBVIOUS
  <2> HIDE DEF first
  <2>3. first.tasks = old.tasks
    BY <2>1
  <2>4. [first EXCEPT !.tasks[i].actions = old.tasks[i].actions \cup {n}]
          = [first EXCEPT !.tasks = tasks]
    BY <2>3
  <2> HIDE DEF tasks, n, i
  <2>5. [first EXCEPT !.tasks = tasks]
          = [stamp |-> old.stamp, line |-> old.line, status |-> old.status,
             tasks |-> tasks, nextAction |-> n + 1]
    BY <2>1
  <2> QED
    BY <2>2, <2>4, <2>5
<1> HIDE DEF task
<1>8. tasks \in Seq(OwnTask(kinds, old.line, n + 1))
  BY <1>3, <1>5, <1>6, PlanEdits
<1>9. Store!Mutate(p, m) /\ clock' = clock + 1 /\ resets' = resets /\ acked' \subseteq acked
  BY <1>2, <1>7 DEF Update, Tick
<1>10. old.status \in ObjectiveStatus
  BY <1>1, SoundParts
<1>11. m = [stamp |-> old.stamp, line |-> old.line, status |-> old.status,
            tasks |-> tasks, nextAction |-> n + 1]
  OBVIOUS
<1> HIDE DEF tasks, m, n
<1>12. Edited(kinds, p, m)
  BY <1>4, <1>8, <1>9, <1>10, <1>11, Replanned
<1> QED
  BY <1>12

LEMMA FinalizeEdits ==
  ASSUME NEW kinds, IInv(kinds), NEW p \in Proc, Finalize(p)
  PROVE  \E m : Edited(kinds, p, m)
<1> DEFINE old == mem[p]
           status == IF old.status = "none" THEN old.status ELSE "completed"
           m == [stamp |-> old.stamp, line |-> old.line, status |-> status,
                 tasks |-> old.tasks, nextAction |-> old.nextAction]
<1>1. old \in Sound(kinds)
  BY DEF IInv, SoundInv
<1>2. /\ old.status \in ObjectiveStatus /\ old.nextAction \in Nat
      /\ old.tasks \in Seq(OwnTask(kinds, old.line, old.nextAction))
  BY <1>1, SoundParts
<1>3. status \in ObjectiveStatus /\ (status = "none" <=> old.status = "none")
  BY <1>2 DEF ObjectiveStatus
<1>4. Update(p, [old EXCEPT !.status = status])
  BY DEF Finalize
<1> HIDE DEF status
<1>5. Store!Mutate(p, m) /\ clock' = clock + 1 /\ resets' = resets /\ acked' \subseteq acked
  BY <1>1, <1>4, Replaced DEF Update, Tick
<1>6. Edited(kinds, p, m)
  BY <1>2, <1>3, <1>5, Replanned
<1> QED
  BY <1>6

-----------------------------------------------------------------------------
(* The steps of a save, and the rest.                                       *)

\* A look-up that fails costs memory the task it was to move.
LEMMA ReorderFailsKeeps ==
  ASSUME NEW kinds, NoFile \notin CycleWith(kinds), IInv(kinds), NEW p \in Proc, NEW id,
         NEW after, ReorderTaskFails(p, id, after)
  PROVE  IInv(kinds)'
<1> DEFINE old == mem[p]
           i == TaskIndex(old.tasks, id)
           rest == RemoveAt(old.tasks, i)
           m == [stamp |-> old.stamp, line |-> old.line, status |-> old.status,
                 tasks |-> rest, nextAction |-> old.nextAction]
<1>1. old \in Sound(kinds)
  BY DEF IInv, SoundInv
<1>2. /\ i # 0 /\ mem' = [mem EXCEPT ![p].tasks = rest]
      /\ clock' = clock + 1
      /\ UNCHANGED <<pc, read, disk, resets, acked>>
  BY DEF ReorderTaskFails, Tick
<1>3. rest \in Seq(OwnTask(kinds, old.line, old.nextAction))
  BY <1>2, Rest
<1> HIDE DEF rest, i
<1>4. m \in Sound(kinds) /\ m.stamp = old.stamp /\ m.line = old.line
  BY <1>1, <1>3, SoundParts, SoundWhole
<1>5. mem' = [mem EXCEPT ![p] = m]
  <2>1. mem' = [mem EXCEPT ![p] = [old EXCEPT !.tasks = rest]]
    BY <1>2
  <2> QED
    BY <2>1, <1>1, Replaced
<1> HIDE DEF m
<1>6. SoundInv(kinds)'
  BY <1>2, <1>4, <1>5 DEF IInv, SoundInv, resets
<1>7. StampInv' /\ ResetInv'
  <2>1. old \in Cycles
    BY CyclesAreSound DEF IInv
  <2>2. old.stamp <= clock /\ old.stamp \in Nat
    BY <1>1, <2>1, SoundParts DEF IInv, StampInv
  <2>3. clock \in Nat /\ clock' \in Nat /\ clock <= clock'
    BY <1>2 DEF IInv, SoundInv
  <2>4. m.stamp <= clock'
    BY <1>4, <2>2, <2>3
  <2>5. Cycles' \subseteq Cycles \cup {m}
    BY <1>2, <1>5 DEF Cycles, IInv, SoundInv
  <2> QED
    BY <1>2, <1>4, <2>1, <2>3, <2>4, <2>5, CyclesGrow, ResetsStand DEF IInv
<1>8. LockInv' /\ AckedInv'
  BY <1>2 DEF IInv, LockInv, AckedInv
<1> QED
  BY <1>6, <1>7, <1>8 DEF IInv


\* A reset takes the file away, whoever holds the lock.
LEMMA ResetKeeps ==
  ASSUME NEW kinds, NoFile \notin CycleWith(kinds), IInv(kinds), NEW p \in Proc, Reset(p)
  PROVE  IInv(kinds)'
<1>1. /\ disk' = NoFile /\ mem' = [mem EXCEPT ![p] = Fresh]
      /\ acked' = {} /\ clock' = clock + 1 /\ resetAt' = clock'
      /\ spared' = {m.stamp : m \in Elsewhere(p)}
      /\ UNCHANGED <<pc, read>>
  BY DEF Reset, Store!Clear, Tick
<1>2. Fresh \in Sound(kinds) /\ Fresh.stamp = 0
  BY FreshIsSound
<1>3. clock \in Nat /\ clock' \in Nat /\ clock <= clock' /\ Fresh.stamp <= clock'
  BY <1>1, <1>2 DEF IInv, SoundInv
<1>4. SoundInv(kinds)'
  <2>1. Elsewhere(p) \subseteq Cycles /\ Cycles \subseteq Sound(kinds)
    BY CyclesAreSound DEF Elsewhere, Cycles, IInv
  <2>2. \A m \in Elsewhere(p) : m.stamp \in Nat
    BY <2>1, SoundParts
  <2>3. spared' \subseteq Nat
    BY <1>1, <2>2
  <2> QED
    BY <1>1, <1>2, <1>3, <2>3 DEF IInv, SoundInv
<1>5. Cycles' \subseteq Cycles \cup {Fresh}
  BY <1>1 DEF Cycles, IInv, SoundInv
<1>6. StampInv'
  BY <1>2, <1>3, <1>5, CyclesGrow DEF IInv
<1>7. LockInv' /\ AckedInv'
  BY <1>1 DEF IInv, LockInv, AckedInv
<1>8. ResetInv'
  <2>1. Cycles' \subseteq Elsewhere(p) \cup {Fresh}
    BY <1>1 DEF Cycles, Elsewhere, IInv, SoundInv
  <2>2. \A m \in Elsewhere(p) : m.stamp \in spared'
    BY <1>1
  <2>3. resetAt' <= clock' /\ resetAt' \in Nat
    BY <1>1, <1>3
  <2>4. Fresh.stamp \notin 1 .. resetAt'
    BY <1>2, <2>3
  <2> QED
    BY <2>1, <2>2, <2>3, <2>4 DEF ResetInv
<1> QED
  BY <1>4, <1>6, <1>7, <1>8 DEF IInv

LEMMA BootKeeps ==
  ASSUME NEW kinds, NoFile \notin CycleWith(kinds), IInv(kinds), NEW p \in Proc, Boot(p)
  PROVE  IInv(kinds)'
<1> DEFINE m == IF disk = NoFile THEN Fresh ELSE disk
<1>1. /\ pc[p] = "down" /\ mem' = [mem EXCEPT ![p] = m] /\ pc' = [pc EXCEPT ![p] = "idle"]
      /\ UNCHANGED <<read, disk, clock, resets, acked>>
  BY DEF Boot, Store!Boot, Quiet
<1>2. m \in Sound(kinds) /\ (m.stamp = 0 \/ m \in Cycles)
  BY FreshIsSound, CyclesAreSound DEF IInv, SoundInv
<1>3. m.stamp <= clock /\ clock \in Nat
  BY <1>2 DEF IInv, SoundInv, StampInv
<1> HIDE DEF m
<1>4. SoundInv(kinds)'
  BY <1>1, <1>2 DEF IInv, SoundInv, Store!PC, resets
<1>5. Cycles' \subseteq Cycles \cup {m}
  BY <1>1 DEF Cycles, IInv, SoundInv
<1>6. StampInv' /\ ResetInv'
  BY <1>1, <1>2, <1>3, <1>5, CyclesGrow, ResetsStand DEF IInv
<1>7. LockInv' /\ AckedInv'
  BY <1>1 DEF IInv, SoundInv, LockInv, AckedInv
<1> QED
  BY <1>4, <1>6, <1>7 DEF IInv

LEMMA CrashKeeps ==
  ASSUME NEW kinds, NoFile \notin CycleWith(kinds), IInv(kinds), NEW p \in Proc, Crash(p)
  PROVE  IInv(kinds)'
<1>1. /\ mem' = [mem EXCEPT ![p] = Fresh] /\ read' = [read EXCEPT ![p] = NoFile]
      /\ pc' = [pc EXCEPT ![p] = "down"]
      /\ UNCHANGED <<disk, clock, resets, acked>>
  BY DEF Crash, Store!Crash, Quiet
<1>2. Fresh \in Sound(kinds) /\ Fresh.stamp = 0
  BY FreshIsSound
<1>3. clock \in Nat /\ Fresh.stamp <= clock
  BY <1>2 DEF IInv, SoundInv
<1>4. SoundInv(kinds)'
  BY <1>1, <1>2 DEF IInv, SoundInv, Store!PC, resets
<1>5. Cycles' \subseteq Cycles \cup {Fresh}
  BY <1>1 DEF Cycles, IInv, SoundInv
<1>6. StampInv' /\ ResetInv'
  BY <1>1, <1>2, <1>3, <1>5, CyclesGrow, ResetsStand DEF IInv
<1>7. LockInv' /\ AckedInv'
  BY <1>1 DEF IInv, SoundInv, LockInv, AckedInv
<1> QED
  BY <1>4, <1>6, <1>7 DEF IInv

LEMMA LockAndReadKeeps ==
  ASSUME NEW kinds, NoFile \notin CycleWith(kinds), IInv(kinds), NEW p \in Proc,
         LockAndRead(p)
  PROVE  IInv(kinds)'
<1>1. /\ \A q \in Proc : pc[q] # "locked"
      /\ read' = [read EXCEPT ![p] = disk] /\ pc' = [pc EXCEPT ![p] = "locked"]
      /\ UNCHANGED <<mem, disk, clock, resets, acked>>
  BY DEF LockAndRead, Store!LockAndRead, Store!LockFree, Quiet
<1>2. SoundInv(kinds)'
  BY <1>1 DEF IInv, SoundInv, Store!PC, resets
<1>3. Cycles' \subseteq Cycles
  BY <1>1 DEF Cycles, IInv, SoundInv
<1>4. StampInv' /\ ResetInv'
  BY <1>1, <1>3 DEF IInv, StampInv, ResetInv, resets
<1>5. LockInv' /\ AckedInv'
  BY <1>1 DEF IInv, SoundInv, LockInv, AckedInv
<1> QED
  BY <1>2, <1>4, <1>5 DEF IInv

LEMMA ReadFailsKeeps ==
  ASSUME NEW kinds, NoFile \notin CycleWith(kinds), IInv(kinds), NEW p \in Proc,
         ReadFails(p)
  PROVE  IInv(kinds)'
<1>1. /\ \A q \in Proc : pc[q] # "locked"
      /\ read' = [read EXCEPT ![p] = NoFile] /\ pc' = [pc EXCEPT ![p] = "locked"]
      /\ UNCHANGED <<mem, disk, clock, resets, acked>>
  BY DEF ReadFails, Store!ReadFails, Store!LockFree, Quiet
<1>2. SoundInv(kinds)'
  BY <1>1 DEF IInv, SoundInv, Store!PC, resets
<1>3. Cycles' \subseteq Cycles
  BY <1>1 DEF Cycles, IInv, SoundInv
<1>4. StampInv' /\ ResetInv'
  BY <1>1, <1>3 DEF IInv, StampInv, ResetInv, resets
<1>5. LockInv' /\ AckedInv'
  BY <1>1 DEF IInv, SoundInv, LockInv, AckedInv
<1> QED
  BY <1>2, <1>4, <1>5 DEF IInv

LEMMA SaveFailsKeeps ==
  ASSUME NEW kinds, NoFile \notin CycleWith(kinds), IInv(kinds), NEW p \in Proc,
         SaveFails(p)
  PROVE  IInv(kinds)'
<1>1. /\ read' = [read EXCEPT ![p] = NoFile] /\ pc' = [pc EXCEPT ![p] = "idle"]
      /\ UNCHANGED <<mem, disk, clock, resets, acked>>
  BY DEF SaveFails, Store!SaveFails, Quiet
<1>2. SoundInv(kinds)'
  BY <1>1 DEF IInv, SoundInv, Store!PC, resets
<1>3. Cycles' \subseteq Cycles
  BY <1>1 DEF Cycles, IInv, SoundInv
<1>4. StampInv' /\ ResetInv'
  BY <1>1, <1>3 DEF IInv, StampInv, ResetInv, resets
<1>5. LockInv' /\ AckedInv'
  BY <1>1 DEF IInv, SoundInv, LockInv, AckedInv
<1> QED
  BY <1>2, <1>4, <1>5 DEF IInv

\* What a save puts on file: a sound cycle, no older than memory's or the file's, with
\* the ids of whichever of them it is a cycle of.
LEMMA SavedFacts ==
  ASSUME NEW kinds, NoFile \notin CycleWith(kinds), IInv(kinds), NEW p \in Proc,
         Store!RenameAndUnlock(p)
  PROVE  /\ disk' \in Sound(kinds) /\ disk' # NoFile
         /\ \E c \in Cycles : disk'.stamp = c.stamp /\ disk'.line = c.line
         /\ disk'.stamp = mem[p].stamp => Ids(mem[p].tasks) \subseteq Ids(disk'.tasks)
         /\ Store!Unread(p) => disk' = mem[p]
         /\ disk # NoFile /\ ~Store!Unread(p)
              => /\ disk'.stamp >= disk.stamp
                 /\ disk'.stamp = disk.stamp => Ids(disk.tasks) \subseteq Ids(disk'.tasks)
<1>1. /\ pc[p] = "locked"
      /\ disk' = IF read[p] = NoFile THEN mem[p] ELSE MergeStates(mem[p], read[p])
  BY DEF Store!RenameAndUnlock, Store!Saved
<1>2. mem[p] \in Sound(kinds) /\ mem[p] \in Cycles
  BY CyclesAreSound DEF IInv
<1>3. NoFile \notin Sound(kinds)
  BY DEF Sound
<1>4. disk # NoFile /\ ~Store!Unread(p) => read[p] = disk
  BY <1>1 DEF IInv, LockInv, Store!Unread
<1>5. CASE read[p] = NoFile
  BY <1>1, <1>2, <1>3, <1>4, <1>5 DEF Store!Unread
<1>6. CASE read[p] # NoFile
  <2> DEFINE d == read[p]
             r == MergeStates(mem[p], d)
  <2>1. d \in Sound(kinds) /\ d \in Cycles
    BY <1>6, CyclesAreSound DEF IInv, SoundInv
  <2>2. mem[p].stamp = d.stamp => mem[p].line = d.line
    BY <1>2, <2>1 DEF IInv, StampInv
  <2>3. /\ r \in Sound(kinds)
        /\ \/ r.stamp = mem[p].stamp /\ r.line = mem[p].line
           \/ r.stamp = d.stamp /\ r.line = d.line
        /\ r.stamp >= mem[p].stamp /\ r.stamp >= d.stamp
        /\ r.stamp = mem[p].stamp => Ids(mem[p].tasks) \subseteq Ids(r.tasks) /\ r.line = mem[p].line
        /\ r.stamp = d.stamp => Ids(d.tasks) \subseteq Ids(r.tasks)
    BY <1>2, <2>1, <2>2, MergeFacts
  <2> HIDE DEF r
  <2>4. disk' = r
    BY <1>1, <1>6 DEF r
  <2> QED
    BY <1>2, <1>3, <1>4, <1>6, <2>1, <2>3, <2>4 DEF Store!Unread
<1> QED
  BY <1>5, <1>6

LEMMA RenameKeeps ==
  ASSUME NEW kinds, NoFile \notin CycleWith(kinds), IInv(kinds), NEW p \in Proc,
         RenameAndUnlock(p)
  PROVE  IInv(kinds)'
<1>1. /\ pc[p] = "locked"
      /\ read' = [read EXCEPT ![p] = NoFile] /\ pc' = [pc EXCEPT ![p] = "idle"]
      /\ acked' = IF disk'.stamp # mem[p].stamp THEN acked
                  ELSE Promised(p) \cup {<<mem[p].stamp, mem[p].line, id>> : id \in Ids(mem[p].tasks)}
      /\ UNCHANGED <<mem, clock, resets>>
  BY DEF RenameAndUnlock, Store!RenameAndUnlock, Quiet
<1>2. /\ disk' \in Sound(kinds) /\ disk' # NoFile
      /\ \E c \in Cycles : disk'.stamp = c.stamp /\ disk'.line = c.line
      /\ disk'.stamp = mem[p].stamp => Ids(mem[p].tasks) \subseteq Ids(disk'.tasks)
      /\ Store!Unread(p) => disk' = mem[p]
      /\ disk # NoFile /\ ~Store!Unread(p)
           => /\ disk'.stamp >= disk.stamp
              /\ disk'.stamp = disk.stamp => Ids(disk.tasks) \subseteq Ids(disk'.tasks)
  BY SavedFacts DEF RenameAndUnlock
<1>3. /\ mem[p] \in Sound(kinds) /\ mem[p] \in Cycles
      /\ mem[p].stamp \in Nat /\ mem[p].line \in Nat
  BY CyclesAreSound, SoundParts DEF IInv
<1>4. acked' \subseteq Nat \X Nat \X TaskId
  <2>1. Ids(mem[p].tasks) \subseteq TaskId
    <3>1. mem[p].tasks \in Seq(TaskWith(kinds))
      BY <1>3 DEF Sound, CycleWith
    <3>2. \A i \in DOMAIN mem[p].tasks : mem[p].tasks[i] \in TaskWith(kinds)
      BY <3>1
    <3>3. \A t \in TaskWith(kinds) : t.id \in TaskId
      BY DEF TaskWith
    <3> QED
      BY <3>2, <3>3 DEF Ids
  <2> QED
    BY <1>1, <1>3, <2>1 DEF IInv, SoundInv, Promised
<1>5. SoundInv(kinds)'
  BY <1>1, <1>2, <1>4 DEF IInv, SoundInv, Store!PC, resets
<1>6. StampInv' /\ ResetInv'
  <2>1. PICK c \in Cycles : disk'.stamp = c.stamp /\ disk'.line = c.line
    BY <1>2
  <2>2. disk'.stamp <= clock' /\ clock' \in Nat /\ clock <= clock'
    BY <1>1, <2>1 DEF IInv, SoundInv, StampInv
  <2>3. Cycles' \subseteq Cycles \cup {disk'}
    BY <1>1 DEF Cycles, IInv, SoundInv
  <2> QED
    BY <1>1, <1>2, <2>1, <2>2, <2>3, CyclesGrow, ResetsStand DEF IInv
<1>7. LockInv'
  BY <1>1 DEF IInv, SoundInv, LockInv
<1>8. AckedInv'
  <2> SUFFICES ASSUME NEW a \in acked'
               PROVE  a[1] <= disk'.stamp /\ (a[1] = disk'.stamp => a[3] \in Ids(disk'.tasks))
    BY <1>2 DEF AckedInv
  <2>1. CASE a \in acked /\ ~Store!Unread(p)
    <3>1. disk # NoFile /\ a[1] <= disk.stamp /\ (a[1] = disk.stamp => a[3] \in Ids(disk.tasks))
      BY <2>1 DEF IInv, AckedInv
    <3>2. disk.stamp \in Nat /\ disk'.stamp \in Nat /\ a[1] \in Nat
      BY <1>2, <2>1, <3>1, SoundParts DEF IInv, SoundInv
    <3> QED
      BY <1>2, <2>1, <3>1, <3>2
  <2>2. CASE a \notin Promised(p)
    <3>1. disk'.stamp = mem[p].stamp
            /\ \E id \in Ids(mem[p].tasks) : a = <<mem[p].stamp, mem[p].line, id>>
      <4>1. a \notin acked \/ Store!Unread(p)
        BY <2>2 DEF Promised
      <4>2. disk'.stamp = mem[p].stamp
        BY <1>1, <1>2, <4>1
      <4> QED
        BY <1>1, <2>2, <4>2
    <3> QED
      BY <1>2, <1>3, <3>1
  <2> QED
    BY <2>1, <2>2 DEF Promised
<1> QED
  BY <1>5, <1>6, <1>7, <1>8 DEF IInv

LEMMA InitIInv ==
  ASSUME NEW kinds, Init
  PROVE  IInv(kinds)
<1>1. Fresh \in Sound(kinds) /\ Fresh.stamp = 0 /\ Fresh.line = 0
  BY FreshIsSound
<1>2. SoundInv(kinds)
  BY <1>1 DEF Init, SoundInv, Store!PC
<1>3. Cycles \subseteq {Fresh}
  BY DEF Init, Cycles
<1>4. StampInv
  BY <1>1, <1>3 DEF Init, StampInv
<1>5. LockInv /\ AckedInv
  BY DEF Init, LockInv, AckedInv
<1>6. ResetInv
  BY <1>1, <1>3 DEF Init, ResetInv
<1> QED
  BY <1>2, <1>4, <1>5, <1>6 DEF IInv

LEMMA StutterKeeps ==
  ASSUME NEW kinds, IInv(kinds), UNCHANGED vars
  PROVE  IInv(kinds)'
BY DEF IInv, SoundInv, StampInv, ResetInv, Cycles, LockInv, AckedInv, vars, resets


\* Every step keeps the invariant, whatever else may be recorded as a check.
LEMMA NextKeeps ==
  ASSUME NEW kinds, CheckKind \subseteq kinds, NoFile \notin CycleWith(kinds),
         IInv(kinds), [Next]_vars
  PROVE  IInv(kinds)'
<1>1. ASSUME NEW p \in Proc, \E m : Edited(kinds, p, m)
      PROVE  IInv(kinds)'
  BY <1>1, EditKeeps
<1>2. ASSUME NEW p \in Proc, SetObjective(p) \/ Finalize(p)
      PROVE  IInv(kinds)'
  BY <1>1, <1>2, SetObjectiveEdits, FinalizeEdits
<1>3. ASSUME NEW p \in Proc, NEW id \in TaskId,
             \/ AddTask(p, id) \/ RemoveTask(p, id)
             \/ \E after \in AfterId : ReorderTask(p, id, after)
             \/ ReorderTaskFirst(p, id)
             \/ StartTask(p, id) \/ CompleteTask(p, id) \/ BlockTask(p, id)
             \/ RecordAction(p, id)
             \/ \E kind \in CheckKind : RecordCheck(p, id, kind)
      PROVE  IInv(kinds)'
  <2>1. CASE AddTask(p, id)
    BY <1>1, <2>1, AddTaskEdits
  <2>2. CASE RemoveTask(p, id)
    BY <1>1, <2>2, RemoveTaskEdits
  <2>3. CASE ReorderTaskFirst(p, id) \/ \E after \in AfterId : ReorderTask(p, id, after)
    BY <1>1, <2>3, ReorderEdits
  <2>4. CASE StartTask(p, id) \/ CompleteTask(p, id) \/ BlockTask(p, id)
    BY <1>1, <2>4, StatusEdits
  <2>5. CASE RecordAction(p, id)
    BY <1>1, <2>5, RecordActionEdits
  <2>6. CASE \E kind \in CheckKind : RecordCheck(p, id, kind)
    BY <1>1, <2>6, RecordCheckEdits
  <2> QED
    BY <1>3, <2>1, <2>2, <2>3, <2>4, <2>5, <2>6
<1>4. ASSUME NEW p \in Proc, NEW id \in TaskId, NEW after \in AfterId,
             ReorderTaskFails(p, id, after)
      PROVE  IInv(kinds)'
  BY <1>4, ReorderFailsKeeps
<1>5. ASSUME NEW p \in Proc,
             \/ Reset(p) \/ Boot(p) \/ Crash(p) \/ LockAndRead(p) \/ RenameAndUnlock(p)
             \/ ReadFails(p) \/ SaveFails(p)
      PROVE  IInv(kinds)'
  BY <1>5, ResetKeeps, BootKeeps, CrashKeeps, LockAndReadKeeps, ReadFailsKeeps, RenameKeeps,
     SaveFailsKeeps
<1>6. CASE UNCHANGED vars
  BY <1>6, StutterKeeps
<1> QED
  BY <1>2, <1>3, <1>4, <1>5, <1>6 DEF Next

\* Only a rename puts anything on file.
LEMMA FileSteps ==
  ASSUME [Next]_vars
  PROVE  disk' \in {disk, NoFile} \/ \E p \in Proc : Store!RenameAndUnlock(p)
<1>1. ASSUME NEW p \in Proc, NEW m, Update(p, m)
      PROVE  disk' = disk
  BY <1>1 DEF Update, Store!Mutate
<1>2. ASSUME NEW p \in Proc,
             \/ SetObjective(p) \/ Finalize(p)
             \/ \E id \in TaskId :
                  \/ AddTask(p, id)
                  \/ \E after \in AfterId : ReorderTask(p, id, after)
                  \/ ReorderTaskFirst(p, id)
                  \/ StartTask(p, id) \/ CompleteTask(p, id) \/ BlockTask(p, id)
                  \/ RecordAction(p, id)
                  \/ \E kind \in CheckKind : RecordCheck(p, id, kind)
      PROVE  disk' = disk
  BY <1>1, <1>2 DEF SetObjective, Finalize, AddTask, ReorderTask, ReorderTaskFirst,
                    StartTask, CompleteTask, BlockTask, RecordAction, RecordCheck, SetTask
<1>3. ASSUME NEW p \in Proc, NEW id \in TaskId,
             RemoveTask(p, id) \/ \E after \in AfterId : ReorderTaskFails(p, id, after)
      PROVE  disk' = disk
  BY <1>3 DEF RemoveTask, ReorderTaskFails, Store!Mutate
<1>4. ASSUME NEW p \in Proc, Boot(p) \/ Crash(p) \/ LockAndRead(p) \/ ReadFails(p) \/ SaveFails(p)
      PROVE  disk' = disk
  BY <1>4 DEF Boot, Crash, LockAndRead, ReadFails, SaveFails, Store!Boot, Store!Crash,
              Store!LockAndRead, Store!ReadFails, Store!SaveFails
<1>5. ASSUME NEW p \in Proc, Reset(p)
      PROVE  disk' = NoFile
  BY <1>5 DEF Reset, Store!Clear
<1>6. ASSUME NEW p \in Proc, RenameAndUnlock(p)
      PROVE  Store!RenameAndUnlock(p)
  BY <1>6 DEF RenameAndUnlock
<1>7. CASE UNCHANGED vars
  BY <1>7 DEF vars
<1> QED
  BY <1>2, <1>3, <1>4, <1>5, <1>6, <1>7 DEF Next

-----------------------------------------------------------------------------
(* The theorems on the store.                                               *)

\* The inductive invariant holds in every reachable state.
THEOREM Invariance == Spec => []IInv(CheckKind)
<1>1. NoFile \notin CycleWith(CheckKind)
  BY NoFileAssumption DEF Cycle
<1>2. Init => IInv(CheckKind)
  BY InitIInv
<1>3. IInv(CheckKind) /\ [Next]_vars => IInv(CheckKind)'
  BY <1>1, NextKeeps
<1> QED
  BY <1>2, <1>3, PTL DEF Spec

\* Every variable keeps its type (ship/engine/mod.rs).
THEOREM TypeCorrect == Spec => []TypeOK
<1>1. IInv(CheckKind) => TypeOK
  BY DEF IInv, SoundInv, Sound, TypeOK, Cycle
<1> QED
  BY <1>1, Invariance, PTL

\* What a server was told is in the plan stays on file for as long as its cycle does
\* (merge_states).
THEOREM AckedTasksStay == Spec => []AckedTasksSurvive
<1>1. IInv(CheckKind) => AckedTasksSurvive
  BY DEF IInv, AckedInv, AckedTasksSurvive
<1> QED
  BY <1>1, Invariance, PTL

\* A fresh cycle has no task of the one before, wherever it is kept (set_objective).
THEOREM FreshCyclesAreFresh == Spec => []FreshCycleInheritsNothing
<1>1. IInv(CheckKind) => FreshCycleInheritsNothing
  <2> SUFFICES ASSUME IInv(CheckKind), NEW m \in Plans, NEW i \in DOMAIN m.tasks
               PROVE  m.tasks[i].born \in {0, m.line}
    BY DEF FreshCycleInheritsNothing
  <2>1. m \in Sound(CheckKind)
    BY DEF Plans, IInv, SoundInv
  <2>2. m.tasks[i] \in OwnTask(CheckKind, m.line, m.nextAction)
    BY <2>1, SoundParts
  <2> QED
    BY <2>2 DEF OwnTask
<1> QED
  BY <1>1, Invariance, PTL

\* The action id a server hands out is new to its plan (record_action, merge_states).
THEOREM ActionIdsAreFresh == Spec => []ActionCounterIsFresh
<1>1. IInv(CheckKind) => ActionCounterIsFresh
  <2> SUFFICES ASSUME IInv(CheckKind), NEW m \in Plans, NEW i \in DOMAIN m.tasks,
                      NEW n \in m.tasks[i].actions
               PROVE  n < m.nextAction
    BY DEF ActionCounterIsFresh
  <2>1. m \in Sound(CheckKind)
    BY DEF Plans, IInv, SoundInv
  <2>2. m.tasks[i] \in OwnTask(CheckKind, m.line, m.nextAction)
    BY <2>1, SoundParts
  <2> QED
    BY <2>2 DEF OwnTask
<1> QED
  BY <1>1, Invariance, PTL

\* Short of a reset and of a save that could not re-read the file, no stale server brings
\* an older cycle back to it (merge_states).
THEOREM OlderCyclesStayAway == Spec => CycleNeverRegresses
<1>1. IInv(CheckKind) /\ [Next]_vars
        => [disk # NoFile /\ disk' # NoFile
              => disk'.stamp >= disk.stamp \/ Store!Overwrites]_vars
  <2> SUFFICES ASSUME IInv(CheckKind), [Next]_vars, disk # NoFile, disk' # NoFile,
                      ~Store!Overwrites
               PROVE  disk'.stamp >= disk.stamp
    OBVIOUS
  <2>1. NoFile \notin CycleWith(CheckKind)
    BY NoFileAssumption DEF Cycle
  <2>2. disk.stamp \in Nat
    BY SoundParts DEF IInv, SoundInv
  <2>3. CASE disk' = disk
    BY <2>2, <2>3
  <2>4. CASE \E p \in Proc : Store!RenameAndUnlock(p)
    <3>1. PICK p \in Proc : Store!RenameAndUnlock(p)
      BY <2>4
    <3>2. ~Store!Unread(p)
      BY <3>1 DEF Store!Overwrites
    <3> QED
      BY <2>1, <3>1, <3>2, SavedFacts
  <2> QED
    BY <2>3, <2>4, FileSteps
<1> QED
  BY <1>1, Invariance, PTL DEF Spec, CycleNeverRegresses

\* A cycle that a reset removed comes back only by a server or a save that had it then
\* (Persistence::clear, merge_states).
THEOREM OnlyHoldersResurrect == Spec => []OnlyHoldersUndoAReset
<1>1. IInv(CheckKind) => OnlyHoldersUndoAReset
  BY DEF IInv, ResetInv, Cycles, OnlyHoldersUndoAReset
<1> QED
  BY <1>1, Invariance, PTL

-----------------------------------------------------------------------------
(* Checks as tasks.                                                         *)

Call == [stage : Stage, id : TaskId \cup {NoTask}, line : Nat \cup {-1}, proc : Proc]

\* The calls whose check is nobody's.
Unrecorded(j) == job[j].stage \in {"new", "running", "cancelled", "refused"}

\* What may be recorded on a plan, but for the call's own check.
Others(j) == (CheckKind \cup Job) \ {j}

CallInv ==
  /\ job \in [Job -> Call]
  /\ IInv(CheckKind \cup Job)
  /\ \A j \in Job : Unrecorded(j) => IInv(Others(j))

LEMMA WiderSequences ==
  ASSUME NEW A, NEW B, A \subseteq B
  PROVE  Seq(A) \subseteq Seq(B)
<1> SUFFICES ASSUME NEW s \in Seq(A)
             PROVE  s \in Seq(B)
  OBVIOUS
<1>1. s \in [1 .. Len(s) -> B] /\ Len(s) \in Nat
  OBVIOUS
<1> QED
  BY <1>1

LEMMA KindsOfCalls ==
  ASSUME NEW j \in Job
  PROVE  /\ CheckKind \subseteq Others(j)
         /\ NoFile \notin CycleWith(Others(j))
         /\ NoFile \notin CycleWith(CheckKind \cup Job)
<1>1. Others(j) \subseteq CheckKind \cup Job
  BY DEF Others
<1>2. TaskWith(Others(j)) \subseteq TaskWith(CheckKind \cup Job)
  BY <1>1 DEF TaskWith
<1>3. Seq(TaskWith(Others(j))) \subseteq Seq(TaskWith(CheckKind \cup Job))
  BY <1>2, WiderSequences
<1>4. CycleWith(Others(j)) \subseteq CycleWith(CheckKind \cup Job)
  BY <1>3 DEF CycleWith
<1> QED
  BY <1>4, JobAssumption DEF Others

\* A step that records no call's check.
LEMMA OtherStepKeeps ==
  ASSUME CallInv, [Next]_vars, job' \in [Job -> Call],
         \A j \in Job : Unrecorded(j)' => Unrecorded(j)
  PROVE  CallInv'
<1>1. ASSUME NEW j \in Job, Unrecorded(j)'
      PROVE  IInv(Others(j))'
  BY <1>1, KindsOfCalls, NextKeeps DEF CallInv
<1>2. IInv(CheckKind \cup Job)'
  BY JobAssumption, NextKeeps DEF CallInv
<1> QED
  BY <1>1, <1>2 DEF CallInv

\* The step that records k's.
LEMMA EndCheckKeeps ==
  ASSUME CallInv, NEW k \in Job, EndCheck(k)
  PROVE  CallInv'
<1> DEFINE p == job[k].proc
           id == Target(p, job[k].id)
           call == [job[k] EXCEPT !.stage = "recorded", !.id = id, !.line = mem[p].line]
<1>1. /\ job[k].stage = "running" /\ RecordCheck(p, id, k)
      /\ job' = [job EXCEPT ![k] = call]
  BY DEF EndCheck
<1>2. p \in Proc /\ mem[p].line \in Nat
  BY SoundParts DEF CallInv, Call, IInv, SoundInv
<1>3. id \in TaskId
  <2>1. TaskIndex(mem[p].tasks, id) # 0
    BY <1>1 DEF RecordCheck
  <2>2. /\ TaskIndex(mem[p].tasks, id) \in 1 .. Len(mem[p].tasks)
        /\ mem[p].tasks[TaskIndex(mem[p].tasks, id)].id = id
        /\ mem[p].tasks[TaskIndex(mem[p].tasks, id)]
             \in OwnTask(CheckKind \cup Job, mem[p].line, mem[p].nextAction)
    <3> DEFINE K == CheckKind \cup Job
               own == OwnTask(K, mem[p].line, mem[p].nextAction)
               tasks == mem[p].tasks
    <3>1. IInv(K)
      BY DEF CallInv
    <3> HIDE DEF K, id
    <3>2. TaskIndex(tasks, id) \in 1 .. Len(tasks) /\ tasks[TaskIndex(tasks, id)] \in own
      BY <3>1, <1>2, <2>1, NamedTask
    <3>3. tasks \in Seq(own)
      BY <3>1, <1>2, <2>1, NamedTask
    <3> HIDE DEF own, tasks
    <3>4. TaskIndex(tasks, id) # 0
      BY <2>1 DEF tasks
    <3>5. tasks[TaskIndex(tasks, id)].id = id
      BY <3>3, <3>4, IndexFacts
    <3> QED
      BY <3>2, <3>5 DEF tasks, own, K
  <2> QED
    BY <2>2 DEF OwnTask, TaskWith
<1>4. job' \in [Job -> Call] /\ \A j \in Job : j # k => job'[j] = job[j]
  <2>1. call \in Call
    BY <1>2, <1>3 DEF CallInv, Call, Stage
  <2> QED
    BY <1>1, <2>1 DEF CallInv
<1>5. job'[k].stage = "recorded"
  BY <1>1 DEF CallInv, Call
<1> HIDE DEF p, id, call
<1>6. IInv(CheckKind \cup Job)'
  BY <1>1, <1>2, JobAssumption, RecordCheckEdits, EditKeeps DEF CallInv
<1>7. ASSUME NEW j \in Job, Unrecorded(j)'
      PROVE  IInv(Others(j))'
  <2>1. j # k /\ Unrecorded(j) /\ k \in Others(j)
    BY <1>4, <1>5, <1>7 DEF Unrecorded, Others
  <2> QED
    BY <1>1, <1>2, <2>1, KindsOfCalls, RecordCheckEdits, EditKeeps DEF CallInv
<1> QED
  BY <1>4, <1>6, <1>7 DEF CallInv

LEMMA CallStepKeeps ==
  ASSUME CallInv, [NextC]_varsC
  PROVE  CallInv'
<1>1. ASSUME NEW p \in Proc, Plan(p) /\ UNCHANGED job
      PROVE  CallInv'
  <2>1. Next
    BY <1>1 DEF Plan, Next
  <2> QED
    BY <1>1, <2>1, OtherStepKeeps DEF CallInv, Unrecorded
<1>2. ASSUME NEW ids, Gone(ids)
      PROVE  /\ job' \in [Job -> Call]
             /\ \A j \in Job : Unrecorded(j)' => Unrecorded(j)
  <2>1. \A j \in Job : [job[j] EXCEPT !.line = -1] \in Call
                       /\ [job[j] EXCEPT !.line = -1].stage = job[j].stage
    BY DEF CallInv, Call
  <2> QED
    BY <1>2, <2>1 DEF Gone, CallInv, Unrecorded
<1>3. ASSUME NEW p \in Proc, NEW id \in TaskId, RemoveTask(p, id) /\ Gone({id})
      PROVE  CallInv'
  <2>1. Next
    BY <1>3 DEF Next
  <2> QED
    BY <1>2, <1>3, <2>1, OtherStepKeeps
<1>4. ASSUME NEW p \in Proc, Reset(p) /\ Gone(TaskId)
      PROVE  CallInv'
  <2>1. Next
    BY <1>4 DEF Next
  <2> QED
    BY <1>2, <1>4, <2>1, OtherStepKeeps
<1>5. ASSUME NEW end \in Stage, NEW J \in SUBSET Job, end \in {"completed", "lost", "refused", "cancelled"},
             end \in {"refused", "cancelled"} => \A j \in J : job[j].stage = "running",
             job' = [j \in Job |-> IF j \in J THEN [job[j] EXCEPT !.stage = end] ELSE job[j]]
      PROVE  /\ job' \in [Job -> Call]
             /\ \A j \in Job : Unrecorded(j)' => Unrecorded(j)
  <2>1. \A j \in Job : [job[j] EXCEPT !.stage = end] \in Call
                       /\ [job[j] EXCEPT !.stage = end].stage = end
    BY DEF CallInv, Call
  <2> QED
    BY <1>5, <2>1 DEF CallInv, Unrecorded
<1>6. ASSUME NEW p \in Proc, Answer(p)
      PROVE  CallInv'
  <2>1. Next
    BY <1>6 DEF Answer, Next
  <2>2. job' = [j \in Job |-> IF j \in Ours(p, "recorded") THEN [job[j] EXCEPT !.stage = "completed"]
                              ELSE job[j]]
          /\ Ours(p, "recorded") \in SUBSET Job /\ "completed" \in Stage
    BY <1>6 DEF Answer, Ours, Stage
  <2>3. job' \in [Job -> Call] /\ \A j \in Job : Unrecorded(j)' => Unrecorded(j)
    BY <2>2, <1>5
  <2> QED
    BY <2>1, <2>3, OtherStepKeeps
<1>7. ASSUME NEW p \in Proc, Die(p)
      PROVE  CallInv'
  <2>1. Next
    BY <1>7 DEF Die, Next
  <2> DEFINE J == Ours(p, "running") \cup Ours(p, "recorded")
  <2>2. job' = [j \in Job |-> IF j \in J THEN [job[j] EXCEPT !.stage = "lost"] ELSE job[j]]
          /\ J \in SUBSET Job /\ "lost" \in Stage
    BY <1>7 DEF Die, Ours, Stage
  <2> HIDE DEF J
  <2>3. job' \in [Job -> Call] /\ \A j \in Job : Unrecorded(j)' => Unrecorded(j)
    BY <2>2, <1>5
  <2> QED
    BY <2>1, <2>3, OtherStepKeeps
<1>8. ASSUME NEW p \in Proc, NEW j \in Job, NEW id \in TaskId \cup {NoTask}, StartCheck(p, j, id)
      PROVE  CallInv'
  <2> DEFINE call == [stage |-> "running", id |-> id, line |-> 0, proc |-> p]
  <2>1. job[j].stage = "new" /\ job' = [job EXCEPT ![j] = call] /\ UNCHANGED vars
    BY <1>8 DEF StartCheck
  <2>2. call \in Call
    BY DEF Call, Stage
  <2> HIDE DEF call
  <2>3. job' \in [Job -> Call] /\ \A k \in Job : Unrecorded(k)' => Unrecorded(k)
    BY <2>1, <2>2 DEF CallInv, Unrecorded
  <2> QED
    BY <2>1, <2>3, OtherStepKeeps
<1>9. ASSUME NEW j \in Job, EndCheck(j)
      PROVE  CallInv'
  BY <1>9, EndCheckKeeps
<1>10. ASSUME NEW j \in Job, EndCheckRefused(j) \/ Cancel(j)
       PROVE  CallInv'
  <2>1. PICK end \in {"refused", "cancelled"} : Settle(j, end)
    BY <1>10 DEF EndCheckRefused, Cancel
  <2>2. job[j].stage = "running" /\ UNCHANGED vars
    BY <1>10 DEF EndCheckRefused, Cancel
  <2>3. job' = [k \in Job |-> IF k \in {j} THEN [job[k] EXCEPT !.stage = end] ELSE job[k]]
    BY <2>1 DEF Settle, CallInv
  <2>4. end \in Stage /\ {j} \in SUBSET Job
    BY DEF Stage
  <2>5. job' \in [Job -> Call] /\ \A k \in Job : Unrecorded(k)' => Unrecorded(k)
    BY <2>2, <2>3, <2>4, <1>5
  <2> QED
    BY <2>2, <2>5, OtherStepKeeps
<1>11. CASE UNCHANGED varsC
  <2>1. UNCHANGED vars /\ UNCHANGED job
    BY <1>11 DEF varsC
  <2> QED
    BY <2>1, OtherStepKeeps DEF CallInv, Unrecorded
<1> QED
  BY <1>1, <1>3, <1>4, <1>6, <1>7, <1>8, <1>9, <1>10, <1>11 DEF NextC

LEMMA InitCallInv ==
  ASSUME InitC
  PROVE  CallInv
<1>1. job \in [Job -> Call]
  <2>1. (CHOOSE p \in Proc : TRUE) \in Proc
    BY JobAssumption
  <2>2. NoJob \in Call
    BY <2>1 DEF NoJob, Call, Stage
  <2> HIDE DEF NoJob
  <2> QED
    BY <2>2 DEF InitC
<1>2. \A kinds : IInv(kinds)
  BY InitIInv DEF InitC
<1> QED
  BY <1>1, <1>2 DEF CallInv

THEOREM CallInvariance == SpecC => []CallInv
<1>1. InitC => CallInv
  BY InitCallInv
<1>2. CallInv /\ [NextC]_varsC => CallInv'
  BY CallStepKeeps
<1> QED
  BY <1>1, <1>2, PTL DEF SpecC

\* A check that was cancelled or refused is in no plan, whenever its command ended
\* (mcp/tasks.rs, ship/mcp/handlers.rs).
THEOREM CancelledStaysOut == SpecC => []CancelledIsNeverRecorded
<1>1. CallInv => CancelledIsNeverRecorded
  <2> SUFFICES ASSUME CallInv, NEW j \in Job, job[j].stage \in {"cancelled", "refused"},
                      NEW m \in Plans, NEW i \in DOMAIN m.tasks
               PROVE  j \notin m.tasks[i].checks
    BY DEF CancelledIsNeverRecorded
  <2>1. IInv(Others(j))
    BY DEF CallInv, Unrecorded
  <2>2. m \in Sound(Others(j))
    BY <2>1 DEF Plans, IInv, SoundInv
  <2>3. m.tasks[i] \in OwnTask(Others(j), m.line, m.nextAction)
    BY <2>2, SoundParts
  <2> QED
    BY <2>3 DEF OwnTask, TaskWith, Others
<1> QED
  BY <1>1, CallInvariance, PTL

-----------------------------------------------------------------------------
(* One server alone on its store.                                           *)

Alone == \A p, q \in Proc : p = q

\* At most one of these tasks is active, and no two share an action.
Apart(t, u) == t.actions \cap u.actions = {}

Orderly(tasks) ==
  /\ \A i, k \in DOMAIN tasks : tasks[i].status = "active" /\ tasks[k].status = "active" => i = k
  /\ \A i, k \in DOMAIN tasks : i # k => Apart(tasks[i], tasks[k])

\* The task a caller finds under that id has j's check.
HoldsCheck(tasks, id, j) ==
  \E i \in DOMAIN tasks : /\ tasks[i].id = id /\ j \in tasks[i].checks
                          /\ \A k \in 1 .. i - 1 : tasks[k].id # id

\* The tasks on file that memory has not: those it has removed.
Left(m, d) == {i \in DOMAIN d.tasks : d.tasks[i].id \notin Ids(m.tasks)}

\* The cycle d is m's or an older one; what a merge of m takes from it goes with m's plan.
Follows(m, d) ==
  /\ d.stamp <= m.stamp
  /\ d.stamp = m.stamp =>
       /\ d.nextAction <= m.nextAction
       /\ \A i \in Left(m, d) : /\ d.tasks[i].status # "active"
                                /\ \A k \in DOMAIN m.tasks : Apart(d.tasks[i], m.tasks[k])

\* The cycle d is m, but for what it has beyond m's plan.
Agrees(m, d) ==
  /\ d.stamp = m.stamp
  /\ \A i \in DOMAIN m.tasks : i \in DOMAIN d.tasks /\ d.tasks[i] = m.tasks[i]
  /\ \A i \in DOMAIN d.tasks : i \in DOMAIN m.tasks \/ i \in Left(m, d)

\* A cycle of the past.
Current(m) == m.line <= clock

\* A cycle with what was acknowledged or answered of it.
Honours(m) ==
  /\ \A a \in acked : a[2] = m.line => a[3] \in Ids(m.tasks)
  /\ \A j \in Job : job[j].stage = "completed" /\ job[j].line = m.line
       => HoldsCheck(m.tasks, job[j].id, j)

Good(m) == Current(m) /\ Orderly(m.tasks) /\ Honours(m)

Up == {p \in Proc : pc[p] # "down"}

\* History is of the past.
HistoryInv ==
  /\ \A a \in acked : a[2] <= clock
  /\ \A j \in Job : job[j].line <= clock

GoodInv ==
  /\ \A p \in Up : Good(mem[p])
  /\ disk # NoFile => Good(disk)

\* The file is the server's own.
FileInv ==
  \A p \in Up : /\ pc[p] = "locked" => read[p] = disk
                /\ disk # NoFile => Follows(mem[p], disk)
                /\ disk # NoFile /\ pc[p] = "idle" => Agrees(mem[p], disk)

\* A call whose save is under way has its check in memory; one that is answered went to a
\* task, and if nobody removed that there is a file.
RecordInv ==
  \A j \in Job :
    /\ job[j].stage = "recorded" =>
         LET p == job[j].proc IN /\ pc[p] \in {"saving", "locked"}
                                 /\ mem[p].line = job[j].line
                                 /\ HoldsCheck(mem[p].tasks, job[j].id, j)
    /\ job[j].stage = "completed" => job[j].id \in TaskId
    /\ job[j].stage = "completed" /\ job[j].line # -1 => disk # NoFile

AloneInv == HistoryInv /\ GoodInv /\ FileInv /\ RecordInv

\* The task a call names is the first of that id.
LEMMA FirstIndex ==
  ASSUME NEW A, NEW s \in Seq(A), NEW id, TaskIndex(s, id) # 0
  PROVE  \A k \in 1 .. TaskIndex(s, id) - 1 : s[k].id # id
<1> DEFINE I == {i \in 1 .. Len(s) : s[i].id = id}
<1>1. TaskIndex(s, id) = IF I # {} THEN Min(I) ELSE 0
  BY DEF TaskIndex, SelectInSeq
<1>2. I \in SUBSET Nat /\ Len(s) \in Nat
  OBVIOUS
<1>3. I # {} /\ TaskIndex(s, id) = Min(I)
  BY <1>1
<1>4. TaskIndex(s, id) \in I /\ \A x \in I : TaskIndex(s, id) <= x
  BY <1>2, <1>3, MinFacts
<1> DEFINE first == TaskIndex(s, id)
<1> HIDE DEF first
<1> SUFFICES ASSUME NEW k \in 1 .. first - 1
             PROVE  s[k].id # id
  BY DEF first
<1>5. first \in I /\ \A x \in I : first <= x
  BY <1>4 DEF first
<1>6. k \in 1 .. Len(s) /\ ~(first <= k)
  BY <1>2, <1>5
<1> QED
  BY <1>5, <1>6

\* A merge's tasks: memory's stay where they are, and each of the others is a task of
\* the file that memory does not have, from a place of its own.
Joins(u, s, t) ==
  /\ \A i \in DOMAIN s : i \in DOMAIN u /\ u[i] = s[i]
  /\ \E f \in [DOMAIN u \ DOMAIN s -> {i \in DOMAIN t : t[i].id \notin Ids(s)}] :
       /\ \A k \in DOMAIN u \ DOMAIN s : u[k] = t[f[k]]
       /\ \A k, l \in DOMAIN u \ DOMAIN s : k # l => f[k] # f[l]

\* A merge joins the file's tasks to memory's (merge_states).
LEMMA UnionPlaces ==
  ASSUME NEW A, NEW s \in Seq(A), NEW t \in Seq(A)
  PROVE  UnionById(s, t) \in Seq(A) /\ Joins(UnionById(s, t), s, t)
<1> DEFINE I == {i \in DOMAIN t : t[i].id \notin Ids(s) \cup Ids(SubSeq(t, 1, i - 1))}
           more == Picked(t, I)
           n == Len(s)
           C == Cardinality(I)
           u == s \o more
           new == DOMAIN u \ DOMAIN s
           f == [k \in new |-> At(I, k - n)]
<1>1. /\ n \in Nat /\ DOMAIN s = 1 .. n
      /\ Len(t) \in Nat /\ DOMAIN t = 1 .. Len(t)
  OBVIOUS
<1>2. UnionById(s, t) = u
  BY DEF UnionById
<1>3. I \in SUBSET (1 .. Len(t)) /\ I \subseteq {i \in DOMAIN t : t[i].id \notin Ids(s)}
  BY <1>1
<1>4. more \in Seq(A)
  BY <1>3, PickedFacts
<1>5. /\ C \in Nat
      /\ \A r \in 1 .. C : At(I, r) \in I
      /\ \A q, r \in 1 .. C : q < r => At(I, q) < At(I, r)
  <2> HIDE DEF I
  <2>1. /\ C \in 0 .. Len(t)
        /\ \A r \in 1 .. C : At(I, r) \in I
        /\ \A q, r \in 1 .. C : q < r => At(I, q) < At(I, r)
    BY <1>1, <1>3, CountingOff
  <2> QED
    BY <1>1, <2>1
<1>6. DOMAIN more = 1 .. C /\ \A r \in 1 .. C : more[r] = t[At(I, r)]
  BY DEF Picked
<1> HIDE DEF I, C, n, more
<1>7. Len(more) = C
  BY <1>4, <1>5, <1>6
<1>8. /\ u \in Seq(A) /\ DOMAIN u = 1 .. n + C
      /\ \A i \in 1 .. n : u[i] = s[i]
      /\ \A i \in 1 .. C : u[n + i] = more[i]
  <2> HIDE DEF u
  <2>1. u = s \o more
    BY DEF u
  <2>2. /\ s \o more \in Seq(A)
        /\ DOMAIN (s \o more) = 1 .. Len(s) + Len(more)
        /\ \A i \in 1 .. Len(s) : (s \o more)[i] = s[i]
        /\ \A i \in 1 .. Len(more) : (s \o more)[Len(s) + i] = more[i]
    BY <1>4, Concatenated
  <2>3. n = Len(s)
    BY DEF n
  <2> QED
    BY <1>7, <2>1, <2>2, <2>3
<1> HIDE DEF u
<1>9. /\ \A k \in new : k - n \in 1 .. C /\ k = n + (k - n)
      /\ \A i \in 1 .. n : i \in 1 .. n + C
  BY <1>1, <1>5, <1>8, Indices
<1> HIDE DEF new
<1>10. f \in [new -> {i \in DOMAIN t : t[i].id \notin Ids(s)}]
  BY <1>3, <1>5, <1>9
<1>11. \A k \in new : u[k] = t[f[k]]
  BY <1>6, <1>8, <1>9
<1>12. ASSUME NEW k \in new, NEW l \in new, k # l
       PROVE  f[k] # f[l]
  <2>1. k - n \in 1 .. C /\ l - n \in 1 .. C /\ k - n # l - n
    BY <1>9, <1>12
  <2>2. /\ k - n < l - n \/ l - n < k - n
        /\ At(I, k - n) \in Nat /\ At(I, l - n) \in Nat
    BY <1>3, <1>5, <2>1
  <2>3. At(I, k - n) # At(I, l - n)
    BY <1>5, <2>1, <2>2
  <2> QED
    BY <2>3
<1> HIDE DEF f
<1>13. \E g \in [new -> {i \in DOMAIN t : t[i].id \notin Ids(s)}] :
         /\ \A k \in new : u[k] = t[g[k]]
         /\ \A k, l \in new : k # l => g[k] # g[l]
  BY <1>10, <1>11, <1>12
<1>14. \A i \in DOMAIN s : i \in DOMAIN u /\ u[i] = s[i]
  BY <1>1, <1>8, <1>9
<1>15. u \in Seq(A)
  BY <1>8
<1> HIDE DEF u
<1>16. Joins(u, s, t)
  BY <1>13, <1>14 DEF Joins, new
<1> QED
  BY <1>2, <1>15, <1>16

\* A plan whose tasks keep their places and ids, and lose no check.
LEMMA ChecksStay ==
  ASSUME NEW A, NEW s \in Seq(A), NEW t \in Seq(A),
         \A i \in DOMAIN s : i \in DOMAIN t /\ t[i].id = s[i].id /\ s[i].checks \subseteq t[i].checks
  PROVE  /\ Ids(s) \subseteq Ids(t)
         /\ \A id, j : HoldsCheck(s, id, j) => HoldsCheck(t, id, j)
<1>1. Ids(s) \subseteq Ids(t)
  BY DEF Ids
<1>2. ASSUME NEW id, NEW j, HoldsCheck(s, id, j)
      PROVE  HoldsCheck(t, id, j)
  <2>1. PICK i \in DOMAIN s : /\ s[i].id = id /\ j \in s[i].checks
                              /\ \A k \in 1 .. i - 1 : s[k].id # id
    BY <1>2 DEF HoldsCheck
  <2>2. \A k \in 1 .. i - 1 : k \in DOMAIN s
    OBVIOUS
  <2> QED
    BY <2>1, <2>2 DEF HoldsCheck
<1> QED
  BY <1>1, <1>2

\* An edit of the plan s, the number of whose next action is n, that takes no task out.
Grown(s, t, n) ==
  /\ Orderly(t)
  /\ \A i \in DOMAIN s : i \in DOMAIN t /\ t[i].id = s[i].id /\ s[i].checks \subseteq t[i].checks
  /\ \A k \in DOMAIN t : \/ t[k].actions \subseteq {n}
                         \/ \E i \in DOMAIN s : t[k].actions \subseteq s[i].actions \cup {n}

LEMMA GrownBySet ==
  ASSUME NEW A, NEW s \in Seq(A), Orderly(s), NEW i \in DOMAIN s, NEW n,
         \A k \in DOMAIN s : n \notin s[k].actions,
         NEW task \in A, task.id = s[i].id, s[i].checks \subseteq task.checks,
         task.actions \subseteq s[i].actions \cup {n},
         task.status = "active" => s[i].status = "active" \/ Active(s) = {}
  PROVE  Grown(s, [s EXCEPT ![i] = task], n)
<1> DEFINE t == [s EXCEPT ![i] = task]
<1>1. /\ DOMAIN t = DOMAIN s /\ t[i] = task
      /\ \A k \in DOMAIN s : k # i => t[k] = s[k]
  OBVIOUS
<1> HIDE DEF t
<1>2. ASSUME NEW k \in DOMAIN t, NEW l \in DOMAIN t, t[k].status = "active", t[l].status = "active"
      PROVE  k = l
  BY <1>1, <1>2 DEF Orderly, Active
<1>3. ASSUME NEW k \in DOMAIN t, NEW l \in DOMAIN t, k # l
      PROVE  Apart(t[k], t[l])
  BY <1>1, <1>3 DEF Orderly, Apart
<1> QED
  BY <1>1, <1>2, <1>3 DEF Grown, Orderly

LEMMA GrownByAdd ==
  ASSUME NEW A, NEW s \in Seq(A), Orderly(s), NEW n,
         NEW task \in A, task.actions = {}, task.status # "active"
  PROVE  Grown(s, Append(s, task), n)
<1> DEFINE t == Append(s, task)
           new == Len(s) + 1
<1>1. /\ \A k \in DOMAIN t : k \in DOMAIN s \/ k = new
      /\ t[new] = task
      /\ \A k \in DOMAIN s : k \in DOMAIN t /\ t[k] = s[k]
  OBVIOUS
<1> HIDE DEF t, new
<1>2. ASSUME NEW k \in DOMAIN t, NEW l \in DOMAIN t, t[k].status = "active", t[l].status = "active"
      PROVE  k = l
  BY <1>1, <1>2 DEF Orderly
<1>3. ASSUME NEW k \in DOMAIN t, NEW l \in DOMAIN t, k # l
      PROVE  Apart(t[k], t[l])
  BY <1>1, <1>3 DEF Orderly, Apart
<1> QED
  BY <1>1, <1>2, <1>3 DEF Grown, Orderly, t

LEMMA GrownByNothing ==
  ASSUME NEW s, Orderly(s), NEW n
  PROVE  Grown(s, s, n)
BY DEF Grown

\* A plan with one task taken out.
LEMMA PlanWithout ==
  ASSUME NEW A, NEW s \in Seq(A), NEW i \in 1 .. Len(s)
  PROVE  LET t == RemoveAt(s, i) IN
         /\ t \in Seq(A)
         /\ \A k \in DOMAIN t : \/ k < i /\ t[k] = s[k] /\ k \in DOMAIN s
                                \/ ~(k < i) /\ t[k] = s[k + 1] /\ k + 1 \in DOMAIN s
         /\ \A l \in DOMAIN s : /\ l < i => l \in DOMAIN t /\ t[l] = s[l]
                                /\ l > i => l - 1 \in DOMAIN t /\ t[l - 1] = s[l]
<1> DEFINE front == SubSeq(s, 1, i - 1)
           back == SubSeq(s, i + 1, Len(s))
           n == Len(s)
           m == i - 1
<1>1. n \in Nat /\ DOMAIN s = 1 .. n /\ i \in 1 .. n /\ m \in Nat /\ n - i \in Nat
  OBVIOUS
<1>2. /\ front \in Seq(A) /\ Len(front) = m /\ \A k \in 1 .. m : front[k] = s[k]
      /\ back \in Seq(A) /\ Len(back) = n - i /\ \A k \in 1 .. n - i : back[k] = s[i + k]
  <2>1. front \in Seq(A) /\ Len(front) = m /\ \A k \in 1 .. m : front[k] = s[k]
    BY <1>1
  <2>2. back \in Seq(A) /\ Len(back) = n - i
    <3>1. back \in Seq(A)
      BY <1>1
    <3>2. back = [k \in 1 .. n - i |-> s[(i + 1) + k - 1]]
      BY <1>1
    <3>3. DOMAIN back = 1 .. n - i
      BY <3>2
    <3> HIDE DEF back, n
    <3> QED
      BY <1>1, <3>1, <3>3
  <2>3. \A k \in 1 .. n - i : back[k] = s[i + k]
    BY <1>1
  <2> QED
    BY <2>1, <2>2, <2>3
<1>3. RemoveAt(s, i) = front \o back
  BY DEF RemoveAt
<1> HIDE DEF front, back, n
<1> DEFINE t == front \o back
<1>4. /\ t \in Seq(A) /\ Len(t) = m + (n - i)
      /\ \A k \in 1 .. m : t[k] = front[k]
      /\ \A k \in 1 .. n - i : t[m + k] = back[k]
  <2>1. /\ t \in Seq(A) /\ Len(t) = Len(front) + Len(back)
        /\ \A k \in 1 .. Len(front) : t[k] = front[k]
        /\ \A k \in 1 .. Len(back) : t[Len(front) + k] = back[k]
    <3>1. front \in Seq(A) /\ back \in Seq(A)
      BY <1>2
    <3> HIDE DEF m
    <3> QED
      BY <3>1, Concatenated
  <2> HIDE DEF t, m
  <2> QED
    BY <1>2, <2>1
<1>5. DOMAIN t = 1 .. n - 1
  BY <1>1, <1>4
<1> HIDE DEF t
<1>6. ASSUME NEW k \in 1 .. n, k < i
      PROVE  k \in DOMAIN t /\ t[k] = s[k]
  <2>1. k \in 1 .. m /\ k \in 1 .. n - 1
    BY <1>1, <1>6
  <2>2. t[k] = front[k] /\ front[k] = s[k]
    BY <2>1, <1>2, <1>4
  <2> QED
    BY <2>1, <2>2, <1>5
<1>7. ASSUME NEW k \in 1 .. n, k > i
      PROVE  k - 1 \in DOMAIN t /\ t[k - 1] = s[k]
  <2>1. k - i \in 1 .. n - i /\ m + (k - i) = k - 1 /\ i + (k - i) = k /\ k - 1 \in 1 .. n - 1
    BY <1>1, <1>7
  <2>2. t[m + (k - i)] = back[k - i] /\ back[k - i] = s[i + (k - i)]
    BY <2>1, <1>2, <1>4
  <2> QED
    BY <2>1, <2>2, <1>5
<1>8. ASSUME NEW k \in DOMAIN t
      PROVE  \/ k < i /\ t[k] = s[k] /\ k \in 1 .. n
             \/ ~(k < i) /\ t[k] = s[k + 1] /\ k + 1 \in 1 .. n
  <2>1. k \in 1 .. n /\ k + 1 \in 1 .. n /\ (k + 1) - 1 = k /\ (~(k < i) => k + 1 > i)
    BY <1>1, <1>5
  <2>2. k < i => t[k] = s[k]
    BY <2>1, <1>6
  <2>3. ~(k < i) => t[(k + 1) - 1] = s[k + 1]
    BY <2>1, <1>7
  <2> QED
    BY <2>1, <2>2, <2>3
<1> QED
  BY <1>1, <1>3, <1>4, <1>6, <1>7, <1>8 DEF t

LEMMA RemovalKeeps ==
  ASSUME NEW A, NEW s \in Seq(A), NEW i \in 1 .. Len(s)
  PROVE  LET t == RemoveAt(s, i) IN
         /\ Orderly(s) => Orderly(t)
         /\ \A k \in DOMAIN t : \E l \in DOMAIN s : l # i /\ t[k] = s[l]
         /\ \A l \in DOMAIN s : l # i => s[l].id \in Ids(t)
         /\ Ids(s) \subseteq Ids(t) \cup {s[i].id} /\ Ids(t) \subseteq Ids(s)
         /\ \A id, j : id # s[i].id /\ HoldsCheck(s, id, j) => HoldsCheck(t, id, j)
<1> DEFINE t == RemoveAt(s, i)
           f == [k \in DOMAIN t |-> IF k < i THEN k ELSE k + 1]
<1>1. /\ Len(s) \in Nat /\ DOMAIN s = 1 .. Len(s) /\ i \in Nat
      /\ t \in Seq(A) /\ Len(t) \in Nat /\ DOMAIN t = 1 .. Len(t)
  <2>1. t \in Seq(A)
    BY PlanWithout
  <2> HIDE DEF t
  <2> QED
    BY <2>1
<1>2. /\ \A k \in DOMAIN t : \/ k < i /\ t[k] = s[k] /\ k \in DOMAIN s
                             \/ ~(k < i) /\ t[k] = s[k + 1] /\ k + 1 \in DOMAIN s
      /\ \A l \in DOMAIN s : /\ l < i => l \in DOMAIN t /\ t[l] = s[l]
                             /\ l > i => l - 1 \in DOMAIN t /\ t[l - 1] = s[l]
  BY PlanWithout
<1> HIDE DEF t
<1>3. \A k \in DOMAIN t : f[k] \in DOMAIN s /\ f[k] # i /\ t[k] = s[f[k]]
  BY <1>1, <1>2
<1>4. \A k, l \in DOMAIN t : k # l => f[k] # f[l]
  BY <1>1
<1>5. ASSUME NEW l \in DOMAIN s, l # i
      PROVE  \E k \in DOMAIN t : f[k] = l
  <2>1. CASE l < i
    BY <2>1, <1>2
  <2>2. CASE l > i
    BY <2>2, <1>1, <1>2
  <2> QED
    BY <2>1, <2>2, <1>1, <1>5
<1>6. \A k, l \in DOMAIN t : k < l => f[k] < f[l]
  BY <1>1
<1>7. \A k \in DOMAIN t : f[k] \in Nat
  BY <1>1, <1>3
<1> HIDE DEF f
<1>8. Orderly(s) => Orderly(t)
  BY <1>3, <1>4 DEF Orderly
<1>9. \A l \in DOMAIN s : l # i => s[l].id \in Ids(t)
  <2> SUFFICES ASSUME NEW l \in DOMAIN s, l # i
               PROVE  s[l].id \in Ids(t)
    OBVIOUS
  <2>1. PICK k \in DOMAIN t : f[k] = l
    BY <1>5
  <2> QED
    BY <2>1, <1>3 DEF Ids
<1>10. Ids(s) \subseteq Ids(t) \cup {s[i].id} /\ Ids(t) \subseteq Ids(s)
  <2>1. Ids(t) \subseteq Ids(s)
    BY <1>3 DEF Ids
  <2>2. Ids(s) \subseteq Ids(t) \cup {s[i].id}
    BY <1>9 DEF Ids
  <2> QED
    BY <2>1, <2>2
<1>11. ASSUME NEW id, NEW j, id # s[i].id, HoldsCheck(s, id, j)
       PROVE  HoldsCheck(t, id, j)
  <2>1. PICK x \in DOMAIN s : /\ s[x].id = id /\ j \in s[x].checks
                              /\ \A k \in 1 .. x - 1 : s[k].id # id
    BY <1>11 DEF HoldsCheck
  <2>2. PICK y \in DOMAIN t : f[y] = x
    BY <2>1, <1>5, <1>11
  <2>3. \A k \in 1 .. y - 1 : t[k].id # id
    <3> SUFFICES ASSUME NEW k \in 1 .. y - 1
                 PROVE  t[k].id # id
      OBVIOUS
    <3>1. k \in DOMAIN t /\ k < y
      BY <1>1
    <3>2. f[k] < x /\ f[k] \in DOMAIN s /\ t[k] = s[f[k]] /\ x \in Nat
      BY <3>1, <2>2, <1>1, <1>3, <1>6
    <3>3. f[k] \in 1 .. x - 1
      BY <3>2, <1>1
    <3> QED
      BY <3>2, <3>3, <2>1
  <2> QED
    BY <2>1, <2>2, <2>3, <1>3 DEF HoldsCheck
<1> QED
  BY <1>3, <1>8, <1>9, <1>10, <1>11 DEF t

\* What is known of cycles.
LEMMA CycleFacts ==
  ASSUME CallInv
  PROVE  /\ clock \in Nat /\ acked \subseteq Nat \X Nat \X TaskId
         /\ \A p \in Proc :
              /\ mem[p].stamp \in Nat /\ mem[p].stamp <= clock
              /\ mem[p].line \in Nat /\ mem[p].nextAction \in Nat
              /\ mem[p].tasks \in Seq(OwnTask(CheckKind \cup Job, mem[p].line, mem[p].nextAction))
         /\ disk # NoFile =>
              /\ disk.stamp \in Nat /\ disk.stamp <= clock
              /\ disk.line \in Nat /\ disk.nextAction \in Nat
              /\ disk.tasks \in Seq(OwnTask(CheckKind \cup Job, disk.line, disk.nextAction))
              /\ \A p \in Proc : mem[p].stamp = disk.stamp => mem[p].line = disk.line
         /\ \A a \in acked : disk # NoFile
         /\ \A j \in Job : job[j].proc \in Proc /\ job[j].line \in Nat \cup {-1}
<1> DEFINE K == CheckKind \cup Job
<1>1. IInv(K) /\ NoFile \notin CycleWith(K) /\ job \in [Job -> Call]
  BY JobAssumption DEF CallInv
<1>2. /\ Cycles \subseteq Sound(K)
      /\ \A p \in Proc : mem[p] \in Cycles /\ mem[p] \in Sound(K)
      /\ disk # NoFile => disk \in Cycles
  BY <1>1, CyclesAreSound DEF IInv
<1>3. \A m \in Cycles : /\ m.stamp \in Nat /\ m.line \in Nat /\ m.nextAction \in Nat
                        /\ m.tasks \in Seq(OwnTask(K, m.line, m.nextAction))
  BY <1>2, SoundParts
<1>4. /\ \A m \in Cycles : m.stamp <= clock
      /\ \A m, n \in Cycles : m.stamp = n.stamp => m.line = n.line
  BY <1>1 DEF IInv, StampInv
<1>5. clock \in Nat /\ acked \subseteq Nat \X Nat \X TaskId
  BY <1>1 DEF IInv, SoundInv
<1>6. \A a \in acked : disk # NoFile
  BY <1>1 DEF IInv, AckedInv
<1>7. \A j \in Job : job[j].proc \in Proc /\ job[j].line \in Nat \cup {-1}
  BY <1>1 DEF Call
<1> QED
  BY <1>2, <1>3, <1>4, <1>5, <1>6, <1>7

\* No action of the plan has the number of its next one.
LEMMA NextIsNew ==
  ASSUME NEW kinds, NEW line, NEW n \in Nat, NEW k \in Nat, k <= n,
         NEW s \in Seq(OwnTask(kinds, line, k))
  PROVE  \A i \in DOMAIN s : n \notin s[i].actions
<1>1. \A i \in DOMAIN s : s[i] \in OwnTask(kinds, line, k)
  OBVIOUS
<1>2. \A i \in DOMAIN s : s[i].actions \subseteq Nat /\ \A x \in s[i].actions : x < k
  BY <1>1 DEF OwnTask, TaskWith
<1> QED
  BY <1>2

\* A call that edits the plan of its cycle and takes nothing out; it may be the one that
\* records a check.
GrownTo(p, m) ==
  /\ Store!Mutate(p, m) /\ clock' = clock + 1 /\ resets' = resets /\ acked' = acked
  /\ m.line = mem[p].line
  /\ m.stamp = mem[p].stamp \/ m.stamp = clock + 1
  /\ mem[p].nextAction <= m.nextAction
  /\ Grown(mem[p].tasks, m.tasks, mem[p].nextAction)

LEMMA GrownKeeps ==
  ASSUME Alone, CallInv, CallInv', AloneInv, NEW p \in Proc, NEW m, GrownTo(p, m),
         \A j \in Job : job'[j] # job[j] =>
           /\ job'[j].stage = "recorded" /\ job'[j].proc = p /\ job'[j].line = m.line
           /\ HoldsCheck(m.tasks, job'[j].id, j)
  PROVE  AloneInv'
<1> DEFINE old == mem[p]
           n == old.nextAction
           T == TaskWith(CheckKind \cup Job)
<1>1. /\ pc[p] = "idle" /\ mem' = [mem EXCEPT ![p] = m]
      /\ pc' = [pc EXCEPT ![p] = "saving"]
      /\ UNCHANGED <<read, disk>>
      /\ clock' = clock + 1 /\ resets' = resets /\ acked' = acked
  BY DEF GrownTo, Store!Mutate
<1>2. /\ m.line = old.line /\ (m.stamp = old.stamp \/ m.stamp = clock + 1)
      /\ n <= m.nextAction /\ Grown(old.tasks, m.tasks, n)
  BY DEF GrownTo
<1>3. mem \in [Proc -> Sound(CheckKind \cup Job)] /\ pc \in [Proc -> Store!PC]
  BY DEF CallInv, IInv, SoundInv
<1>4. mem'[p] = m /\ pc'[p] = "saving" /\ \A q \in Proc : q = p
  BY <1>1, <1>3 DEF Alone
<1>5. p \in Up /\ Up' \subseteq {p}
  BY <1>1, <1>4 DEF Up
<1>6. /\ clock \in Nat
      /\ old.stamp \in Nat /\ old.line \in Nat /\ n \in Nat /\ m.stamp \in Nat
      /\ m.nextAction \in Nat
      /\ old.tasks \in Seq(T) /\ m.tasks \in Seq(T)
      /\ disk # NoFile => disk.stamp \in Nat /\ disk.stamp <= clock /\ disk.line \in Nat
  <2>1. /\ clock \in Nat
        /\ old.stamp \in Nat /\ old.line \in Nat /\ n \in Nat
        /\ old.tasks \in Seq(OwnTask(CheckKind \cup Job, old.line, n))
        /\ disk # NoFile => disk.stamp \in Nat /\ disk.stamp <= clock /\ disk.line \in Nat
    BY CycleFacts
  <2>2. m.tasks \in Seq(OwnTask(CheckKind \cup Job, m.line, m.nextAction)) /\ m.nextAction \in Nat
    <3>1. mem'[p] \in Sound(CheckKind \cup Job)
      BY DEF CallInv, IInv, SoundInv
    <3> QED
      BY <3>1, <1>4, SoundParts
  <2>3. \A line, k : OwnTask(CheckKind \cup Job, line, k) \subseteq T
    BY DEF OwnTask
  <2>4. old.tasks \in Seq(T)
    <3>1. OwnTask(CheckKind \cup Job, old.line, n) \subseteq T
      BY <2>3
    <3> HIDE DEF old, n, T
    <3> QED
      BY <2>1, <3>1, WiderSequences
  <2>5. m.tasks \in Seq(T)
    BY <2>2, <2>3, WiderSequences
  <2> QED
    BY <2>1, <2>2, <2>4, <2>5, <1>2
<1>7. /\ Ids(old.tasks) \subseteq Ids(m.tasks)
      /\ \A id, j : HoldsCheck(old.tasks, id, j) => HoldsCheck(m.tasks, id, j)
  <2>1. \A i \in DOMAIN old.tasks : /\ i \in DOMAIN m.tasks /\ m.tasks[i].id = old.tasks[i].id
                                    /\ old.tasks[i].checks \subseteq m.tasks[i].checks
    BY <1>2 DEF Grown
  <2> HIDE DEF old, T
  <2> QED
    BY <2>1, <1>6, ChecksStay
<1>8. /\ (\A a \in acked : a[2] <= clock) /\ (\A j \in Job : job[j].line <= clock)
      /\ Current(old) /\ Honours(old)
      /\ disk # NoFile => Current(disk) /\ Orderly(disk.tasks) /\ Honours(disk) /\ Follows(old, disk)
  BY <1>5 DEF AloneInv, HistoryInv, GoodInv, Good, FileInv
<1>9. \A j \in Job : job'[j].stage = "completed" => job'[j] = job[j]
  OBVIOUS
<1>10. HistoryInv'
  <2>1. \A a \in acked : a[2] \in Nat
    BY CycleFacts
  <2>2. \A j \in Job : job[j].line \in Nat \cup {-1}
    BY CycleFacts
  <2>3. \A j \in Job : job'[j].line = job[j].line \/ job'[j].line = m.line
    OBVIOUS
  <2>4. m.line <= clock /\ m.line \in Nat
    BY <1>2, <1>6, <1>8 DEF Current
  <2>5. \A j \in Job : job'[j].line <= clock'
    <3>1. m.line <= clock' /\ \A j \in Job : job[j].line <= clock'
      BY <2>2, <2>4, <1>1, <1>6, <1>8
    <3> QED
      BY <2>3, <3>1
  <2>6. \A a \in acked' : a[2] <= clock'
    <3>1. acked' = acked /\ clock' = clock + 1
      BY <1>1
    <3>2. \A a \in acked : a[2] \in Nat /\ a[2] <= clock
      BY <2>1, <1>8
    <3>3. clock \in Nat
      BY <1>6
    <3> QED
      BY <3>1, <3>2, <3>3
  <2> QED
    BY <2>5, <2>6 DEF HistoryInv
<1>11. m.line <= clock'
  BY <1>1, <1>2, <1>6, <1>8 DEF Current
<1>12. disk # NoFile => disk.line <= clock'
  BY <1>1, <1>6, <1>8 DEF Current
<1>13. /\ \A a \in acked' : a[2] = m.line => a[3] \in Ids(m.tasks)
       /\ \A j \in Job : job'[j].stage = "completed" /\ job'[j].line = m.line
            => HoldsCheck(m.tasks, job'[j].id, j)
  BY <1>1, <1>2, <1>7, <1>8, <1>9 DEF Honours
<1>14. disk # NoFile =>
         /\ \A a \in acked' : a[2] = disk.line => a[3] \in Ids(disk.tasks)
         /\ \A j \in Job : job'[j].stage = "completed" /\ job'[j].line = disk.line
              => HoldsCheck(disk.tasks, job'[j].id, j)
  BY <1>1, <1>8, <1>9 DEF Honours
<1>15. GoodInv'
  <2>1. Good(mem[p])'
    BY <1>2, <1>4, <1>11, <1>13 DEF Good, Current, Honours, Grown
  <2>2. disk' # NoFile => Good(disk)'
    BY <1>1, <1>8, <1>12, <1>14 DEF Good, Current, Honours
  <2> QED
    BY <2>1, <2>2, <1>5 DEF GoodInv
<1>16. ASSUME disk # NoFile
       PROVE  Follows(m, disk)
  <2>1. CASE m.stamp = clock + 1
    BY <2>1, <1>6, <1>16 DEF Follows
  <2>2. CASE m.stamp = old.stamp
    <3>1. Follows(old, disk)
      BY <1>8, <1>16
    <3>2. disk.stamp <= m.stamp
      BY <2>2, <3>1 DEF Follows
    <3> SUFFICES ASSUME disk.stamp = m.stamp
                 PROVE  /\ disk.nextAction <= m.nextAction
                        /\ \A i \in Left(m, disk) :
                             /\ disk.tasks[i].status # "active"
                             /\ \A k \in DOMAIN m.tasks : Apart(disk.tasks[i], m.tasks[k])
      BY <3>2 DEF Follows
    <3>3. /\ disk.nextAction \in Nat /\ disk.nextAction <= n
          /\ disk.tasks \in Seq(OwnTask(CheckKind \cup Job, disk.line, disk.nextAction))
      BY <2>2, <3>1, <1>16, CycleFacts DEF Follows
    <3>4. disk.nextAction <= m.nextAction
      BY <3>3, <1>2, <1>6
    <3>5. \A i \in DOMAIN disk.tasks : n \notin disk.tasks[i].actions
      BY <3>3, <1>6, NextIsNew
    <3>6. ASSUME NEW i \in Left(m, disk), NEW k \in DOMAIN m.tasks
          PROVE  disk.tasks[i].status # "active" /\ Apart(disk.tasks[i], m.tasks[k])
      <4>1. i \in Left(old, disk) /\ i \in DOMAIN disk.tasks
        BY <1>7 DEF Left
      <4>2. /\ disk.tasks[i].status # "active"
            /\ \A l \in DOMAIN old.tasks : Apart(disk.tasks[i], old.tasks[l])
        BY <2>2, <3>1, <4>1 DEF Follows
      <4>3. \/ m.tasks[k].actions \subseteq {n}
            \/ \E l \in DOMAIN old.tasks : m.tasks[k].actions \subseteq old.tasks[l].actions \cup {n}
        BY <1>2 DEF Grown
      <4> QED
        BY <3>5, <4>1, <4>2, <4>3 DEF Apart
    <3>7. \A i \in Left(m, disk) : disk.tasks[i].status # "active"
      <4> SUFFICES ASSUME NEW i \in Left(m, disk)
                   PROVE  disk.tasks[i].status # "active"
        OBVIOUS
      <4>1. i \in Left(old, disk)
        BY <1>7 DEF Left
      <4> QED
        BY <2>2, <3>1, <4>1 DEF Follows
    <3> QED
      BY <3>4, <3>6, <3>7
  <2> QED
    BY <2>1, <2>2, <1>2
<1>17. FileInv'
  BY <1>1, <1>4, <1>5, <1>16 DEF FileInv
<1>18. RecordInv'
  <2> SUFFICES ASSUME NEW j \in Job
               PROVE  /\ job'[j].stage = "recorded" =>
                           /\ pc'[job'[j].proc] \in {"saving", "locked"}
                           /\ mem'[job'[j].proc].line = job'[j].line
                           /\ HoldsCheck(mem'[job'[j].proc].tasks, job'[j].id, j)
                      /\ job'[j].stage = "completed" => job'[j].id \in TaskId
                      /\ job'[j].stage = "completed" /\ job'[j].line # -1 => disk' # NoFile
    BY DEF RecordInv
  <2>1. CASE job'[j] = job[j]
    <3>1. job[j].stage # "recorded"
      <4>1. job[j].proc = p
        BY <1>4, CycleFacts
      <4> QED
        BY <4>1, <1>1 DEF AloneInv, RecordInv
    <3>2. /\ job[j].stage = "completed" => job[j].id \in TaskId
          /\ job[j].stage = "completed" /\ job[j].line # -1 => disk # NoFile
      BY DEF AloneInv, RecordInv
    <3> QED
      BY <2>1, <3>1, <3>2, <1>1
  <2>2. CASE job'[j] # job[j]
    BY <2>2, <1>4
  <2> QED
    BY <2>1, <2>2
<1> QED
  BY <1>10, <1>15, <1>17, <1>18 DEF AloneInv

\* The plan a call finds.
LEMMA PlanFound ==
  ASSUME CallInv, AloneInv, NEW p \in Proc, pc[p] = "idle"
  PROVE  /\ mem[p].tasks \in Seq(TaskWith(CheckKind \cup Job)) /\ Orderly(mem[p].tasks)
         /\ mem[p].nextAction \in Nat
         /\ \A k \in DOMAIN mem[p].tasks : mem[p].nextAction \notin mem[p].tasks[k].actions
         /\ mem[p] \in Sound(CheckKind \cup Job)
<1> DEFINE K == CheckKind \cup Job
           line == mem[p].line
           n == mem[p].nextAction
           s == mem[p].tasks
<1>1. n \in Nat /\ s \in Seq(OwnTask(K, line, n))
  BY CycleFacts
<1>2. OwnTask(K, line, n) \subseteq TaskWith(K)
  BY DEF OwnTask
<1>3. Orderly(s)
  BY DEF AloneInv, GoodInv, Good, Up
<1>4. mem[p] \in Sound(K)
  BY DEF CallInv, IInv, SoundInv
<1>5. s \in Seq(TaskWith(K)) /\ \A k \in DOMAIN s : n \notin s[k].actions
  <2> HIDE DEF s, n, line, K
  <2>1. n <= n
    BY <1>1
  <2>2. s \in Seq(TaskWith(K))
    BY <1>1, <1>2, WiderSequences
  <2> QED
    BY <1>1, <2>1, <2>2, NextIsNew
<1> QED
  BY <1>1, <1>3, <1>4, <1>5

LEMMA SetTaskGrows ==
  ASSUME CallInv, AloneInv, NEW p \in Proc, NEW i \in DOMAIN mem[p].tasks,
         NEW task \in TaskWith(CheckKind \cup Job), task.id = mem[p].tasks[i].id,
         mem[p].tasks[i].checks \subseteq task.checks,
         task.actions \subseteq mem[p].tasks[i].actions \cup {mem[p].nextAction},
         task.status = "active" =>
           mem[p].tasks[i].status = "active" \/ Active(mem[p].tasks) = {},
         SetTask(p, i, task)
  PROVE  GrownTo(p, [mem[p] EXCEPT !.tasks = [mem[p].tasks EXCEPT ![i] = task]])
<1> DEFINE s == mem[p].tasks
           n == mem[p].nextAction
           t == [s EXCEPT ![i] = task]
           m == [mem[p] EXCEPT !.tasks = t]
<1>1. [mem[p] EXCEPT !.tasks[i] = task] = m
  OBVIOUS
<1>2. /\ Store!Mutate(p, m) /\ pc[p] = "idle"
      /\ clock' = clock + 1 /\ resets' = resets /\ acked' = acked
  BY <1>1 DEF SetTask, Update, Tick, Store!Mutate
<1>3. /\ s \in Seq(TaskWith(CheckKind \cup Job)) /\ Orderly(s) /\ n \in Nat
      /\ \A k \in DOMAIN s : n \notin s[k].actions
      /\ mem[p] \in Sound(CheckKind \cup Job)
  BY <1>2, PlanFound
<1>4. Grown(s, t, n)
  <2> HIDE DEF s, n
  <2>1. /\ task.id = s[i].id /\ s[i].checks \subseteq task.checks /\ i \in DOMAIN s
        /\ task.actions \subseteq s[i].actions \cup {n}
        /\ task.status = "active" => s[i].status = "active" \/ Active(s) = {}
    BY DEF s, n
  <2> QED
    BY <1>3, <2>1, GrownBySet
<1>5. m.tasks = t /\ m.line = mem[p].line /\ m.stamp = mem[p].stamp /\ m.nextAction = n
  <2> HIDE DEF t
  <2> QED
    BY <1>3, Replaced
<1>6. n <= n
  BY <1>3
<1> HIDE DEF m, t
<1> QED
  BY <1>2, <1>4, <1>5, <1>6 DEF GrownTo, m, t

\* A task as a call changes it.
LEMMA TaskParts ==
  ASSUME NEW kinds, NEW t \in TaskWith(kinds)
  PROVE  /\ \A s \in TaskStatus : LET u == [t EXCEPT !.status = s] IN
              /\ u \in TaskWith(kinds) /\ u.id = t.id /\ u.status = s
              /\ u.checks = t.checks /\ u.actions = t.actions
         /\ \A k \in kinds : LET u == [t EXCEPT !.checks = t.checks \cup {k}] IN
              /\ u \in TaskWith(kinds) /\ u.id = t.id /\ u.status = t.status
              /\ u.checks = t.checks \cup {k} /\ u.actions = t.actions
         /\ \A n \in Nat : LET u == [t EXCEPT !.actions = t.actions \cup {n}] IN
              /\ u \in TaskWith(kinds) /\ u.id = t.id /\ u.status = t.status
              /\ u.checks = t.checks /\ u.actions = t.actions \cup {n}
<1>1. \A s \in TaskStatus : LET u == [t EXCEPT !.status = s] IN
         /\ u \in TaskWith(kinds) /\ u.id = t.id /\ u.status = s
         /\ u.checks = t.checks /\ u.actions = t.actions
  BY DEF TaskWith
<1>2. \A k \in kinds : LET u == [t EXCEPT !.checks = t.checks \cup {k}] IN
         /\ u \in TaskWith(kinds) /\ u.id = t.id /\ u.status = t.status
         /\ u.checks = t.checks \cup {k} /\ u.actions = t.actions
  BY DEF TaskWith
<1>3. \A n \in Nat : LET u == [t EXCEPT !.actions = t.actions \cup {n}] IN
         /\ u \in TaskWith(kinds) /\ u.id = t.id /\ u.status = t.status
         /\ u.checks = t.checks /\ u.actions = t.actions \cup {n}
  BY DEF TaskWith
<1> QED
  BY <1>1, <1>2, <1>3

\* Of the tasks of a plan, the one a call names.
LEMMA TaskFound ==
  ASSUME CallInv, AloneInv, NEW p \in Proc, pc[p] = "idle", NEW id,
         TaskIndex(mem[p].tasks, id) # 0
  PROVE  LET i == TaskIndex(mem[p].tasks, id) IN
         /\ i \in DOMAIN mem[p].tasks /\ mem[p].tasks[i].id = id
         /\ mem[p].tasks[i] \in TaskWith(CheckKind \cup Job)
         /\ \A k \in 1 .. i - 1 : mem[p].tasks[k].id # id
<1> DEFINE s == mem[p].tasks
<1>1. s \in Seq(TaskWith(CheckKind \cup Job))
  BY PlanFound
<1>2. TaskIndex(s, id) # 0
  OBVIOUS
<1> HIDE DEF s
<1>3. TaskIndex(s, id) \in 1 .. Len(s) /\ s[TaskIndex(s, id)].id = id
  BY <1>1, <1>2, IndexFacts
<1>4. \A k \in 1 .. TaskIndex(s, id) - 1 : s[k].id # id
  BY <1>1, <1>2, FirstIndex
<1>5. TaskIndex(s, id) \in DOMAIN s /\ s[TaskIndex(s, id)] \in TaskWith(CheckKind \cup Job)
  BY <1>1, <1>3
<1> QED
  BY <1>3, <1>4, <1>5 DEF s

LEMMA StatusGrows ==
  ASSUME CallInv, AloneInv, NEW p \in Proc, NEW id,
         StartTask(p, id) \/ CompleteTask(p, id) \/ BlockTask(p, id)
  PROVE  \E m : GrownTo(p, m)
<1> DEFINE i == TaskIndex(mem[p].tasks, id)
           t == mem[p].tasks[i]
           task(s) == [t EXCEPT !.status = s]
<1>1. i # 0
  BY DEF StartTask, CompleteTask, BlockTask
<1>2. \E s \in TaskStatus : SetTask(p, i, task(s)) /\ (s = "active" => Active(mem[p].tasks) = {})
  BY DEF StartTask, CompleteTask, BlockTask, TaskStatus
<1>3. pc[p] = "idle"
  BY <1>2 DEF SetTask, Update, Store!Mutate
<1>4. i \in DOMAIN mem[p].tasks /\ t \in TaskWith(CheckKind \cup Job)
  BY <1>1, <1>3, TaskFound
<1>5. PICK s \in TaskStatus : SetTask(p, i, task(s)) /\ (s = "active" => Active(mem[p].tasks) = {})
  BY <1>2
<1> DEFINE u == task(s)
<1>6. /\ u \in TaskWith(CheckKind \cup Job) /\ u.id = t.id /\ u.status = s
      /\ u.checks = t.checks /\ u.actions = t.actions
  BY <1>4, TaskParts
<1>7. SetTask(p, i, u)
  BY <1>5
<1> HIDE DEF u, i
<1>8. GrownTo(p, [mem[p] EXCEPT !.tasks = [mem[p].tasks EXCEPT ![i] = u]])
  BY <1>4, <1>5, <1>6, <1>7, SetTaskGrows
<1> QED
  BY <1>8

LEMMA RecordCheckGrows ==
  ASSUME CallInv, AloneInv, NEW p \in Proc, NEW id, NEW kind \in CheckKind \cup Job,
         RecordCheck(p, id, kind)
  PROVE  \E m : GrownTo(p, m) /\ m.line = mem[p].line /\ HoldsCheck(m.tasks, id, kind)
<1> DEFINE s == mem[p].tasks
           i == TaskIndex(s, id)
           t == s[i]
           u == [t EXCEPT !.checks = t.checks \cup {kind}]
           after == [s EXCEPT ![i] = u]
           m == [mem[p] EXCEPT !.tasks = after]
<1>1. i # 0 /\ SetTask(p, i, u)
  BY DEF RecordCheck
<1>2. pc[p] = "idle"
  BY <1>1 DEF SetTask, Update, Store!Mutate
<1>3. /\ i \in DOMAIN s /\ t.id = id /\ t \in TaskWith(CheckKind \cup Job)
      /\ \A k \in 1 .. i - 1 : s[k].id # id
  BY <1>1, <1>2, TaskFound
<1>4. /\ u \in TaskWith(CheckKind \cup Job) /\ u.id = t.id /\ u.status = t.status
      /\ u.checks = t.checks \cup {kind} /\ u.actions = t.actions
  <2>1. t \in TaskWith(CheckKind \cup Job)
    BY <1>3
  <2> HIDE DEF t
  <2> QED
    BY <2>1, TaskParts
<1>5. s \in Seq(TaskWith(CheckKind \cup Job)) /\ mem[p] \in Sound(CheckKind \cup Job)
  BY <1>2, PlanFound
<1> HIDE DEF u
<1>6. GrownTo(p, m)
  <2> HIDE DEF i
  <2> QED
    BY <1>1, <1>3, <1>4, SetTaskGrows
<1>7. m.tasks = after /\ m.line = mem[p].line
  <2> HIDE DEF after
  <2> QED
    BY <1>5, Replaced
<1>8. HoldsCheck(after, id, kind)
  <2> HIDE DEF i, s
  <2>1. i \in DOMAIN after /\ after[i] = u /\ i \in Nat
    BY <1>3, <1>5
  <2>2. \A k \in 1 .. i - 1 : after[k] = s[k]
    BY <2>1, <1>3, <1>5
  <2> HIDE DEF after
  <2>3. /\ i \in DOMAIN after /\ after[i].id = id /\ kind \in after[i].checks
        /\ \A k \in 1 .. i - 1 : after[k].id # id
    BY <2>1, <2>2, <1>3, <1>4
  <2> QED
    BY <2>3 DEF HoldsCheck
<1> HIDE DEF m, after
<1>9. HoldsCheck(m.tasks, id, kind)
  BY <1>7, <1>8
<1> QED
  BY <1>6, <1>7, <1>9

LEMMA RecordActionGrows ==
  ASSUME CallInv, AloneInv, NEW p \in Proc, NEW id, RecordAction(p, id)
  PROVE  \E m : GrownTo(p, m)
<1> DEFINE old == mem[p]
           s == old.tasks
           n == old.nextAction
           i == TaskIndex(s, id)
           t == s[i]
           u == [t EXCEPT !.actions = t.actions \cup {n}]
           after == [s EXCEPT ![i] = u]
           m == [stamp |-> old.stamp, line |-> old.line, status |-> old.status,
                 tasks |-> after, nextAction |-> n + 1]
<1>1. /\ i # 0
      /\ Update(p, [old EXCEPT !.nextAction = n + 1, !.tasks[i].actions = t.actions \cup {n}])
  BY DEF RecordAction
<1>2. pc[p] = "idle"
  BY <1>1 DEF Update, Store!Mutate
<1>3. i \in DOMAIN s /\ t \in TaskWith(CheckKind \cup Job)
  BY <1>1, <1>2, TaskFound
<1>4. /\ s \in Seq(TaskWith(CheckKind \cup Job)) /\ Orderly(s) /\ n \in Nat
      /\ \A k \in DOMAIN s : n \notin s[k].actions
      /\ old \in Sound(CheckKind \cup Job)
  BY <1>2, PlanFound
<1>5. /\ u \in TaskWith(CheckKind \cup Job) /\ u.id = t.id /\ u.status = t.status
      /\ u.checks = t.checks /\ u.actions = t.actions \cup {n}
  <2>1. t \in TaskWith(CheckKind \cup Job) /\ n \in Nat
    BY <1>3, <1>4
  <2> HIDE DEF t, n
  <2> QED
    BY <2>1, TaskParts
<1>6. [old EXCEPT !.nextAction = n + 1, !.tasks[i].actions = t.actions \cup {n}] = m
  <2> DEFINE first == [old EXCEPT !.nextAction = n + 1]
  <2>1. first = [stamp |-> old.stamp, line |-> old.line, status |-> old.status,
                 tasks |-> s, nextAction |-> n + 1]
    BY <1>4, Replaced
  <2>2. [old EXCEPT !.nextAction = n + 1, !.tasks[i].actions = t.actions \cup {n}]
          = [first EXCEPT !.tasks[i].actions = t.actions \cup {n}]
    OBVIOUS
  <2> HIDE DEF first
  <2>3. first.tasks = s
    BY <2>1
  <2>4. [first EXCEPT !.tasks[i].actions = t.actions \cup {n}] = [first EXCEPT !.tasks = after]
    BY <2>3
  <2> HIDE DEF after, s, i, t, n
  <2>5. [first EXCEPT !.tasks = after]
          = [stamp |-> old.stamp, line |-> old.line, status |-> old.status,
             tasks |-> after, nextAction |-> n + 1]
    BY <2>1
  <2> QED
    BY <2>2, <2>4, <2>5
<1>7. Store!Mutate(p, m) /\ clock' = clock + 1 /\ resets' = resets /\ acked' = acked
  BY <1>1, <1>6 DEF Update, Tick
<1>8. Grown(s, after, n)
  <2>1. /\ i \in DOMAIN s /\ u.id = s[i].id /\ s[i].checks \subseteq u.checks
        /\ u.actions \subseteq s[i].actions \cup {n} /\ u.status = s[i].status
    BY <1>3, <1>5
  <2> HIDE DEF s, n, i, u
  <2> QED
    BY <2>1, <1>4, <1>5, GrownBySet
<1>9. /\ m.tasks = after /\ m.line = old.line /\ m.stamp = old.stamp /\ m.nextAction = n + 1
      /\ n <= n + 1
  BY <1>4
<1> HIDE DEF m, after
<1>10. GrownTo(p, m)
  BY <1>7, <1>8, <1>9 DEF GrownTo
<1> QED
  BY <1>10

LEMMA AddTaskGrows ==
  ASSUME CallInv, AloneInv, NEW p \in Proc, NEW id \in TaskId, AddTask(p, id)
  PROVE  \E m : GrownTo(p, m)
<1> DEFINE old == mem[p]
           s == old.tasks
           n == old.nextAction
           task == [id |-> id, status |-> "planned", actions |-> {}, checks |-> {},
                    born |-> old.line]
           status == IF old.status = "defined" THEN "active" ELSE old.status
           after == Append(s, task)
           m == [stamp |-> old.stamp, line |-> old.line, status |-> status, tasks |-> after,
                 nextAction |-> n]
<1>1. Update(p, [old EXCEPT !.status = status, !.tasks = after])
  BY DEF AddTask
<1>2. pc[p] = "idle"
  BY <1>1 DEF Update, Store!Mutate
<1>3. /\ s \in Seq(TaskWith(CheckKind \cup Job)) /\ Orderly(s) /\ n \in Nat
      /\ old \in Sound(CheckKind \cup Job)
  BY <1>2, PlanFound
<1>4. /\ task \in TaskWith(CheckKind \cup Job) /\ task.actions = {} /\ task.status # "active"
  <2>1. old.line \in Nat
    BY CycleFacts
  <2> QED
    BY <2>1 DEF TaskWith, TaskStatus
<1> HIDE DEF task
<1>5. [old EXCEPT !.status = status, !.tasks = after] = m
  <2> HIDE DEF status, after
  <2> DEFINE first == [old EXCEPT !.status = status]
  <2>1. first = [stamp |-> old.stamp, line |-> old.line, status |-> status,
                 tasks |-> s, nextAction |-> n]
    BY <1>3, Replaced
  <2>2. [old EXCEPT !.status = status, !.tasks = after] = [first EXCEPT !.tasks = after]
    OBVIOUS
  <2> HIDE DEF first
  <2> QED
    BY <2>1, <2>2
<1>6. Store!Mutate(p, m) /\ clock' = clock + 1 /\ resets' = resets /\ acked' = acked
  BY <1>1, <1>5 DEF Update, Tick
<1>7. Grown(s, after, n)
  <2> HIDE DEF s, n
  <2> QED
    BY <1>3, <1>4, GrownByAdd
<1>8. m.tasks = after /\ m.line = old.line /\ m.stamp = old.stamp /\ m.nextAction = n /\ n <= n
  BY <1>3
<1> HIDE DEF m, after
<1>9. GrownTo(p, m)
  BY <1>6, <1>7, <1>8 DEF GrownTo
<1> QED
  BY <1>9

\* Calls that leave the plan as it is.
LEMMA StatusOnlyGrows ==
  ASSUME CallInv, AloneInv, NEW p \in Proc,
         Finalize(p) \/ (SetObjective(p) /\ mem[p].status \in InFlight)
  PROVE  \E m : GrownTo(p, m)
<1> DEFINE old == mem[p]
           n == old.nextAction
<1>1. PICK stamp \in {old.stamp, clock + 1}, status \in {old.status, "completed", "defined"} :
        Update(p, [stamp |-> stamp, line |-> old.line, status |-> status,
                   tasks |-> old.tasks, nextAction |-> n])
  <2>1. CASE Finalize(p)
    <3> DEFINE status == IF old.status = "none" THEN old.status ELSE "completed"
    <3>1. Update(p, [old EXCEPT !.status = status])
      BY <2>1 DEF Finalize
    <3>2. old \in Sound(CheckKind \cup Job)
      BY DEF CallInv, IInv, SoundInv
    <3>3. status \in {old.status, "completed", "defined"}
      OBVIOUS
    <3> HIDE DEF status
    <3>4. [old EXCEPT !.status = status]
            = [stamp |-> old.stamp, line |-> old.line, status |-> status,
               tasks |-> old.tasks, nextAction |-> n]
      BY <3>2, Replaced
    <3>5. Update(p, [stamp |-> old.stamp, line |-> old.line, status |-> status,
                     tasks |-> old.tasks, nextAction |-> n])
      BY <3>1, <3>4
    <3> HIDE DEF old, n
    <3> QED
      BY <3>3, <3>5
  <2>2. CASE SetObjective(p) /\ old.status \in InFlight
    <3>1. Update(p, [stamp |-> clock + 1, line |-> old.line, status |-> "defined",
                     tasks |-> old.tasks, nextAction |-> n])
      BY <2>2 DEF SetObjective, InFlight
    <3> QED
      BY <3>1
  <2> QED
    BY <2>1, <2>2
<1> DEFINE m == [stamp |-> stamp, line |-> old.line, status |-> status,
                 tasks |-> old.tasks, nextAction |-> n]
<1>2. /\ Store!Mutate(p, m) /\ pc[p] = "idle"
      /\ clock' = clock + 1 /\ resets' = resets /\ acked' = acked
  BY <1>1 DEF Update, Tick, Store!Mutate
<1>3. Orderly(old.tasks) /\ n \in Nat
  BY <1>2, PlanFound
<1>4. /\ m.tasks = old.tasks /\ m.line = old.line /\ m.nextAction = n
      /\ m.stamp = old.stamp \/ m.stamp = clock + 1
  OBVIOUS
<1> HIDE DEF m
<1>5. Grown(old.tasks, m.tasks, n)
  BY <1>3, <1>4, GrownByNothing
<1>6. n <= n
  BY <1>3
<1>7. GrownTo(p, m)
  BY <1>2, <1>4, <1>5, <1>6 DEF GrownTo
<1> QED
  BY <1>7

\* A fresh objective begins a cycle nobody was told of.
LEMMA FreshObjectiveKeeps ==
  ASSUME Alone, CallInv, CallInv', AloneInv, NEW p \in Proc,
         SetObjective(p), mem[p].status \notin InFlight, UNCHANGED job
  PROVE  AloneInv'
<1> DEFINE old == mem[p]
           tasks == IF old.status = "completed" THEN <<>> ELSE old.tasks
           next == IF old.status = "completed" THEN 1 ELSE old.nextAction
           m == [stamp |-> clock + 1, line |-> clock + 1, status |-> "defined",
                 tasks |-> tasks, nextAction |-> next]
<1>1. /\ pc[p] = "idle" /\ mem' = [mem EXCEPT ![p] = m]
      /\ pc' = [pc EXCEPT ![p] = "saving"]
      /\ UNCHANGED <<read, disk>>
      /\ clock' = clock + 1 /\ resets' = resets /\ acked' = acked
  BY DEF SetObjective, Update, Store!Mutate, Tick
<1>2. m.stamp = clock + 1 /\ m.line = clock + 1 /\ m.tasks = tasks
  OBVIOUS
<1>3. mem \in [Proc -> Sound(CheckKind \cup Job)] /\ pc \in [Proc -> Store!PC]
  BY DEF CallInv, IInv, SoundInv
<1>4. Orderly(tasks)
  <2>1. Orderly(old.tasks)
    BY <1>1, PlanFound
  <2>2. Orderly(<<>>)
    BY DEF Orderly
  <2> QED
    BY <2>1, <2>2
<1> HIDE DEF m, tasks
<1>5. mem'[p] = m /\ pc'[p] = "saving" /\ \A q \in Proc : q = p
  BY <1>1, <1>3 DEF Alone
<1>6. Up' \subseteq {p}
  BY <1>1, <1>5 DEF Up
<1>7. /\ clock \in Nat
      /\ \A a \in acked : a[2] \in Nat
      /\ \A j \in Job : job[j].line \in Nat \cup {-1} /\ job[j].proc = p
      /\ disk # NoFile => disk.stamp \in Nat /\ disk.stamp <= clock /\ disk.line \in Nat
  BY <1>5, CycleFacts
<1>8. /\ (\A a \in acked : a[2] <= clock) /\ (\A j \in Job : job[j].line <= clock)
      /\ disk # NoFile => Current(disk) /\ Orderly(disk.tasks) /\ Honours(disk)
  BY DEF AloneInv, HistoryInv, GoodInv, Good
<1>9. HistoryInv'
  <2>1. \A j \in Job : job[j].line <= clock + 1
    BY <1>7, <1>8
  <2>2. \A a \in acked : a[2] <= clock + 1
    BY <1>7, <1>8
  <2> QED
    BY <2>1, <2>2, <1>1 DEF HistoryInv
<1>10. /\ m.line <= clock'
       /\ \A a \in acked : a[2] # m.line
       /\ \A j \in Job : job[j].line # m.line
  <2>2. \A a \in acked : a[2] # clock + 1
    BY <1>7, <1>8
  <2>3. \A j \in Job : job[j].line # clock + 1
    BY <1>7, <1>8
  <2>4. clock + 1 <= clock + 1
    BY <1>7
  <2> QED
    BY <2>2, <2>3, <2>4, <1>1, <1>2
<1>11. disk # NoFile => disk.line <= clock'
  BY <1>1, <1>7, <1>8 DEF Current
<1>12. GoodInv'
  <2>1. Good(mem[p])'
    BY <1>1, <1>2, <1>4, <1>5, <1>10 DEF Good, Current, Honours
  <2>2. disk' # NoFile => Good(disk)'
    BY <1>1, <1>8, <1>11 DEF Good, Current, Honours
  <2> QED
    BY <2>1, <2>2, <1>6 DEF GoodInv
<1>13. disk # NoFile => Follows(m, disk)
  BY <1>2, <1>7 DEF Follows
<1>14. FileInv'
  BY <1>1, <1>5, <1>6, <1>13 DEF FileInv
<1>15. RecordInv'
  BY <1>1, <1>7 DEF AloneInv, RecordInv
<1> QED
  BY <1>9, <1>12, <1>14, <1>15 DEF AloneInv

\* A task that is taken out is in nobody's hands, and no call counts on it any more.
LEMMA RemoveTaskKeeps ==
  ASSUME Alone, CallInv, CallInv', AloneInv, NEW p \in Proc, NEW id,
         RemoveTask(p, id), Gone({id})
  PROVE  AloneInv'
<1> DEFINE K == CheckKind \cup Job
           old == mem[p]
           s == old.tasks
           i == TaskIndex(s, id)
           after == RemoveAt(s, i)
           m == [old EXCEPT !.tasks = after]
<1>1. /\ i # 0 /\ s[i].status # "active"
      /\ pc[p] = "idle" /\ mem' = [mem EXCEPT ![p] = m]
      /\ pc' = [pc EXCEPT ![p] = "saving"]
      /\ UNCHANGED <<read, disk>>
      /\ clock' = clock + 1 /\ resets' = resets
      /\ acked' = {a \in acked : a[2] # old.line \/ a[3] # id}
  BY DEF RemoveTask, Store!Mutate, Tick
<1>2. /\ i \in DOMAIN s /\ s[i].id = id /\ s \in Seq(TaskWith(K)) /\ Orderly(s)
      /\ old \in Sound(K)
  BY <1>1, PlanFound, TaskFound
<1>3. m.tasks = after /\ m.line = old.line /\ m.stamp = old.stamp /\ m.nextAction = old.nextAction
  <2> HIDE DEF after
  <2> QED
    BY <1>2, Replaced
<1>4. /\ Orderly(after)
      /\ \A k \in DOMAIN after : \E l \in DOMAIN s : l # i /\ after[k] = s[l]
      /\ \A l \in DOMAIN s : l # i => s[l].id \in Ids(after)
      /\ Ids(s) \subseteq Ids(after) \cup {id} /\ Ids(after) \subseteq Ids(s)
      /\ \A x, j : x # id /\ HoldsCheck(s, x, j) => HoldsCheck(after, x, j)
  <2>1. i \in 1 .. Len(s)
    BY <1>2
  <2> HIDE DEF s, i
  <2> QED
    BY <2>1, <1>2, RemovalKeeps
<1> HIDE DEF m, after, i
<1>5. mem \in [Proc -> Sound(K)] /\ pc \in [Proc -> Store!PC] /\ job \in [Job -> Call]
  BY DEF CallInv, IInv, SoundInv
<1>6. mem'[p] = m /\ pc'[p] = "saving" /\ \A q \in Proc : q = p
  BY <1>1, <1>5 DEF Alone
<1>7. p \in Up /\ Up' \subseteq {p}
  BY <1>1, <1>6 DEF Up
<1>8. /\ clock \in Nat
      /\ \A a \in acked : a[2] \in Nat
      /\ \A j \in Job : job[j].line \in Nat \cup {-1} /\ job[j].proc = p
      /\ old.line \in Nat
      /\ disk # NoFile => disk.stamp \in Nat /\ disk.line \in Nat
  BY <1>6, CycleFacts
<1>9. /\ (\A a \in acked : a[2] <= clock) /\ (\A j \in Job : job[j].line <= clock)
      /\ Current(old) /\ Honours(old)
      /\ disk # NoFile => /\ Current(disk) /\ Orderly(disk.tasks) /\ Honours(disk)
                          /\ Follows(old, disk) /\ Agrees(old, disk)
  BY <1>1, <1>7 DEF AloneInv, HistoryInv, GoodInv, Good, FileInv
<1>10. \A j \in Job : /\ job'[j].stage = job[j].stage /\ job'[j].id = job[j].id
                      /\ job'[j].proc = job[j].proc
                      /\ job'[j].line = job[j].line \/ job'[j].line = -1
                      /\ job'[j].stage = "completed" /\ job'[j].id = id => job'[j].line = -1
  <2> SUFFICES ASSUME NEW j \in Job
               PROVE  /\ job'[j].stage = job[j].stage /\ job'[j].id = job[j].id
                      /\ job'[j].proc = job[j].proc
                      /\ job'[j].line = job[j].line \/ job'[j].line = -1
                      /\ job'[j].stage = "completed" /\ job'[j].id = id => job'[j].line = -1
    OBVIOUS
  <2> DEFINE gone == [job[j] EXCEPT !.line = -1]
  <2>1. job'[j] = IF job[j].stage = "completed" /\ job[j].id = id THEN gone ELSE job[j]
    BY DEF Gone
  <2>2. job[j] \in Call
    BY <1>5
  <2>3. gone.stage = job[j].stage /\ gone.id = job[j].id /\ gone.proc = job[j].proc /\ gone.line = -1
    BY <2>2 DEF Call
  <2> HIDE DEF gone
  <2> QED
    BY <2>1, <2>3
<1>11. HistoryInv'
  <2>1. \A j \in Job : job'[j].line <= clock + 1
    BY <1>8, <1>9, <1>10
  <2>2. \A a \in acked' : a[2] <= clock + 1
    BY <1>1, <1>8, <1>9
  <2> QED
    BY <2>1, <2>2, <1>1 DEF HistoryInv
<1>12. /\ m.line <= clock'
       /\ disk # NoFile => disk.line <= clock'
  BY <1>1, <1>3, <1>8, <1>9 DEF Current
<1>13. \A a \in acked' : a[2] = m.line => a[3] \in Ids(m.tasks)
  BY <1>1, <1>3, <1>4, <1>9 DEF Honours
<1>14. ASSUME NEW j \in Job, job'[j].stage = "completed", job'[j].line = m.line
       PROVE  HoldsCheck(m.tasks, job'[j].id, j)
  <2>1. job'[j].line # -1
    BY <1>3, <1>8, <1>14
  <2>2. job[j].stage = "completed" /\ job[j].line = old.line /\ job[j].id # id
    BY <2>1, <1>3, <1>10, <1>14
  <2>3. HoldsCheck(s, job[j].id, j)
    BY <2>2, <1>9 DEF Honours
  <2> QED
    BY <2>2, <2>3, <1>3, <1>4, <1>10
<1>15. ASSUME disk # NoFile
       PROVE  /\ \A a \in acked' : a[2] = disk.line => a[3] \in Ids(disk.tasks)
              /\ \A j \in Job : job'[j].stage = "completed" /\ job'[j].line = disk.line
                   => HoldsCheck(disk.tasks, job'[j].id, j)
  <2>1. Honours(disk) /\ disk.line # -1
    BY <1>8, <1>9, <1>15
  <2> QED
    BY <2>1, <1>1, <1>10 DEF Honours
<1>16. GoodInv'
  <2>1. Good(mem[p])'
    BY <1>3, <1>4, <1>6, <1>12, <1>13, <1>14 DEF Good, Current, Honours
  <2>2. disk' # NoFile => Good(disk)'
    BY <1>1, <1>9, <1>12, <1>15 DEF Good, Current, Honours
  <2> QED
    BY <2>1, <2>2, <1>7 DEF GoodInv
<1>17. ASSUME disk # NoFile, NEW x \in Left(m, disk)
       PROVE  /\ disk.tasks[x].status # "active"
              /\ \A k \in DOMAIN after : Apart(disk.tasks[x], after[k])
  <2>1. Follows(old, disk) /\ Agrees(old, disk)
    BY <1>9, <1>17
  <2>2. x \in DOMAIN disk.tasks /\ disk.tasks[x].id \notin Ids(after)
    BY <1>3 DEF Left
  <2>3. CASE x \in Left(old, disk)
    <3>1. /\ disk.tasks[x].status # "active"
          /\ \A l \in DOMAIN s : Apart(disk.tasks[x], s[l])
      BY <2>1, <2>3 DEF Follows, Agrees
    <3> QED
      BY <3>1, <1>4
  <2>4. CASE x \notin Left(old, disk)
    <3>1. x \in DOMAIN s /\ disk.tasks[x] = s[x]
      BY <2>1, <2>2, <2>4 DEF Agrees
    <3>2. x = i
      BY <3>1, <2>2, <1>4
    <3> QED
      BY <3>1, <3>2, <1>1, <1>2, <1>4 DEF Orderly
  <2> QED
    BY <2>3, <2>4
<1>18. disk # NoFile => Follows(m, disk)
  BY <1>3, <1>9, <1>17 DEF Follows, Agrees
<1>19. FileInv'
  BY <1>1, <1>6, <1>7, <1>18 DEF FileInv
<1>20. RecordInv'
  <2>1. \A j \in Job : job[j].stage # "recorded"
    BY <1>1, <1>8 DEF AloneInv, RecordInv
  <2>2. \A j \in Job : job[j].stage = "completed" =>
          job[j].id \in TaskId /\ (job[j].line # -1 => disk # NoFile)
    BY DEF AloneInv, RecordInv
  <2> QED
    BY <2>1, <2>2, <1>1, <1>10 DEF RecordInv
<1> QED
  BY <1>11, <1>16, <1>19, <1>20 DEF AloneInv

LEMMA ResetAloneKeeps ==
  ASSUME Alone, CallInv, CallInv', AloneInv, NEW p \in Proc, Reset(p), Gone(TaskId)
  PROVE  AloneInv'
<1>1. /\ pc[p] = "idle" /\ mem' = [mem EXCEPT ![p] = Fresh] /\ disk' = NoFile
      /\ UNCHANGED <<pc, read>>
      /\ clock' = clock + 1 /\ acked' = {}
  BY DEF Reset, Store!Clear, Tick
<1>2. mem \in [Proc -> Sound(CheckKind \cup Job)] /\ job \in [Job -> Call]
  BY DEF CallInv, IInv, SoundInv
<1>3. mem'[p] = Fresh /\ pc'[p] = "idle" /\ (\A q \in Proc : q = p) /\ Up' \subseteq {p}
  BY <1>1, <1>2 DEF Alone, Up
<1>4. /\ clock \in Nat /\ clock' \in Nat /\ clock <= clock' /\ clock' <= clock'
      /\ \A j \in Job : job[j].line \in Nat \cup {-1} /\ job[j].line <= clock /\ job[j].proc = p
  <2>1. /\ clock \in Nat
        /\ \A j \in Job : job[j].line \in Nat \cup {-1} /\ job[j].proc = p
    BY <1>3, CycleFacts
  <2>2. \A j \in Job : job[j].line <= clock
    BY DEF AloneInv, HistoryInv
  <2> QED
    BY <2>1, <2>2, <1>1
<1>5. /\ Fresh.line = 0 /\ Fresh.stamp = 0 /\ Fresh.tasks = <<>>
      /\ Orderly(Fresh.tasks)
  BY DEF Fresh, Orderly
<1> HIDE DEF Fresh
<1>6. \A j \in Job : /\ job'[j].stage = job[j].stage /\ job'[j].id = job[j].id
                     /\ job'[j].proc = job[j].proc
                     /\ job'[j].line = job[j].line \/ job'[j].line = -1
                     /\ job'[j].stage = "completed" => job'[j].line = -1
  <2> SUFFICES ASSUME NEW j \in Job
               PROVE  /\ job'[j].stage = job[j].stage /\ job'[j].id = job[j].id
                      /\ job'[j].proc = job[j].proc
                      /\ job'[j].line = job[j].line \/ job'[j].line = -1
                      /\ job'[j].stage = "completed" => job'[j].line = -1
    OBVIOUS
  <2> DEFINE gone == [job[j] EXCEPT !.line = -1]
  <2>1. job'[j] = IF job[j].stage = "completed" /\ job[j].id \in TaskId THEN gone ELSE job[j]
    BY DEF Gone
  <2>2. gone.stage = job[j].stage /\ gone.id = job[j].id /\ gone.proc = job[j].proc /\ gone.line = -1
    BY <1>2 DEF Call
  <2>3. job[j].stage = "completed" => job[j].id \in TaskId
    BY DEF AloneInv, RecordInv
  <2> HIDE DEF gone
  <2> QED
    BY <2>1, <2>2, <2>3
<1>7. HistoryInv'
  <2>1. \A j \in Job : job'[j].line <= clock'
    BY <1>4, <1>6
  <2> QED
    BY <2>1, <1>1, <1>4 DEF HistoryInv
<1>8. GoodInv'
  <2>1. 0 <= clock' /\ 0 # -1
    BY <1>4
  <2>2. Good(mem[p])'
    BY <2>1, <1>1, <1>3, <1>5, <1>6 DEF Good, Current, Honours
  <2> QED
    BY <2>2, <1>1, <1>3 DEF GoodInv
<1>9. FileInv'
  BY <1>1, <1>3 DEF FileInv
<1>10. RecordInv'
  <2>1. \A j \in Job : job[j].stage # "recorded" /\ (job[j].stage = "completed" => job[j].id \in TaskId)
    BY <1>1, <1>4 DEF AloneInv, RecordInv
  <2> QED
    BY <2>1, <1>6 DEF RecordInv
<1> QED
  BY <1>7, <1>8, <1>9, <1>10 DEF AloneInv

LEMMA BootAloneKeeps ==
  ASSUME Alone, CallInv, CallInv', AloneInv, NEW p \in Proc, Boot(p), UNCHANGED job
  PROVE  AloneInv'
<1> DEFINE m == IF disk = NoFile THEN Fresh ELSE disk
<1>1. /\ pc[p] = "down" /\ mem' = [mem EXCEPT ![p] = m] /\ pc' = [pc EXCEPT ![p] = "idle"]
      /\ UNCHANGED <<read, disk, clock, resets, acked>>
  BY DEF Boot, Store!Boot, Quiet
<1>2. mem \in [Proc -> Sound(CheckKind \cup Job)] /\ pc \in [Proc -> Store!PC]
  BY DEF CallInv, IInv, SoundInv
<1>3. mem'[p] = m /\ pc'[p] = "idle" /\ (\A q \in Proc : q = p) /\ Up' \subseteq {p}
  BY <1>1, <1>2 DEF Alone, Up
<1>4. /\ clock \in Nat
      /\ \A j \in Job : job[j].proc = p
      /\ disk # NoFile => disk.stamp \in Nat /\ disk.nextAction \in Nat
      /\ \A a \in acked : disk # NoFile
  BY <1>3, CycleFacts
<1>5. Fresh.line = 0 /\ Fresh.stamp = 0 /\ Orderly(Fresh.tasks)
  BY DEF Fresh, Orderly
<1>6. HistoryInv'
  BY <1>1 DEF AloneInv, HistoryInv
<1>7. Current(m) /\ Orderly(m.tasks) /\ Honours(m)
  <2>1. CASE disk = NoFile
    <3>1. 0 <= clock /\ 0 # -1
      BY <1>4
    <3>2. \A j \in Job : job[j].stage = "completed" => job[j].line = -1
      BY <2>1 DEF AloneInv, RecordInv
    <3> QED
      BY <2>1, <3>1, <3>2, <1>4, <1>5 DEF Current, Honours
  <2>2. CASE disk # NoFile
    BY <2>2 DEF AloneInv, GoodInv, Good
  <2> QED
    BY <2>1, <2>2
<1>8. disk # NoFile => Follows(m, disk) /\ Agrees(m, disk)
  BY <1>4 DEF Follows, Agrees, Left, Ids
<1> HIDE DEF m
<1>9. GoodInv'
  <2>1. Good(mem[p])'
    BY <1>1, <1>3, <1>7 DEF Good, Current, Honours
  <2>2. disk' # NoFile => Good(disk)'
    BY <1>1 DEF AloneInv, GoodInv, Good, Current, Honours
  <2> QED
    BY <2>1, <2>2, <1>3 DEF GoodInv
<1>10. FileInv'
  BY <1>1, <1>3, <1>8 DEF FileInv
<1>11. RecordInv'
  BY <1>1, <1>4 DEF AloneInv, RecordInv
<1> QED
  BY <1>6, <1>9, <1>10, <1>11 DEF AloneInv

LEMMA LockAloneKeeps ==
  ASSUME Alone, CallInv, AloneInv, NEW p \in Proc, LockAndRead(p), UNCHANGED job
  PROVE  AloneInv'
<1>1. /\ pc[p] = "saving" /\ read' = [read EXCEPT ![p] = disk]
      /\ pc' = [pc EXCEPT ![p] = "locked"]
      /\ UNCHANGED <<mem, disk, clock, resets, acked>>
  BY DEF LockAndRead, Store!LockAndRead, Quiet
<1>2. pc \in [Proc -> Store!PC] /\ read \in [Proc -> Sound(CheckKind \cup Job) \cup {NoFile}]
  BY DEF CallInv, IInv, SoundInv
<1>3. read'[p] = disk /\ pc'[p] = "locked" /\ (\A q \in Proc : q = p) /\ Up' = Up /\ p \in Up
  BY <1>1, <1>2 DEF Alone, Up
<1>4. \A j \in Job : job[j].proc = p
  BY <1>3, CycleFacts
<1>5. HistoryInv' /\ GoodInv'
  BY <1>1, <1>3 DEF AloneInv, HistoryInv, GoodInv, Good, Current, Honours
<1>6. FileInv'
  BY <1>1, <1>3 DEF AloneInv, FileInv
<1>7. RecordInv'
  BY <1>1, <1>3, <1>4 DEF AloneInv, RecordInv
<1> QED
  BY <1>5, <1>6, <1>7 DEF AloneInv

\* What a save writes is memory, and what the file has beyond it.
LEMMA SavedIsOwn ==
  ASSUME NEW kinds, NEW m \in Sound(kinds), NEW d \in Sound(kinds), m.stamp = d.stamp => m.line = d.line,
         Orderly(m.tasks), Orderly(d.tasks), Follows(m, d)
  PROVE  LET e == MergeStates(m, d) IN
         /\ e.stamp = m.stamp /\ e.line = m.line /\ Orderly(e.tasks)
         /\ Follows(m, e) /\ Agrees(m, e)
<1> DEFINE e == MergeStates(m, d)
           s == m.tasks
           t == d.tasks
           u == UnionById(s, t)
           T == TaskWith(kinds)
<1>1. /\ m.stamp \in Nat /\ d.stamp \in Nat /\ m.nextAction \in Nat /\ d.nextAction \in Nat
      /\ s \in Seq(T) /\ t \in Seq(T)
  <2>1. /\ m.stamp \in Nat /\ d.stamp \in Nat /\ m.nextAction \in Nat /\ d.nextAction \in Nat
    BY SoundParts
  <2>2. m \in CycleWith(kinds) /\ d \in CycleWith(kinds)
    BY DEF Sound
  <2> QED
    BY <2>1, <2>2 DEF CycleWith
<1>2. CASE m.stamp # d.stamp
  <2>1. e = m
    BY <1>1, <1>2 DEF MergeStates, Follows
  <2>2. Follows(m, m) /\ Agrees(m, m)
    BY <1>1 DEF Follows, Agrees, Left, Ids
  <2> HIDE DEF e
  <2> QED
    BY <2>1, <2>2 DEF e
<1>3. CASE m.stamp = d.stamp
  <2> DEFINE next == IF m.nextAction >= d.nextAction THEN m.nextAction ELSE d.nextAction
  <2>1. next = m.nextAction
    BY <1>1, <1>3 DEF Follows
  <2>2. e = [m EXCEPT !.tasks = u, !.nextAction = next]
    BY <1>3 DEF MergeStates
  <2>3. e.stamp = m.stamp /\ e.line = m.line /\ e.tasks = u /\ e.nextAction = next
    <3> HIDE DEF u, next, e
    <3> DEFINE joined == [m EXCEPT !.tasks = u]
    <3>1. joined = [stamp |-> m.stamp, line |-> m.line, status |-> m.status,
                    tasks |-> u, nextAction |-> m.nextAction]
      BY Replaced
    <3>2. e = [joined EXCEPT !.nextAction = next]
      BY <2>2
    <3> HIDE DEF joined
    <3> QED
      BY <3>1, <3>2
  <2> HIDE DEF e, next
  <2>4. /\ u \in Seq(T) /\ Joins(u, s, t)
        /\ \A i \in DOMAIN s : i \in DOMAIN u /\ u[i] = s[i]
    <3>1. s \in Seq(T) /\ t \in Seq(T)
      BY <1>1
    <3>2. u = UnionById(s, t)
      OBVIOUS
    <3> HIDE DEF s, t, T, u
    <3>3. u \in Seq(T) /\ Joins(u, s, t)
      BY <3>1, <3>2, UnionPlaces
    <3> QED
      BY <3>3 DEF Joins
  <2>5. PICK f \in [DOMAIN u \ DOMAIN s -> {i \in DOMAIN t : t[i].id \notin Ids(s)}] :
             /\ \A k \in DOMAIN u \ DOMAIN s : u[k] = t[f[k]]
             /\ \A k, l \in DOMAIN u \ DOMAIN s : k # l => f[k] # f[l]
    <3> HIDE DEF s, t, u
    <3> QED
      BY <2>4 DEF Joins
  <2> HIDE DEF u
  <2>6. ASSUME NEW k \in DOMAIN u, k \notin DOMAIN s
        PROVE  /\ u[k] = t[f[k]] /\ f[k] \in Left(m, d)
               /\ u[k].id \notin Ids(s) /\ u[k].status # "active"
               /\ \A l \in DOMAIN s : Apart(u[k], s[l]) /\ Apart(s[l], u[k])
    <3>1. u[k] = t[f[k]] /\ f[k] \in DOMAIN t /\ t[f[k]].id \notin Ids(s)
      BY <2>5, <2>6
    <3>2. f[k] \in Left(m, d)
      BY <3>1 DEF Left
    <3>3. /\ t[f[k]].status # "active"
          /\ \A l \in DOMAIN s : Apart(t[f[k]], s[l])
      BY <3>2, <1>3 DEF Follows
    <3> QED
      BY <3>1, <3>2, <3>3 DEF Apart
  <2>7. Orderly(u)
    <3>1. ASSUME NEW k \in DOMAIN u, NEW l \in DOMAIN u, u[k].status = "active", u[l].status = "active"
          PROVE  k = l
      <4>1. k \in DOMAIN s /\ l \in DOMAIN s
        BY <2>6, <3>1
      <4>2. u[k] = s[k] /\ u[l] = s[l]
        BY <4>1, <2>4
      <4> QED
        BY <4>1, <4>2, <3>1 DEF Orderly
    <3>2. ASSUME NEW k \in DOMAIN u, NEW l \in DOMAIN u, k # l
          PROVE  Apart(u[k], u[l])
      <4>1. CASE k \in DOMAIN s /\ l \in DOMAIN s
        <5>1. u[k] = s[k] /\ u[l] = s[l]
          BY <4>1, <2>4
        <5> QED
          BY <4>1, <5>1, <3>2 DEF Orderly
      <4>2. CASE k \in DOMAIN s /\ l \notin DOMAIN s
        <5>1. u[k] = s[k]
          BY <4>2, <2>4
        <5> QED
          BY <4>2, <5>1, <2>6
      <4>3. CASE k \notin DOMAIN s /\ l \in DOMAIN s
        <5>1. u[l] = s[l]
          BY <4>3, <2>4
        <5> QED
          BY <4>3, <5>1, <2>6
      <4>4. CASE k \notin DOMAIN s /\ l \notin DOMAIN s
        <5>1. /\ u[k] = t[f[k]] /\ u[l] = t[f[l]] /\ f[k] # f[l]
              /\ f[k] \in DOMAIN t /\ f[l] \in DOMAIN t
          BY <4>4, <2>5, <2>6, <3>2 DEF Left
        <5> QED
          BY <5>1 DEF Orderly
      <4> QED
        BY <4>1, <4>2, <4>3, <4>4
    <3> QED
      BY <3>1, <3>2 DEF Orderly
  <2>8. Agrees(m, e)
    <3>1. \A k \in DOMAIN e.tasks : k \in DOMAIN s \/ k \in Left(m, e)
      BY <2>3, <2>6 DEF Left
    <3> QED
      BY <3>1, <2>3, <2>4 DEF Agrees
  <2>9. Follows(m, e)
    <3>1. \A k \in Left(m, e) : k \in DOMAIN u /\ k \notin DOMAIN s
      <4>1. \A k \in DOMAIN s : u[k].id \in Ids(s)
        BY <2>4 DEF Ids
      <4> QED
        BY <4>1, <2>3 DEF Left
    <3>2. e.stamp <= m.stamp /\ e.nextAction <= m.nextAction
      BY <1>1, <2>1, <2>3
    <3> QED
      BY <3>1, <3>2, <2>3, <2>6 DEF Follows
  <2> QED
    BY <2>3, <2>7, <2>8, <2>9 DEF e
<1> QED
  BY <1>2, <1>3

\* The end of a save, and of the call that made it.
LEMMA AnswerKeeps ==
  ASSUME Alone, CallInv, CallInv', AloneInv, NEW p \in Proc, Answer(p)
  PROVE  AloneInv'
<1> DEFINE K == CheckKind \cup Job
           m == mem[p]
           e == disk'
           T == TaskWith(K)
<1>1. /\ pc[p] = "locked" /\ disk' = Store!Saved(m, read[p])
      /\ read' = [read EXCEPT ![p] = NoFile] /\ pc' = [pc EXCEPT ![p] = "idle"]
      /\ UNCHANGED <<mem, clock, resets>>
      /\ acked' \subseteq acked \cup {<<m.stamp, m.line, id>> : id \in Ids(m.tasks)}
      /\ job' = [j \in Job |-> IF j \in Ours(p, "recorded") THEN [job[j] EXCEPT !.stage = "completed"]
                               ELSE job[j]]
  BY DEF Answer, RenameAndUnlock, Promised, Store!RenameAndUnlock, Quiet
<1>2. /\ mem \in [Proc -> Sound(K)] /\ pc \in [Proc -> Store!PC] /\ job \in [Job -> Call]
      /\ disk \in Sound(K) \cup {NoFile} /\ NoFile \notin CycleWith(K)
  BY JobAssumption DEF CallInv, IInv, SoundInv
<1>3. pc'[p] = "idle" /\ (\A q \in Proc : q = p) /\ p \in Up /\ Up' \subseteq {p}
  BY <1>1, <1>2 DEF Alone, Up
<1>4. /\ clock \in Nat
      /\ m.stamp \in Nat /\ m.line \in Nat /\ m.nextAction \in Nat
      /\ \A a \in acked : a[2] \in Nat
      /\ \A j \in Job : job[j].line \in Nat \cup {-1} /\ job[j].proc = p
      /\ disk # NoFile => (m.stamp = disk.stamp => m.line = disk.line)
  BY <1>3, CycleFacts
<1>5. /\ (\A a \in acked : a[2] <= clock) /\ (\A j \in Job : job[j].line <= clock)
      /\ Current(m) /\ Orderly(m.tasks) /\ Honours(m)
      /\ read[p] = disk
      /\ disk # NoFile => Orderly(disk.tasks) /\ Follows(m, disk)
  BY <1>1, <1>3 DEF AloneInv, HistoryInv, GoodInv, Good, FileInv
<1>6. /\ e.stamp = m.stamp /\ e.line = m.line /\ Orderly(e.tasks)
      /\ Follows(m, e) /\ Agrees(m, e) /\ e # NoFile
  <2>1. CASE disk = NoFile
    <3>1. e = m /\ m # NoFile
      BY <2>1, <1>1, <1>2, <1>5 DEF Store!Saved, Sound
    <3>2. Follows(m, m) /\ Agrees(m, m)
      BY <1>4 DEF Follows, Agrees, Left, Ids
    <3> QED
      BY <3>1, <3>2, <1>5
  <2>2. CASE disk # NoFile
    <3>1. disk \in Sound(K) /\ m \in Sound(K)
      BY <2>2, <1>2
    <3>2. e = MergeStates(m, disk)
      BY <2>2, <1>1, <1>5 DEF Store!Saved
    <3> DEFINE r == MergeStates(m, disk)
    <3>3. m.stamp = disk.stamp => m.line = disk.line
      BY <2>2, <1>4
    <3>4. Orderly(m.tasks) /\ Orderly(disk.tasks) /\ Follows(m, disk)
      BY <2>2, <1>5
    <3> HIDE DEF m, K
    <3>5. /\ r.stamp = m.stamp /\ r.line = m.line /\ Orderly(r.tasks)
          /\ Follows(m, r) /\ Agrees(m, r)
      BY <3>1, <3>3, <3>4, SavedIsOwn
    <3>6. r \in Sound(K)
      BY <3>1, <3>3, MergeFacts
    <3> HIDE DEF r
    <3>7. e = r
      BY <3>2 DEF r
    <3> QED
      BY <3>5, <3>6, <3>7, <1>2 DEF Sound
  <2> QED
    BY <2>1, <2>2
<1>7. /\ Ids(m.tasks) \subseteq Ids(e.tasks)
      /\ \A id, j : HoldsCheck(m.tasks, id, j) => HoldsCheck(e.tasks, id, j)
  <2>1. m.tasks \in Seq(T)
    <3>1. m \in CycleWith(K)
      BY <1>2 DEF Sound
    <3> QED
      BY <3>1 DEF CycleWith
  <2>2. e.tasks \in Seq(T)
    <3>1. e \in Sound(K)
      BY <1>6 DEF CallInv, IInv, SoundInv
    <3>2. e \in CycleWith(K)
      BY <3>1 DEF Sound
    <3> QED
      BY <3>2 DEF CycleWith
  <2>3. \A i \in DOMAIN m.tasks : /\ i \in DOMAIN e.tasks /\ e.tasks[i].id = m.tasks[i].id
                                  /\ m.tasks[i].checks \subseteq e.tasks[i].checks
    BY <1>6 DEF Agrees
  <2> HIDE DEF m, e, T
  <2> QED
    BY <2>1, <2>2, <2>3, ChecksStay
<1>8. \A j \in Job :
        /\ job'[j].id = job[j].id /\ job'[j].proc = p /\ job'[j].line = job[j].line
        /\ job'[j].stage # "recorded"
        /\ job'[j].stage = "completed" => job[j].stage \in {"completed", "recorded"}
  <2> SUFFICES ASSUME NEW j \in Job
               PROVE  /\ job'[j].id = job[j].id /\ job'[j].proc = p /\ job'[j].line = job[j].line
                      /\ job'[j].stage # "recorded"
                      /\ job'[j].stage = "completed" => job[j].stage \in {"completed", "recorded"}
    OBVIOUS
  <2> DEFINE done == [job[j] EXCEPT !.stage = "completed"]
  <2>1. job'[j] = IF job[j].stage = "recorded" THEN done ELSE job[j]
    BY <1>1, <1>4 DEF Ours
  <2>2. /\ done.stage = "completed" /\ done.id = job[j].id /\ done.proc = job[j].proc
        /\ done.line = job[j].line
    BY <1>2 DEF Call
  <2> HIDE DEF done
  <2> QED
    BY <2>1, <2>2, <1>4
<1>9. \A j \in Job : job'[j].stage = "completed" =>
        /\ job[j].line = m.line => HoldsCheck(m.tasks, job[j].id, j)
        /\ job[j].id \in TaskId
  <2> SUFFICES ASSUME NEW j \in Job, job'[j].stage = "completed"
               PROVE  /\ job[j].line = m.line => HoldsCheck(m.tasks, job[j].id, j)
                      /\ job[j].id \in TaskId
    OBVIOUS
  <2>1. CASE job[j].stage = "completed"
    BY <2>1, <1>5 DEF Honours, AloneInv, RecordInv
  <2>2. CASE job[j].stage = "recorded"
    <3>1. HoldsCheck(m.tasks, job[j].id, j)
      BY <2>2, <1>4 DEF AloneInv, RecordInv
    <3>2. \A i \in DOMAIN m.tasks : m.tasks[i].id \in TaskId
      <4>1. m \in CycleWith(K)
        BY <1>2 DEF Sound
      <4>2. m.tasks \in Seq(TaskWith(K))
        BY <4>1 DEF CycleWith
      <4>3. \A i \in DOMAIN m.tasks : m.tasks[i] \in TaskWith(K)
        BY <4>2
      <4> QED
        BY <4>3 DEF TaskWith
    <3> QED
      BY <3>1, <3>2 DEF HoldsCheck
  <2> QED
    BY <2>1, <2>2, <1>8
<1>10. \A a \in acked' : /\ a[2] = m.line => a[3] \in Ids(m.tasks)
                         /\ a[2] <= clock
  <2> SUFFICES ASSUME NEW a \in acked'
               PROVE  (a[2] = m.line => a[3] \in Ids(m.tasks)) /\ a[2] <= clock
    OBVIOUS
  <2>1. CASE a \in acked
    BY <2>1, <1>5 DEF Honours
  <2>2. CASE a \notin acked
    <3>1. PICK id \in Ids(m.tasks) : a = <<m.stamp, m.line, id>>
      BY <2>2, <1>1
    <3> QED
      BY <3>1, <1>5 DEF Current
  <2> QED
    BY <2>1, <2>2
<1>11. HistoryInv'
  BY <1>1, <1>5, <1>8, <1>10 DEF HistoryInv
<1>12. GoodInv'
  <2>1. Good(mem[p])'
    BY <1>1, <1>5, <1>8, <1>9, <1>10 DEF Good, Current, Honours
  <2>2. /\ e.line <= clock' /\ Orderly(e.tasks)
        /\ \A a \in acked' : a[2] = e.line => a[3] \in Ids(e.tasks)
        /\ \A j \in Job : job'[j].stage = "completed" /\ job'[j].line = e.line
             => HoldsCheck(e.tasks, job'[j].id, j)
    <3> HIDE DEF e, m
    <3> QED
      BY <1>1, <1>5, <1>6, <1>7, <1>8, <1>9, <1>10 DEF Current
  <2>3. Good(disk)'
    BY <2>2 DEF Good, Current, Honours
  <2> QED
    BY <2>1, <2>3, <1>3 DEF GoodInv
<1>13. FileInv'
  <2>1. /\ Follows(mem[p], disk)' /\ Agrees(mem[p], disk)'
    BY <1>1, <1>6
  <2> QED
    BY <2>1, <1>3 DEF FileInv
<1>14. RecordInv'
  BY <1>6, <1>8, <1>9 DEF RecordInv
<1> QED
  BY <1>11, <1>12, <1>13, <1>14 DEF AloneInv

LEMMA DieAloneKeeps ==
  ASSUME Alone, CallInv, AloneInv, NEW p \in Proc, Die(p)
  PROVE  AloneInv'
<1>1. /\ pc' = [pc EXCEPT ![p] = "down"]
      /\ UNCHANGED <<disk, clock, resets, acked>>
      /\ job' = [j \in Job |-> IF j \in Ours(p, "running") \cup Ours(p, "recorded")
                               THEN [job[j] EXCEPT !.stage = "lost"] ELSE job[j]]
  BY DEF Die, Crash, Store!Crash, Quiet
<1>2. pc \in [Proc -> Store!PC] /\ job \in [Job -> Call]
  BY DEF CallInv, IInv, SoundInv
<1>3. pc'[p] = "down" /\ (\A q \in Proc : q = p) /\ Up' = {}
  BY <1>1, <1>2 DEF Alone, Up
<1>4. \A j \in Job : job[j].proc = p
  BY <1>3, CycleFacts
<1>5. \A j \in Job : /\ job'[j].line = job[j].line /\ job'[j].stage # "recorded"
                     /\ job'[j].stage = "completed" => job'[j] = job[j]
  <2> SUFFICES ASSUME NEW j \in Job
               PROVE  /\ job'[j].line = job[j].line /\ job'[j].stage # "recorded"
                      /\ job'[j].stage = "completed" => job'[j] = job[j]
    OBVIOUS
  <2> DEFINE lost == [job[j] EXCEPT !.stage = "lost"]
  <2>1. job'[j] = IF job[j].stage \in {"running", "recorded"} THEN lost ELSE job[j]
    BY <1>1, <1>4 DEF Ours
  <2>2. lost.stage = "lost" /\ lost.line = job[j].line
    BY <1>2 DEF Call
  <2> HIDE DEF lost
  <2> QED
    BY <2>1, <2>2
<1>6. HistoryInv'
  BY <1>1, <1>5 DEF AloneInv, HistoryInv
<1>7. GoodInv'
  BY <1>1, <1>3, <1>5 DEF AloneInv, GoodInv, Good, Current, Honours
<1>8. FileInv'
  BY <1>3 DEF FileInv
<1>9. RecordInv'
  BY <1>1, <1>5 DEF AloneInv, RecordInv
<1> QED
  BY <1>6, <1>7, <1>8, <1>9 DEF AloneInv

\* What a call does before its command has ended, or instead of recording it.
LEMMA CallsAloneKeep ==
  ASSUME AloneInv, UNCHANGED vars,
         \A j \in Job : job'[j] # job[j] =>
           job'[j].stage \notin {"recorded", "completed"} /\ job'[j].line <= clock
  PROVE  AloneInv'
<1>1. UNCHANGED <<mem, pc, read, disk, clock, resets, acked>>
  BY DEF vars
<1>2. HistoryInv'
  BY <1>1 DEF AloneInv, HistoryInv
<1>3. \A j \in Job : job'[j].stage \in {"recorded", "completed"} => job'[j] = job[j]
  OBVIOUS
<1>4. GoodInv'
  <2>1. \A m : Honours(m) =>
          /\ \A a \in acked' : a[2] = m.line => a[3] \in Ids(m.tasks)
          /\ \A j \in Job : job'[j].stage = "completed" /\ job'[j].line = m.line
               => HoldsCheck(m.tasks, job'[j].id, j)
    BY <1>1, <1>3 DEF Honours
  <2>2. \A p \in Up : Good(mem[p])'
    BY <1>1, <2>1 DEF AloneInv, GoodInv, Good, Current, Honours
  <2>3. disk # NoFile => Good(disk)'
    BY <1>1, <2>1 DEF AloneInv, GoodInv, Good, Current, Honours
  <2> QED
    BY <1>1, <2>2, <2>3 DEF GoodInv, Up
<1>5. FileInv'
  BY <1>1 DEF AloneInv, FileInv, Up
<1>6. RecordInv'
  BY <1>1, <1>3 DEF AloneInv, RecordInv
<1> QED
  BY <1>2, <1>4, <1>5, <1>6 DEF AloneInv

LEMMA EndCheckAloneKeeps ==
  ASSUME Alone, CallInv, CallInv', AloneInv, NEW k \in Job, EndCheck(k)
  PROVE  AloneInv'
<1> DEFINE p == job[k].proc
           id == Target(p, job[k].id)
           call == [job[k] EXCEPT !.stage = "recorded", !.id = id, !.line = mem[p].line]
<1>1. RecordCheck(p, id, k) /\ job' = [job EXCEPT ![k] = call]
  BY DEF EndCheck
<1>2. p \in Proc /\ job \in [Job -> Call]
  BY DEF CallInv, Call
<1>3. /\ call.stage = "recorded" /\ call.proc = p /\ call.line = mem[p].line /\ call.id = id
  BY <1>2 DEF Call
<1> HIDE DEF call, id, p
<1>4. PICK m : GrownTo(p, m) /\ m.line = mem[p].line /\ HoldsCheck(m.tasks, id, k)
  BY <1>1, <1>2, RecordCheckGrows
<1>5. \A j \in Job : job'[j] # job[j] =>
        /\ job'[j].stage = "recorded" /\ job'[j].proc = p /\ job'[j].line = m.line
        /\ HoldsCheck(m.tasks, job'[j].id, j)
  BY <1>1, <1>2, <1>3, <1>4
<1> QED
  BY <1>2, <1>4, <1>5, GrownKeeps

\* A call of the family, by what it does to a plan.
LEMMA PlanAloneKeeps ==
  ASSUME Alone, CallInv, CallInv', AloneInv, NEW p \in Proc, Plan(p), UNCHANGED job
  PROVE  AloneInv'
<1>1. ASSUME \E m : GrownTo(p, m)
      PROVE  AloneInv'
  BY <1>1, GrownKeeps
<1>2. CASE SetObjective(p)
  BY <1>1, <1>2, StatusOnlyGrows, FreshObjectiveKeeps
<1>3. CASE \E id \in TaskId : AddTask(p, id)
  BY <1>1, <1>3, AddTaskGrows
<1>4. CASE \E id \in TaskId : StartTask(p, id) \/ CompleteTask(p, id) \/ BlockTask(p, id)
  BY <1>1, <1>4, StatusGrows
<1>5. CASE \E id \in TaskId : RecordAction(p, id)
  BY <1>1, <1>5, RecordActionGrows
<1>6. CASE \E id \in TaskId : \E kind \in CheckKind : RecordCheck(p, id, kind)
  BY <1>1, <1>6, RecordCheckGrows
<1>7. CASE Finalize(p)
  BY <1>1, <1>7, StatusOnlyGrows
<1>8. CASE Boot(p)
  BY <1>8, BootAloneKeeps
<1>9. CASE LockAndRead(p)
  BY <1>9, LockAloneKeeps
<1> QED
  BY <1>2, <1>3, <1>4, <1>5, <1>6, <1>7, <1>8, <1>9 DEF Plan

LEMMA AloneStepKeeps ==
  ASSUME Alone, CallInv, AloneInv, [NextC]_varsC
  PROVE  AloneInv'
<1>1. CallInv'
  BY CallStepKeeps
<1>2. /\ job \in [Job -> Call] /\ clock \in Nat
      /\ \A j \in Job : job[j].line <= clock
  BY CycleFacts DEF CallInv, AloneInv, HistoryInv
<1>3. CASE \E p \in Proc : Plan(p) /\ UNCHANGED job
  BY <1>1, <1>3, PlanAloneKeeps
<1>4. CASE \E p \in Proc : \E id \in TaskId : RemoveTask(p, id) /\ Gone({id})
  BY <1>1, <1>4, RemoveTaskKeeps
<1>5. CASE \E p \in Proc : Reset(p) /\ Gone(TaskId)
  BY <1>1, <1>5, ResetAloneKeeps
<1>6. CASE \E p \in Proc : Answer(p)
  BY <1>1, <1>6, AnswerKeeps
<1>7. CASE \E p \in Proc : Die(p)
  BY <1>7, DieAloneKeeps
<1>8. ASSUME NEW j \in Job, NEW p \in Proc, NEW id, StartCheck(p, j, id)
      PROVE  AloneInv'
  <2> DEFINE call == [stage |-> "running", id |-> id, line |-> 0, proc |-> p]
  <2>1. job' = [job EXCEPT ![j] = call] /\ UNCHANGED vars
    BY <1>8 DEF StartCheck
  <2>2. call.stage = "running" /\ call.line <= clock
    BY <1>2
  <2> HIDE DEF call
  <2>3. \A k \in Job : job'[k] # job[k] =>
          job'[k].stage \notin {"recorded", "completed"} /\ job'[k].line <= clock
    BY <2>1, <2>2, <1>2
  <2> QED
    BY <2>1, <2>3, CallsAloneKeep
<1>9. ASSUME NEW j \in Job, EndCheckRefused(j) \/ Cancel(j)
      PROVE  AloneInv'
  <2>1. PICK end \in {"refused", "cancelled"} : Settle(j, end) /\ UNCHANGED vars
    BY <1>9 DEF EndCheckRefused, Cancel
  <2> DEFINE call == [job[j] EXCEPT !.stage = end]
  <2>2. job' = [job EXCEPT ![j] = call]
    BY <2>1 DEF Settle
  <2>3. call.stage = end /\ call.line = job[j].line
    BY <1>2 DEF Call
  <2> HIDE DEF call
  <2>4. \A k \in Job : job'[k] # job[k] =>
          job'[k].stage \notin {"recorded", "completed"} /\ job'[k].line <= clock
    BY <2>1, <2>2, <2>3, <1>2
  <2> QED
    BY <2>1, <2>4, CallsAloneKeep
<1>10. CASE \E j \in Job : EndCheck(j)
  BY <1>1, <1>10, EndCheckAloneKeeps
<1>11. CASE UNCHANGED varsC
  <2>1. UNCHANGED vars /\ UNCHANGED job
    BY <1>11 DEF varsC
  <2> QED
    BY <2>1, CallsAloneKeep
<1> QED
  BY <1>3, <1>4, <1>5, <1>6, <1>7, <1>8, <1>9, <1>10, <1>11 DEF NextC

LEMMA InitAloneInv ==
  ASSUME InitC
  PROVE  AloneInv
<1>1. /\ clock = 0 /\ acked = {} /\ disk = NoFile
      /\ Up = {}
      /\ \A j \in Job : job[j].stage = "new" /\ job[j].line = 0
  BY DEF InitC, Init, Up, NoJob
<1> QED
  BY <1>1 DEF AloneInv, HistoryInv, GoodInv, FileInv, RecordInv

\* Of a server alone on its store, what it did not lose and what it may not undo.
THEOREM AloneInvariance == Alone => (SpecC => []AloneInv)
<1>1. InitC => AloneInv
  BY InitAloneInv
<1>2. Alone /\ CallInv /\ AloneInv /\ [NextC]_varsC => AloneInv'
  BY AloneStepKeeps
<1> SUFFICES ASSUME Alone
             PROVE  SpecC => []AloneInv
  OBVIOUS
<1>3. CallInv /\ AloneInv /\ [NextC]_varsC => AloneInv'
  BY <1>2
<1> QED
  BY <1>1, <1>3, CallInvariance, PTL DEF SpecC

\* No action id on file is of two tasks (record_action, merge_states).
THEOREM AloneActionIdsAreUnique == Alone => (SpecC => []ActionIdsAreUnique)
<1> SUFFICES ASSUME Alone
             PROVE  SpecC => []ActionIdsAreUnique
  OBVIOUS
<1>1. AloneInv => ActionIdsAreUnique
  BY DEF AloneInv, GoodInv, Good, Orderly, Apart, ActionIdsAreUnique
<1> QED
  BY <1>1, AloneInvariance, PTL

\* A task acknowledged under an objective in flight outlives its rewording
\* (set_objective).
THEOREM AloneOverwriteKeepsTasks == Alone => (SpecC => []InFlightOverwriteKeepsTasks)
<1> SUFFICES ASSUME Alone
             PROVE  SpecC => []InFlightOverwriteKeepsTasks
  OBVIOUS
<1>1. AloneInv => InFlightOverwriteKeepsTasks
  BY DEF AloneInv, GoodInv, Good, Honours, InFlightOverwriteKeepsTasks
<1> QED
  BY <1>1, AloneInvariance, PTL

\* A check that was answered is on file (ship/mcp/handlers.rs, mcp/tasks.rs).
THEOREM AloneAnsweredIsOnFile == Alone => (SpecC => []AnsweredIsOnFile)
<1> SUFFICES ASSUME Alone
             PROVE  SpecC => []AnsweredIsOnFile
  OBVIOUS
<1>1. CallInv /\ AloneInv => AnsweredIsOnFile
  <2> SUFFICES ASSUME CallInv, AloneInv, NEW j \in Job, job[j].stage = "completed",
                      disk # NoFile, disk.line = job[j].line,
                      TaskIndex(disk.tasks, job[j].id) # 0
               PROVE  j \in disk.tasks[TaskIndex(disk.tasks, job[j].id)].checks
    BY DEF AnsweredIsOnFile
  <2> DEFINE s == disk.tasks
             id == job[j].id
             n == TaskIndex(s, id)
             A == OwnTask(CheckKind \cup Job, disk.line, disk.nextAction)
  <2>1. s \in Seq(A)
    BY CycleFacts
  <2>2. HoldsCheck(s, id, j)
    BY DEF AloneInv, GoodInv, Good, Honours
  <2>3. n # 0
    OBVIOUS
  <2> HIDE DEF s, id, A
  <2>4. n \in 1 .. Len(s) /\ s[n].id = id /\ \A k \in 1 .. n - 1 : s[k].id # id
    BY <2>1, <2>3, IndexFacts, FirstIndex
  <2>5. PICK i \in DOMAIN s : /\ s[i].id = id /\ j \in s[i].checks
                              /\ \A k \in 1 .. i - 1 : s[k].id # id
    BY <2>2 DEF HoldsCheck
  <2>6. i \in 1 .. Len(s) /\ Len(s) \in Nat
    BY <2>1
  <2> HIDE DEF n
  <2>7. i = n
    BY <2>4, <2>5, <2>6
  <2> QED
    BY <2>5, <2>7 DEF s, id, n
<1> QED
  BY <1>1, CallInvariance, AloneInvariance, PTL

-----------------------------------------------------------------------------
(* Approval gates, for any number of sessions, on any clocks, and for every *)
(* expiry.  ApprovalGate, which has names in common with ShipStore, is an   *)
(* instance here, with the state and the properties of GateState.           *)

Gate == INSTANCE ApprovalGate

\* A session that got past opening waits on a gate the workspace has.
GateOpened ==
  \A s \in Session :
    stage[s] \in {"waiting", "judging", "answered", "expired", "unreachable"}
    => record # "absent"

\* An answer once fetched stays the answer, and none fetched after the expiry is none
\* for good.
RepliesStand ==
  \A s \in Session :
    /\ fetched[s] <= now
    /\ reply[s] \in Choice => record = reply[s]
    /\ reply[s] = None /\ fetched[s] >= Expiry => record \notin Choice

\* An outcome is that of the copy it was judged by.
OutcomesFollow ==
  \A s \in Session :
    /\ stage[s] = "answered" => reply[s] \in Choice /\ outcome[s] = reply[s]
    /\ stage[s] = "expired" => reply[s] = None /\ outcome[s] = Default

GateIInv == Gate!TypeOK /\ GateOpened /\ RepliesStand /\ OutcomesFollow

LEMMA GateInit ==
  ASSUME Gate!Init
  PROVE  GateIInv
<1>1. now \in 0 .. MaxTime /\ fetched \in [Session -> 0 .. MaxTime]
  BY GateAssumption DEF Gate!Init
<1>2. Gate!TypeOK
  BY <1>1 DEF Gate!Init, Gate!TypeOK, Gate!Stage
<1>3. GateOpened /\ OutcomesFollow
  BY DEF Gate!Init, GateOpened, OutcomesFollow
<1>4. RepliesStand
  <2>1. record \notin Choice
    BY GateAssumption DEF Gate!Init
  <2>2. ASSUME NEW s \in Session
        PROVE  fetched[s] <= now /\ reply[s] \notin Choice
    BY GateAssumption DEF Gate!Init
  <2> QED BY <2>1, <2>2 DEF RepliesStand
<1> QED BY <1>2, <1>3, <1>4 DEF GateIInv

\* Storing the gate makes it present and takes no answer away.
LEMMA StoredKeepsAnswers ==
  ASSUME GateIInv, Gate!Stored
  PROVE  /\ record' \in Choice \cup {None}
         /\ record \in Choice => record' = record
         /\ record' \in Choice => record' = record
BY GateAssumption DEF GateIInv, Gate!TypeOK, Gate!Stored

\* The steps of opening: no session but the opener moves, and it waits only on a gate
\* that is stored.
LEMMA OpeningKeepsGate ==
  ASSUME GateIInv,
         Gate!Open \/ Gate!Opened \/ Gate!OpenFails \/ Gate!OpenRefused \/ Gate!Flush
  PROVE  GateIInv'
<1>1. /\ UNCHANGED <<now, up, reply, fetched>>
      /\ queued' \in BOOLEAN
      /\ record' \in Choice \cup {None, "absent"}
      /\ record # "absent" => record' # "absent"
      /\ record \in Choice => record' = record
      /\ record' \in Choice => record' = record
  BY StoredKeepsAnswers, GateAssumption
  DEF Gate!Open, Gate!Opened, Gate!OpenFails, Gate!OpenRefused,
      Gate!Unopened, Gate!Flush, GateIInv, Gate!TypeOK
<1>2. \/ UNCHANGED <<stage, outcome>>
      \/ Gate!To(Opener, "opening") /\ UNCHANGED outcome
      \/ Gate!To(Opener, "waiting") /\ UNCHANGED outcome /\ record' # "absent"
      \/ Gate!To(Opener, "unopened") /\ Gate!Take(Opener, Default)
  BY StoredKeepsAnswers, GateAssumption
  DEF Gate!Open, Gate!Opened, Gate!OpenFails, Gate!OpenRefused,
      Gate!Unopened, Gate!Flush
<1>3. Gate!TypeOK'
  BY <1>1, <1>2, GateAssumption DEF GateIInv, Gate!TypeOK, Gate!To, Gate!Take,
                    Gate!Stage, Gate!Settled
<1>4. GateOpened'
  BY <1>1, <1>2, GateAssumption DEF GateIInv, Gate!TypeOK, GateOpened, Gate!To
<1>5. RepliesStand'
  BY <1>1, GateAssumption DEF GateIInv, Gate!TypeOK, RepliesStand
<1>6. OutcomesFollow'
  BY <1>1, <1>2, GateAssumption DEF GateIInv, Gate!TypeOK, OutcomesFollow, Gate!To,
                    Gate!Take
<1> QED BY <1>3, <1>4, <1>5, <1>6 DEF GateIInv

\* The steps of a session that waits.
LEMMA WaitingKeepsGate ==
  ASSUME GateIInv, NEW s \in Session,
         Gate!Join(s) \/ Gate!Fetch(s) \/ Gate!FetchFails(s) \/ Gate!Resolve(s)
  PROVE  GateIInv'
<1>1. UNCHANGED <<now, up, record, queued>>
  BY DEF Gate!Join, Gate!Fetch, Gate!FetchFails, Gate!Resolve, Gate!Judged
<1>2. CASE Gate!Join(s)
  <2>1. record # "absent"
    BY <1>2, GateAssumption DEF Gate!Join, GateIInv, GateOpened
  <2>2. Gate!TypeOK' /\ GateOpened'
    BY <1>1, <1>2, <2>1 DEF Gate!Join, Gate!To, GateIInv, Gate!TypeOK, GateOpened, Gate!Stage
  <2>3. RepliesStand' /\ OutcomesFollow'
    BY <1>1, <1>2 DEF Gate!Join, Gate!To, GateIInv, Gate!TypeOK, RepliesStand, OutcomesFollow
  <2> QED BY <2>2, <2>3 DEF GateIInv
<1>3. CASE Gate!Fetch(s)
  <2>1. record \in Choice \cup {None}
    BY <1>3 DEF Gate!Fetch, GateIInv, Gate!TypeOK, GateOpened
  <2>2. Gate!TypeOK' /\ GateOpened'
    BY <1>1, <1>3, <2>1 DEF Gate!Fetch, Gate!To, GateIInv, Gate!TypeOK, GateOpened, Gate!Stage
  <2>3. RepliesStand'
    BY <1>1, <1>3, <2>1, GateAssumption DEF Gate!Fetch, GateIInv, Gate!TypeOK, RepliesStand
  <2>4. OutcomesFollow'
    BY <1>1, <1>3 DEF Gate!Fetch, Gate!To, GateIInv, Gate!TypeOK, OutcomesFollow
  <2> QED BY <2>2, <2>3, <2>4 DEF GateIInv
<1>4. CASE Gate!FetchFails(s)
  <2>1. Gate!TypeOK' /\ GateOpened'
    BY <1>1, <1>4, GateAssumption
    DEF Gate!FetchFails, Gate!To, Gate!Take, GateIInv, Gate!TypeOK,
        GateOpened, Gate!Stage, Gate!Settled
  <2>2. RepliesStand' /\ OutcomesFollow'
    BY <1>1, <1>4 DEF Gate!FetchFails, Gate!To, Gate!Take, GateIInv, Gate!TypeOK,
                      RepliesStand, OutcomesFollow
  <2> QED BY <2>1, <2>2 DEF GateIInv
<1>5. CASE Gate!Resolve(s)
  <2>1. /\ UNCHANGED <<reply, fetched>> /\ stage[s] = "judging"
        /\ \/ reply[s] # None /\ Gate!To(s, "answered") /\ Gate!Take(s, reply[s])
           \/ reply[s] = None /\ Gate!To(s, "expired") /\ Gate!Take(s, Default)
           \/ Gate!To(s, "waiting") /\ Gate!Take(s, None)
    BY <1>5 DEF Gate!Resolve, Gate!Judged
  <2>2. Gate!TypeOK' /\ GateOpened'
    BY <1>1, <2>1, GateAssumption DEF Gate!To, Gate!Take, GateIInv, Gate!TypeOK,
                      GateOpened, Gate!Stage, Gate!Settled
  <2>3. RepliesStand'
    BY <1>1, <2>1 DEF GateIInv, RepliesStand
  <2>4. OutcomesFollow'
    BY <1>1, <2>1 DEF Gate!To, Gate!Take, GateIInv, Gate!TypeOK, OutcomesFollow
  <2> QED BY <2>2, <2>3, <2>4 DEF GateIInv
<1> QED BY <1>2, <1>3, <1>4, <1>5

\* The backend lets in one answer, before the expiry; time only goes on.
LEMMA BackendKeepsGate ==
  ASSUME GateIInv,
      (\E choice \in Choice : Gate!Answer(choice)) \/ Gate!Reach \/ Gate!Tick
  PROVE  GateIInv'
<1>1. UNCHANGED <<queued, stage, reply, outcome, fetched>>
  BY DEF Gate!Answer, Gate!Reach, Gate!Tick
<1>2. Gate!TypeOK'
  <2>1. up' \in BOOLEAN
    BY DEF Gate!Answer, Gate!Reach, Gate!Tick, GateIInv, Gate!TypeOK
  <2>2. now' \in 0 .. MaxTime /\ record' \in Choice \cup {None, "absent"}
    BY GateAssumption DEF Gate!Answer, Gate!Reach, Gate!Tick, GateIInv, Gate!TypeOK
  <2>3. fetched' \in [Session -> 0 .. MaxTime]
    BY <1>1 DEF GateIInv, Gate!TypeOK
  <2> QED BY <1>1, <2>1, <2>2, <2>3 DEF GateIInv, Gate!TypeOK
<1>3. GateOpened' /\ OutcomesFollow'
  BY <1>1, GateAssumption DEF Gate!Answer, Gate!Reach, Gate!Tick, GateIInv,
              GateOpened, OutcomesFollow
<1>4. RepliesStand'
  <2>1. ASSUME NEW choice \in Choice, Gate!Answer(choice)
        PROVE  RepliesStand'
    <3>1. record = None /\ now < Expiry /\ UNCHANGED <<now, reply, fetched>>
      BY <2>1 DEF Gate!Answer
    <3>2. \A s \in Session : reply[s] \notin Choice /\ ~(fetched[s] >= Expiry)
      BY <3>1, GateAssumption DEF GateIInv, Gate!TypeOK, RepliesStand
    <3> QED BY <3>1, <3>2 DEF GateIInv, RepliesStand
  <2>2. ASSUME Gate!Reach \/ Gate!Tick PROVE RepliesStand'
    BY <2>2 DEF Gate!Reach, Gate!Tick, GateIInv, Gate!TypeOK, RepliesStand
  <2> QED BY <2>1, <2>2
<1> QED BY <1>2, <1>3, <1>4 DEF GateIInv

LEMMA NextKeepsGate ==
  ASSUME GateIInv, [Gate!Next]_Gate!vars
  PROVE  GateIInv'
<1>1. CASE UNCHANGED Gate!vars
  BY <1>1 DEF Gate!vars, GateIInv, Gate!TypeOK, GateOpened, RepliesStand, OutcomesFollow
<1>2. CASE Gate!Next
  BY <1>2, OpeningKeepsGate, WaitingKeepsGate, BackendKeepsGate DEF Gate!Next
<1> QED BY <1>1, <1>2

\* The invariant holds of every behaviour.
LEMMA GateInvariance ==
  Gate!Spec => []GateIInv
<1>1. Gate!Init => GateIInv
  BY GateInit
<1>2. GateIInv /\ [Gate!Next]_Gate!vars => GateIInv'
  BY NextKeepsGate
<1> QED
  BY <1>1, <1>2, PTL DEF Gate!Spec

\* Whoever was told of an answer, and whoever fetched the gate once it had expired,
\* took it to mean the same, for good, however many sessions there are and however
\* far apart their clocks (resolve).
THEOREM LateReadersAlwaysAgree ==
  Gate!Spec => []LateReadersAgree
<1>1. GateIInv => LateReadersAgree
  BY DEF GateIInv, Gate!TypeOK, RepliesStand, OutcomesFollow, LateReadersAgree,
         Meaning
<1>2. Gate!Spec => []GateIInv
  BY GateInvariance
<1> QED
  BY <1>1, <1>2, PTL
=============================================================================
