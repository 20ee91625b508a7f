--------------------------- MODULE CloudPushProofs ---------------------------
(***************************************************************************)
(* CloudPush, for any servers, records, versions and queue length.          *)
(***************************************************************************)
EXTENDS CloudPush, SubsequenceProofs

\* A queue, whatever its length, holds one entry per record.
Distinct(q) ==
  \A i, j \in 1 .. Len(q.entries) : i # j => q.entries[i].key # q.entries[j].key

\* A server that is down holds nothing.
DownInv ==
  \A p \in Proc : ~running[p] =>
    /\ queue[p] = EmptyQueue /\ saving[p] = {}
    /\ inflight[p] = {} /\ flusher[p] = "nobody"

\* Every queue in memory, on its way to the file or on file is that of one entry
\* per record, and what it has tombstones of was answered.
HeldInv == \A p \in Proc : \A q \in Held(p) : Distinct(q) /\ Stones(q) \subseteq answered

FileInv == file # NoFile => Distinct(file) /\ Stones(file) \subseteq answered

\* A snapshot on its way shows what was done.
ChangeInv ==
  \A p \in Proc : \A c \in saving[p] :
    IF c.did = "enqueue" THEN c.to \in Entries(c.snapshot) ELSE c.to \in Stones(c.snapshot)

\* A removal that was saved is on file, unless the cap took its tombstone.
GoneInv == gone \subseteq pruned \cup (IF file = NoFile THEN {} ELSE Stones(file))

\* A record that is safely queued is on file, and nobody holds an envelope of it that
\* was answered, so that no save puts a dead one there.
QueuedInv ==
  \A e \in queued \ answered :
    /\ file # NoFile
    /\ \E x \in Entries(file) : x.key = e.key
    /\ \A x \in Entries(file) : x.key = e.key => x \notin answered
    /\ \A p \in Proc : \A q \in Held(p) : \A x \in Entries(q) :
         x.key = e.key => x \notin answered

IInv ==
  /\ TypeOK /\ DownInv /\ HeldInv /\ FileInv /\ ChangeInv /\ GoneInv /\ QueuedInv


-----------------------------------------------------------------------------
(* What the operations of a queue do to it.                                 *)

LEMMA InEntries ==
  ASSUME NEW q \in Queue
  PROVE  /\ q.entries \in Seq(Envelope) /\ q.stones \in Seq(Envelope) /\ Stones(q) \subseteq Envelope
         /\ Len(q.entries) \in Nat
         /\ \A i \in 1 .. Len(q.entries) : q.entries[i] \in Entries(q)
         /\ \A x \in Entries(q) :
              x \in Envelope /\ \E i \in 1 .. Len(q.entries) : q.entries[i] = x
<1>1. q.entries \in Seq(Envelope) /\ q.stones \in Seq(Envelope)
  BY DEF Queue
<1>5. Stones(q) \subseteq Envelope
  BY <1>1 DEF Stones, ToSet
<1>2. Len(q.entries) \in Nat /\ DOMAIN q.entries = 1 .. Len(q.entries)
  BY <1>1
<1>3. Entries(q) = {q.entries[i] : i \in 1 .. Len(q.entries)}
  BY <1>2 DEF Entries, ToSet
<1>4. \A i \in 1 .. Len(q.entries) : q.entries[i] \in Envelope
  BY <1>1
<1> QED
  BY <1>1, <1>2, <1>3, <1>4, <1>5

\* The empty queue.
LEMMA EmptyQueueFacts ==
  EmptyQueue \in Queue /\ Distinct(EmptyQueue) /\ Entries(EmptyQueue) = {}
    /\ Stones(EmptyQueue) = {}
<1>1. <<>> \in Seq(Envelope) /\ Len(<<>>) = 0
  OBVIOUS
<1>2. EmptyQueue \in Queue
  BY <1>1 DEF EmptyQueue, Queue
<1>3. EmptyQueue.entries = <<>> /\ Stones(EmptyQueue) = {}
  BY DEF EmptyQueue, Stones, ToSet
<1>4. 1 .. Len(EmptyQueue.entries) = {}
  BY <1>1, <1>3
<1>5. Distinct(EmptyQueue)
  BY <1>4 DEF Distinct
<1>6. Entries(EmptyQueue) = {}
  BY <1>2, <1>4, InEntries
<1> QED
  BY <1>2, <1>3, <1>5, <1>6

\* A queue filtered by what to keep.
LEMMA KeptQueue ==
  ASSUME NEW q \in Queue, Distinct(q), NEW keep, NEW stones \in Seq(Envelope)
  PROVE  LET r == [entries |-> Kept(q.entries, keep), stones |-> stones] IN
         /\ r \in Queue
         /\ Entries(r) = Entries(q) \cap keep
         /\ Distinct(r)
<1> DEFINE r == [entries |-> Kept(q.entries, keep), stones |-> stones]
<1>1. /\ r.entries \in Seq(Envelope)
      /\ ToSet(r.entries) = ToSet(q.entries) \cap keep
      /\ \E f \in [1 .. Len(r.entries) -> 1 .. Len(q.entries)] :
           /\ \A k \in 1 .. Len(r.entries) : r.entries[k] = q.entries[f[k]]
           /\ \A j, k \in 1 .. Len(r.entries) : j < k => f[j] < f[k]
  <2> DEFINE s == q.entries
  <2>1. s \in Seq(Envelope)
    BY InEntries
  <2>2. r.entries = Kept(s, keep)
    OBVIOUS
  <2> HIDE DEF s, r
  <2>3. /\ Kept(s, keep) \in Seq(Envelope)
        /\ ToSet(Kept(s, keep)) = ToSet(s) \cap keep
        /\ \E f \in [1 .. Len(Kept(s, keep)) -> 1 .. Len(s)] :
             /\ \A k \in 1 .. Len(Kept(s, keep)) : Kept(s, keep)[k] = s[f[k]]
             /\ \A j, k \in 1 .. Len(Kept(s, keep)) : j < k => f[j] < f[k]
    BY <2>1, KeptIsSubsequence
  <2> QED
    BY <2>2, <2>3, Zenon DEF s
<1>2. r \in Queue
  <2>1. Kept(q.entries, keep) \in Seq(Envelope)
    BY <1>1
  <2> QED
    BY <2>1, Zenon DEF Queue
<1>3. Entries(r) = Entries(q) \cap keep
  BY <1>1 DEF Entries
<1> HIDE DEF r
<1>4. PICK f \in [1 .. Len(r.entries) -> 1 .. Len(q.entries)] :
        /\ \A k \in 1 .. Len(r.entries) : r.entries[k] = q.entries[f[k]]
        /\ \A j, k \in 1 .. Len(r.entries) : j < k => f[j] < f[k]
  BY <1>1
<1>5. ASSUME NEW i \in 1 .. Len(r.entries), NEW j \in 1 .. Len(r.entries), i # j
      PROVE  r.entries[i].key # r.entries[j].key
  <2>1. i < j \/ j < i
    BY <1>5
  <2>2. f[i] \in 1 .. Len(q.entries) /\ f[j] \in 1 .. Len(q.entries)
    BY <1>4
  <2>3. f[i] # f[j]
    BY <2>1, <2>2, <1>4
  <2>4. r.entries[i] = q.entries[f[i]] /\ r.entries[j] = q.entries[f[j]]
    BY <1>4
  <2> QED
    BY <2>2, <2>3, <2>4 DEF Distinct
<1> QED
  BY <1>2, <1>3, <1>5 DEF Distinct, r

\* A queue with entries of other records behind it.
LEMMA Behind ==
  ASSUME NEW q \in Queue, Distinct(q), NEW t \in Queue, Distinct(t),
         \A x \in Entries(t) : x.key \notin KeysOf(q),
         NEW stones \in Seq(Envelope)
  PROVE  LET r == [entries |-> q.entries \o t.entries, stones |-> stones] IN
         /\ r \in Queue
         /\ Entries(r) = Entries(q) \cup Entries(t)
         /\ Distinct(r)
<1> DEFINE m == Len(q.entries)
           n == Len(t.entries)
           es == q.entries \o t.entries
           r == [entries |-> es, stones |-> stones]
<1>1. /\ q.entries \in Seq(Envelope) /\ t.entries \in Seq(Envelope)
      /\ m \in Nat /\ n \in Nat
  BY InEntries
<1>2. /\ es \in Seq(Envelope) /\ Len(es) = m + n
      /\ \A i \in 1 .. m : es[i] = q.entries[i]
      /\ \A i \in 1 .. n : es[m + i] = t.entries[i]
  <2> DEFINE a == q.entries
             b == t.entries
  <2>1. a \in Seq(Envelope) /\ b \in Seq(Envelope)
    BY <1>1
  <2> HIDE DEF a, b
  <2>2. /\ a \o b \in Seq(Envelope) /\ Len(a \o b) = Len(a) + Len(b)
        /\ \A i \in 1 .. Len(a) : (a \o b)[i] = a[i]
        /\ \A i \in 1 .. Len(b) : (a \o b)[Len(a) + i] = b[i]
    BY <2>1, Concatenated
  <2> QED
    BY <2>2, Zenon DEF a, b
<1>3. \A i \in 1 .. m + n : i \notin 1 .. m => i - m \in 1 .. n /\ i = m + (i - m)
  BY <1>1, Indices
<1>3a. \A i \in 1 .. m + n : i \notin 1 .. m => es[i] = t.entries[i - m]
  BY <1>1, <1>2, <1>3
<1>3b. (\A i \in 1 .. m : i \in 1 .. m + n) /\ (\A i \in 1 .. n : m + i \in 1 .. m + n)
  BY <1>1, Indices
<1> HIDE DEF es
<1>4. r \in Queue
  BY <1>2 DEF Queue
<1>5. Entries(r) = {es[i] : i \in 1 .. m + n}
  <2>1. DOMAIN es = 1 .. m + n
    BY <1>2
  <2>2. r.entries = es
    OBVIOUS
  <2> HIDE DEF r, m, n
  <2> QED
    BY <2>1, <2>2 DEF Entries, ToSet
<1>6. \A x \in Entries(r) : x \in Entries(q) \cup Entries(t)
  <2> SUFFICES ASSUME NEW i \in 1 .. m + n
               PROVE  es[i] \in Entries(q) \cup Entries(t)
    BY <1>5
  <2>1. CASE i \in 1 .. m
    BY <2>1, <1>2, InEntries
  <2>2. CASE i \notin 1 .. m
    <3>1. i - m \in 1 .. n /\ es[i] = t.entries[i - m]
      BY <2>2, <1>3, <1>3a
    <3> QED
      BY <3>1, InEntries
  <2> QED
    BY <2>1, <2>2
<1>7. \A x \in Entries(q) : x \in Entries(r)
  <2> TAKE x \in Entries(q)
  <2>1. PICK i \in 1 .. m : q.entries[i] = x
    BY InEntries
  <2>2. i \in 1 .. m + n /\ es[i] = x
    BY <2>1, <1>2, <1>3b
  <2> QED
    BY <2>2, <1>5
<1>8. \A x \in Entries(t) : x \in Entries(r)
  <2> TAKE x \in Entries(t)
  <2>1. PICK i \in 1 .. n : t.entries[i] = x
    BY InEntries
  <2>2. m + i \in 1 .. m + n /\ es[m + i] = x
    BY <2>1, <1>2, <1>3b
  <2> QED
    BY <2>2, <1>5
<1>9. ASSUME NEW i \in 1 .. m + n, NEW j \in 1 .. m + n, i # j
      PROVE  es[i].key # es[j].key
  <2>1. CASE i \in 1 .. m /\ j \in 1 .. m
    BY <2>1, <1>2, <1>9 DEF Distinct
  <2>2. CASE i \in 1 .. m /\ j \notin 1 .. m
    <3>1. es[i] \in Entries(q) /\ es[j] \in Entries(t)
      BY <2>2, <1>2, <1>3, <1>3a, InEntries
    <3> QED
      BY <3>1 DEF KeysOf
  <2>3. CASE i \notin 1 .. m /\ j \in 1 .. m
    <3>1. es[j] \in Entries(q) /\ es[i] \in Entries(t)
      BY <2>3, <1>2, <1>3, <1>3a, InEntries
    <3> QED
      BY <3>1 DEF KeysOf
  <2>4. CASE i \notin 1 .. m /\ j \notin 1 .. m
    <3>1. /\ i - m \in 1 .. n /\ j - m \in 1 .. n
          /\ es[i] = t.entries[i - m] /\ es[j] = t.entries[j - m]
      BY <2>4, <1>3, <1>3a
    <3>2. i - m # j - m
      BY <1>1, <1>9
    <3> QED
      BY <3>1, <3>2 DEF Distinct
  <2> QED
    BY <2>1, <2>2, <2>3, <2>4
<1>10. Entries(r) = Entries(q) \cup Entries(t)
  BY <1>6, <1>7, <1>8
<1>11. Distinct(r)
  BY <1>2, <1>9 DEF Distinct
<1> QED
  BY <1>4, <1>10, <1>11 DEF es


\* Queueing an envelope: the record's entries give way to it, and if that makes one
\* too many the oldest entry goes.
LEMMA EnqueuedQueue ==
  ASSUME NEW q \in Queue, Distinct(q), NEW e \in Envelope
  PROVE  LET r == Enqueued(q, e) IN
         /\ r \in Queue /\ Distinct(r) /\ Stones(r) = Stones(q) \ {e}
         /\ e \in Entries(r)
         /\ \A x \in Entries(r) : x \in Entries(q) \/ x = e
         /\ \A i \in 1 .. Len(q.entries) :
              \/ q.entries[i].key = e.key
              \/ q.entries[i] \in Entries(r)
              \/ /\ Len(r.entries) >= Cap
                 /\ ToSet(Front(r.entries)) \subseteq
                      ToSet(SubSeq(q.entries, i + 1, Len(q.entries)))
<1> DEFINE others == Kept(q.entries, NotOf({e.key}))
           all == Append(others, e)
           es == IF Len(all) > Cap THEN Tail(all) ELSE all
           stones == Kept(q.stones, Envelope \ {e})
           o == [entries |-> others, stones |-> <<>>]
           t == [entries |-> <<e>>, stones |-> <<>>]
           a == [entries |-> all, stones |-> stones]
           r == [entries |-> es, stones |-> stones]
           n == Len(others)
<1>1. Enqueued(q, e) = r
  BY DEF Enqueued
<1>2. q.entries \in Seq(Envelope) /\ stones \in Seq(Envelope) /\ ToSet(stones) = Stones(q) \ {e}
  <2>1. /\ q.entries \in Seq(Envelope) /\ q.stones \in Seq(Envelope)
        /\ Stones(q) \subseteq Envelope
    BY InEntries
  <2>2. stones \in Seq(Envelope) /\ ToSet(stones) = ToSet(q.stones) \cap (Envelope \ {e})
    BY <2>1, KeptIsSubsequence
  <2> QED
    BY <2>1, <2>2 DEF Stones
<1>3. o \in Queue /\ Distinct(o) /\ Entries(o) = Entries(q) \cap NotOf({e.key})
  <2>1. <<>> \in Seq(Envelope)
    OBVIOUS
  <2> QED
    BY <2>1, KeptQueue
<1>4. PICK f \in [1 .. n -> 1 .. Len(q.entries)] :
        /\ \A k \in 1 .. n : others[k] = q.entries[f[k]]
        /\ \A j, k \in 1 .. n : j < k => f[j] < f[k]
  <2> DEFINE s == q.entries
             keep == NotOf({e.key})
  <2>1. s \in Seq(Envelope)
    BY <1>2
  <2> HIDE DEF s, keep
  <2>2. \E f \in [1 .. Len(Kept(s, keep)) -> 1 .. Len(s)] :
          /\ \A k \in 1 .. Len(Kept(s, keep)) : Kept(s, keep)[k] = s[f[k]]
          /\ \A j, k \in 1 .. Len(Kept(s, keep)) : j < k => f[j] < f[k]
    BY <2>1, KeptIsSubsequence
  <2> QED
    BY <2>2, Zenon DEF s, keep
<1>5. /\ others \in Seq(Envelope) /\ n \in Nat
      /\ \A x \in Entries(q) : x.key # e.key => \E k \in 1 .. n : others[k] = x
  <2>1. o.entries = others
    OBVIOUS
  <2>2. \A x \in Entries(q) : x.key # e.key => x \in Entries(o)
    BY <1>3, InEntries DEF NotOf
  <2> HIDE DEF others, o
  <2> QED
    BY <1>3, <2>1, <2>2, InEntries
<1>6. \A x \in Entries(o) : x.key # e.key
  BY <1>3 DEF NotOf
<1> HIDE DEF others
<1>7. t \in Queue /\ Distinct(t) /\ Entries(t) = {e}
  <2>1. <<e>> \in Seq(Envelope) /\ Len(<<e>>) = 1 /\ <<e>>[1] = e
    BY AppendIsBehind, <1>2
  <2>2. t \in Queue
    <3>1. <<>> \in Seq(Envelope)
      OBVIOUS
    <3> QED
      BY <2>1, <3>1, Zenon DEF Queue
  <2>3. t.entries = <<e>>
    OBVIOUS
  <2>4. \A i \in 1 .. Len(t.entries) : i = 1
    BY <2>1, <2>3
  <2>5. 1 \in 1 .. Len(t.entries)
    BY <2>1, <2>3
  <2>6. Entries(t) = {e}
    <3>1. t.entries[1] = e
      BY <2>1, <2>3
    <3> HIDE DEF t
    <3>2. e \in Entries(t)
      BY <2>2, <2>5, <3>1, InEntries
    <3>3. \A x \in Entries(t) : x = e
      BY <2>2, <2>4, <3>1, InEntries
    <3> QED
      BY <3>2, <3>3
  <2> HIDE DEF t
  <2> QED
    BY <2>2, <2>4, <2>6 DEF Distinct
<1>8. a \in Queue /\ Distinct(a) /\ Entries(a) = Entries(o) \cup {e}
  <2>1. all = others \o <<e>>
    BY <1>5, AppendIsBehind
  <2>2. o.entries = others /\ t.entries = <<e>>
    OBVIOUS
  <2>3. a = [entries |-> o.entries \o t.entries, stones |-> stones]
    BY <2>1, <2>2
  <2>4. \A x \in Entries(t) : x.key \notin KeysOf(o)
    BY <1>6, <1>7 DEF KeysOf
  <2> HIDE DEF a, o, t, stones
  <2> DEFINE b == [entries |-> o.entries \o t.entries, stones |-> stones]
  <2>5. b \in Queue /\ Distinct(b) /\ Entries(b) = Entries(o) \cup Entries(t)
    BY <2>4, <1>2, <1>3, <1>7, Behind
  <2>6. a = b
    BY <2>3
  <2> QED
    BY <2>5, <2>6, <1>7
<1>9. /\ all \in Seq(Envelope) /\ Len(all) = n + 1
      /\ \A k \in 1 .. n : all[k] = others[k]
      /\ all[n + 1] = e
  BY <1>5
<1> HIDE DEF all
<1>10. CASE Len(all) <= Cap
  <2>1. es = all /\ r = a
    <3>1. ~(Len(all) > Cap)
      <4>1. Len(all) \in Nat
        BY <1>9
      <4> QED
        BY <4>1, <1>10, CapAssumption
    <3> QED
      BY <3>1, Zenon
  <2>2. \A x \in Entries(q) : x.key = e.key \/ x \in Entries(a)
    BY <1>3, <1>8, InEntries DEF NotOf
  <2>3. \A i \in 1 .. Len(q.entries) :
          q.entries[i].key = e.key \/ q.entries[i] \in Entries(a)
    BY <2>2, InEntries
  <2>4. a.stones = stones
    OBVIOUS
  <2>5. \A x \in Entries(a) : x \in Entries(q) \/ x = e
    BY <1>3, <1>8
  <2>6. Enqueued(q, e) = a
    BY <1>1, <2>1
  <2> HIDE DEF a, r, es
  <2> QED
    BY <1>2, <1>8, <2>3, <2>4, <2>5, <2>6 DEF Stones
<1>11. CASE Len(all) > Cap
  <2>1. es = Tail(all)
    BY <1>11
  <2>2. /\ es \in Seq(Envelope) /\ Len(es) = n
        /\ \A k \in 1 .. n : es[k] = all[k + 1]
        /\ n >= Cap /\ n > 0
    BY <1>5, <1>9, <1>11, <2>1, CapAssumption, TailFacts
  <2> HIDE DEF es
  <2>3. r \in Queue
    BY <1>2, <2>2 DEF Queue
  <2>4. r.entries = es /\ r.stones = stones /\ a.entries = all
    OBVIOUS
  <2> HIDE DEF r, a
  <2>5. Distinct(r)
    <3>1. \A k \in 1 .. n : k + 1 \in 1 .. Len(all)
      BY <1>5, <1>9
    <3>2. \A j, k \in 1 .. n : j # k => j + 1 # k + 1
      BY <1>5
    <3>3. \A j, k \in 1 .. Len(all) : j # k => all[j].key # all[k].key
      BY <1>8, <2>4 DEF Distinct
    <3>4. \A j, k \in 1 .. n : j # k => es[j].key # es[k].key
      <4> TAKE j, k \in 1 .. n
      <4>1. es[j] = all[j + 1] /\ es[k] = all[k + 1]
        BY <2>2
      <4>2. j # k => all[j + 1].key # all[k + 1].key
        BY <3>1, <3>2, <3>3
      <4> QED
        BY <4>1, <4>2
    <3> QED
      BY <2>2, <2>4, <3>4 DEF Distinct
  <2>6. e \in Entries(r)
    <3>1. n \in 1 .. n /\ es[n] = e
      BY <1>5, <1>9, <2>2
    <3> QED
      BY <2>2, <2>3, <2>4, <3>1, InEntries
  <2>7. \A x \in Entries(r) : x \in Entries(a)
    <3> TAKE x \in Entries(r)
    <3>1. PICK k \in 1 .. n : x = all[k + 1]
      <4>1. PICK k \in 1 .. Len(r.entries) : r.entries[k] = x
        BY <2>3, InEntries
      <4>2. k \in 1 .. n /\ x = all[k + 1]
        BY <2>2, <2>4, <4>1
      <4> QED
        BY <4>2
    <3>2. k + 1 \in 1 .. Len(all)
      BY <1>5, <1>9
    <3> QED
      BY <1>8, <2>4, <3>1, <3>2, InEntries
  <2>8. ASSUME NEW i \in 1 .. Len(q.entries),
               q.entries[i].key # e.key, q.entries[i] \notin Entries(r)
        PROVE  /\ Len(r.entries) >= Cap
               /\ ToSet(Front(r.entries)) \subseteq
                    ToSet(SubSeq(q.entries, i + 1, Len(q.entries)))
    <3>1. q.entries[i] \in Entries(q)
      BY InEntries
    <3>2. PICK k \in 1 .. n : others[k] = q.entries[i]
      BY <1>5, <2>8, <3>1
    <3>3. k = 1
      <4>1. CASE k > 1
        <5>1. k - 1 \in 1 .. n /\ (k - 1) + 1 = k
          BY <1>5, <4>1
        <5>2. es[k - 1] = q.entries[i]
          BY <5>1, <2>2, <1>9, <3>2
        <5>3. es[k - 1] \in Entries(r)
          BY <5>1, <2>2, <2>3, <2>4, InEntries
        <5> QED
          BY <5>2, <5>3, <2>8
      <4> QED
        BY <1>5, <4>1
    <3>4. f[1] = i
      BY <1>4, <3>2, <3>3 DEF Distinct
    <3>5. ASSUME NEW j \in 1 .. n - 1
          PROVE  es[j] \in ToSet(SubSeq(q.entries, i + 1, Len(q.entries)))
      <4>1. j \in 1 .. n /\ j + 1 \in 1 .. n /\ 1 \in 1 .. n /\ 1 < j + 1
        BY <1>5
      <4>2. es[j] = others[j + 1]
        BY <4>1, <2>2, <1>9
      <4>3. others[j + 1] = q.entries[f[j + 1]] /\ f[1] < f[j + 1]
        BY <4>1, <1>4
      <4>4. f[j + 1] \in 1 .. Len(q.entries)
        BY <4>1, <1>4
      <4>5. f[j + 1] \in i + 1 .. Len(q.entries)
        BY <4>3, <4>4, <3>4, <1>2
      <4>6. q.entries[f[j + 1]] \in ToSet(SubSeq(q.entries, i + 1, Len(q.entries)))
        BY <4>5, <1>2, SubSeqSet
      <4> QED
        BY <4>2, <4>3, <4>6
    <3>6. ToSet(Front(es)) = {es[j] : j \in 1 .. n - 1}
      BY <2>2, FrontSet
    <3> QED
      BY <2>2, <2>4, <3>5, <3>6
  <2> QED
    BY <1>1, <1>2, <1>3, <1>8, <2>3, <2>4, <2>5, <2>6, <2>7, <2>8 DEF Stones
<1> QED
  BY <1>5, <1>9, <1>10, <1>11, CapAssumption


\* The tombstones that are remembered are some of them, the last among them.
LEMMA CappedFacts ==
  ASSUME NEW s \in Seq(Envelope)
  PROVE  /\ Capped(s) \in Seq(Envelope)
         /\ ToSet(Capped(s)) \subseteq ToSet(s)
         /\ Len(s) > 0 => s[Len(s)] \in ToSet(Capped(s))
<1> DEFINE n == Len(s)
           m == n - StoneCap
           r == SubSeq(s, m + 1, n)
<1>1. n \in Nat /\ DOMAIN s = 1 .. n /\ StoneCap \in Nat \ {0}
  BY StoneCapAssumption
<1>2. CASE n > StoneCap
  <2>1. m \in 1 .. n /\ m < n
    BY <1>1, <1>2
  <2>2. r \in Seq(Envelope) /\ DOMAIN r = 1 .. n - m /\ \A k \in 1 .. n - m : r[k] = s[m + k]
    BY <1>1, <2>1
  <2>3. \A k \in 1 .. n - m : m + k \in 1 .. n
    BY <1>1, <2>1
  <2>4. n - m \in 1 .. n - m /\ m + (n - m) = n
    BY <1>1, <2>1
  <2>5. Capped(s) = r
    BY <1>2 DEF Capped
  <2> HIDE DEF r, m
  <2>6. ToSet(r) \subseteq ToSet(s)
    BY <1>1, <2>2, <2>3 DEF ToSet
  <2>7. s[n] \in ToSet(r)
    BY <2>2, <2>4 DEF ToSet
  <2> QED
    BY <2>2, <2>5, <2>6, <2>7
<1>3. CASE ~(n > StoneCap)
  <2>1. Capped(s) = s
    BY <1>3 DEF Capped
  <2>2. n > 0 => n \in DOMAIN s
    BY <1>1
  <2> QED
    BY <2>1, <2>2 DEF ToSet
<1> QED
  BY <1>2, <1>3

\* Before the cap, a merge has the tombstones of both.
LEMMA AllStonesFacts ==
  ASSUME NEW q \in Queue, NEW d \in Queue
  PROVE  /\ AllStones(q, d) \in Seq(Envelope)
         /\ ToSet(AllStones(q, d)) = Stones(q) \cup Stones(d)
<1> DEFINE s == q.stones
           t == d.stones
           n == Len(t)
           I == {i \in DOMAIN t : t[i] \notin Stones(q) /\ \A j \in 1 .. i - 1 : t[j] # t[i]}
           new == Picked(t, I)
<1>1. /\ s \in Seq(Envelope) /\ t \in Seq(Envelope) /\ n \in Nat /\ DOMAIN t = 1 .. n
      /\ Stones(q) = ToSet(s) /\ Stones(d) = ToSet(t)
  BY InEntries DEF Stones
<1>2. I \in SUBSET (1 .. n)
  BY <1>1
<1>3. AllStones(q, d) = s \o new
  BY DEF AllStones
\* The first place of a tombstone is one of those taken.
<1>4. ASSUME NEW x \in Stones(d), x \notin Stones(q)
      PROVE  \E i \in I : t[i] = x
  <2> DEFINE J == {i \in 1 .. n : t[i] = x}
             C == Cardinality(J)
             k == At(J, 1)
  <2>1. J \in SUBSET (1 .. n) /\ \E i \in J : TRUE
    BY <1>1, <1>4 DEF ToSet
  <2> HIDE DEF J
  <2>2. /\ C \in 0 .. n
        /\ \A r \in 1 .. C : At(J, r) \in J
        /\ \A i \in J : \E r \in 1 .. C : At(J, r) = i
        /\ \A a, b \in 1 .. C : a < b => At(J, a) < At(J, b)
    BY <1>1, <2>1, CountingOff
  <2> HIDE DEF C
  <2>3. 1 \in 1 .. C
    BY <2>1, <2>2
  <2>4. k \in J
    BY <2>2, <2>3
  <2>5. \A i \in J : i = k \/ k < i
    <3> TAKE i \in J
    <3>1. PICK r \in 1 .. C : At(J, r) = i
      BY <2>2
    <3>2. r = 1 \/ 1 < r
      BY <2>2, <3>1
    <3> QED
      BY <2>2, <2>3, <3>1, <3>2
  <2> HIDE DEF k
  <2>6. k \in 1 .. n /\ t[k] = x
    BY <2>4 DEF J
  <2>7. \A j \in 1 .. k - 1 : t[j] # x
    <3> TAKE j \in 1 .. k - 1
    <3>1. j \in 1 .. n /\ j < k
      BY <1>1, <2>6
    <3>2. j \notin J
      BY <3>1, <2>5, <2>6
    <3> QED
      BY <3>1, <3>2 DEF J
  <2> QED
    BY <1>1, <1>4, <2>6, <2>7
<1>5. \A i \in I : t[i] \in Stones(d)
  BY <1>1 DEF ToSet
<1> HIDE DEF I
<1>6. /\ new \in Seq(Envelope)
      /\ \A k \in DOMAIN new : \E i \in I : new[k] = t[i]
      /\ \A i \in I : \E k \in DOMAIN new : new[k] = t[i]
  BY <1>1, <1>2, PickedFacts
<1> HIDE DEF new
<1>7. ToSet(new) \subseteq Stones(d) /\ Stones(d) \subseteq ToSet(new) \cup Stones(q)
  <2>1. \A x \in ToSet(new) : \E k \in DOMAIN new : x = new[k]
    BY DEF ToSet
  <2>2. \A k \in DOMAIN new : new[k] \in ToSet(new)
    BY DEF ToSet
  <2>3. ToSet(new) \subseteq Stones(d)
    BY <2>1, <1>5, <1>6
  <2>4. \A x \in Stones(d) : x \in ToSet(new) \/ x \in Stones(q)
    BY <2>2, <1>4, <1>6
  <2> QED
    BY <2>3, <2>4
<1>8. s \o new \in Seq(Envelope) /\ ToSet(s \o new) = ToSet(s) \cup ToSet(new)
  BY <1>1, <1>6, JoinedSet
<1> QED
  BY <1>1, <1>3, <1>7, <1>8

\* Removing an answered envelope: its tombstone is remembered.
LEMMA RemovedQueue ==
  ASSUME NEW q \in Queue, Distinct(q), NEW e \in Envelope
  PROVE  LET r == Removed(q, e) IN
         /\ r \in Queue /\ Distinct(r)
         /\ e \in Stones(r) /\ Stones(r) \subseteq Stones(q) \cup {e}
         /\ Entries(r) = Entries(q) \ {e}
<1> DEFINE all == Append(q.stones, e)
           stones == Capped(all)
           r == [entries |-> Kept(q.entries, Envelope \ {e}), stones |-> stones]
<1>1. Removed(q, e) = r
  BY DEF Removed
<1>2. q.stones \in Seq(Envelope)
  BY InEntries
<1>3. /\ all \in Seq(Envelope) /\ Len(all) > 0 /\ all[Len(all)] = e
      /\ ToSet(all) = ToSet(q.stones) \cup {e}
  <2>1. /\ all = q.stones \o <<e>> /\ <<e>> \in Seq(Envelope) /\ Len(<<e>>) = 1 /\ <<e>>[1] = e
    BY <1>2, AppendIsBehind
  <2>2. ToSet(<<e>>) = {e}
    BY DEF ToSet
  <2>3. ToSet(q.stones \o <<e>>) = ToSet(q.stones) \cup ToSet(<<e>>)
    <3> DEFINE s == q.stones
               t == <<e>>
    <3>1. s \in Seq(Envelope) /\ t \in Seq(Envelope)
      BY <1>2, <2>1
    <3> HIDE DEF s, t
    <3>2. ToSet(s \o t) = ToSet(s) \cup ToSet(t)
      BY <3>1, JoinedSet
    <3> QED
      BY <3>2 DEF s, t
  <2>4. all \in Seq(Envelope) /\ Len(all) > 0 /\ all[Len(all)] = e
    BY <1>2
  <2> HIDE DEF all
  <2> QED
    BY <2>1, <2>2, <2>3, <2>4
<1> HIDE DEF all
<1>4. stones \in Seq(Envelope) /\ ToSet(stones) \subseteq ToSet(all) /\ e \in ToSet(stones)
  BY <1>3, CappedFacts
<1> HIDE DEF stones
<1>5. r \in Queue /\ Distinct(r) /\ Entries(r) = Entries(q) \cap (Envelope \ {e})
  BY <1>4, KeptQueue
<1>6. r.stones = stones
  OBVIOUS
<1>7. Entries(q) \cap (Envelope \ {e}) = Entries(q) \ {e}
  BY InEntries
<1> HIDE DEF r
<1> QED
  BY <1>1, <1>3, <1>4, <1>5, <1>6, <1>7 DEF Stones

\* Saving a queue over the file's: every entry in memory stays, and one on file does
\* unless memory has another of its record or it is dead; of the tombstones the cap may
\* take some.
LEMMA MergedQueue ==
  ASSUME NEW q \in Queue, Distinct(q), NEW d \in Queue, Distinct(d)
  PROVE  LET r == MergeOutboxes(q, d) IN
         /\ r \in Queue /\ Distinct(r)
         /\ r.stones = Capped(AllStones(q, d)) /\ Stones(r) \subseteq Stones(q) \cup Stones(d)
         /\ \A x \in Entries(r) : x \in Entries(q) \/ x \in Entries(d)
         /\ \A x \in Entries(r) : x.key \in KeysOf(q) => x \in Entries(q)
         /\ \A x \in Entries(q) : x \in Entries(r)
         /\ \A x \in Entries(d) :
              x \in Entries(r) \/ x.key \in KeysOf(q) \/ x \in Stones(q) \cup Stones(d)
<1> DEFINE all == AllStones(q, d)
           stones == Capped(all)
           adopted == NotOf(KeysOf(q)) \ ToSet(all)
           t == [entries |-> Kept(d.entries, adopted), stones |-> <<>>]
           r == [entries |-> q.entries \o t.entries, stones |-> stones]
<1>1. MergeOutboxes(q, d) = r
  BY DEF MergeOutboxes
<1>2. all \in Seq(Envelope) /\ ToSet(all) = Stones(q) \cup Stones(d) /\ <<>> \in Seq(Envelope)
  BY AllStonesFacts
<1>3. t \in Queue /\ Distinct(t) /\ Entries(t) = Entries(d) \cap adopted
  BY <1>2, KeptQueue
<1>4. \A x \in Entries(t) : x.key \notin KeysOf(q)
  BY <1>3 DEF NotOf
<1>5. r.stones = stones
  OBVIOUS
<1> HIDE DEF t
<1>6. stones \in Seq(Envelope) /\ ToSet(stones) \subseteq ToSet(all)
  <2> HIDE DEF all
  <2> QED
    BY <1>2, CappedFacts
<1>7. \A x \in Entries(d) : x \in Entries(t) \/ x.key \in KeysOf(q) \/ x \in ToSet(all)
  BY <1>3, InEntries DEF NotOf
<1> HIDE DEF all
<1>8. r \in Queue /\ Distinct(r) /\ Entries(r) = Entries(q) \cup Entries(t)
  <2> HIDE DEF stones
  <2> QED
    BY <1>3, <1>4, <1>6, Behind
<1> HIDE DEF r, adopted
<1>9. Stones(r) \subseteq Stones(q) \cup Stones(d)
  BY <1>2, <1>5, <1>6 DEF Stones
<1> USE DEF adopted
<1> QED
  BY <1>1, <1>2, <1>3, <1>4, <1>5, <1>7, <1>8, <1>9 DEF all

\* What a boot loads is what the file has alive.
LEMMA LoadedQueue ==
  ASSUME file \in Queue \cup {NoFile}, file # NoFile => Distinct(file)
  PROVE  /\ Loaded \in Queue /\ Distinct(Loaded)
         /\ file = NoFile => Loaded = EmptyQueue
         /\ file # NoFile => /\ Stones(Loaded) = Stones(file)
                             /\ Entries(Loaded) = Entries(file) \ Stones(file)
<1>1. CASE file = NoFile
  BY <1>1, EmptyQueueFacts DEF Loaded
<1>2. CASE file # NoFile
  <2> DEFINE r == [entries |-> Kept(file.entries, Envelope \ Stones(file)),
                   stones  |-> file.stones]
  <2>1. file \in Queue /\ file.stones \in Seq(Envelope)
    BY <1>2, InEntries
  <2>2. Loaded = r
    BY <1>2, <2>1 DEF Loaded, Queue
  <2>3. r \in Queue /\ Distinct(r)
          /\ Entries(r) = Entries(file) \cap (Envelope \ Stones(file))
    BY <1>2, <2>1, KeptQueue
  <2>4. r.stones = file.stones
    OBVIOUS
  <2>5. Entries(file) \cap (Envelope \ Stones(file)) = Entries(file) \ Stones(file)
    BY <2>1, InEntries
  <2> HIDE DEF r
  <2>6. Stones(r) = Stones(file)
    BY <2>4 DEF Stones
  <2> QED
    BY <1>2, <2>2, <2>3, <2>5, <2>6
<1> QED
  BY <1>1, <1>2


-----------------------------------------------------------------------------
(* The actions that leave the queues, the file and what is remembered of     *)
(* them alone.                                                              *)

Quiet == UNCHANGED <<outboxVars, history>>

\* The type invariant, part by part.
OwnTypes ==
  /\ running \in [Proc -> BOOLEAN]
  /\ latest \in [Key -> 0 .. Versions]
  /\ inflight \in [Proc -> SUBSET Envelope]
  /\ replay \in [Proc -> Seq(Envelope)]
  /\ flusher \in [Proc -> {"nobody", "boot", "loop"}]
  /\ hydrate \in [Proc -> BOOLEAN]
  /\ loop \in [Proc -> {"connect", "greet", "poll", "live"}]
  /\ failures \in [Proc -> 0 .. FallbackAfterFailures]
  /\ up \in BOOLEAN

HistoryTypes ==
  /\ queued \subseteq Envelope /\ gone \subseteq answered /\ answered \subseteq Envelope
  /\ pruned \subseteq Envelope

LEMMA TypeParts == TypeOK <=> OutboxTypeOK /\ OwnTypes /\ HistoryTypes
BY DEF TypeOK, OwnTypes, HistoryTypes

\* A step that changes none of the outbox and history keeps what is said of them.
LEMMA QuietKeeps ==
  ASSUME IInv, Quiet, OwnTypes', DownInv'
  PROVE  IInv'
<1>1. OutboxTypeOK' /\ HistoryTypes'
  BY TypeParts DEF IInv, Quiet, OutboxTypeOK, HistoryTypes, outboxVars, history
<1>2. TypeOK'
  BY <1>1, TypeParts DEF TypeOK, OwnTypes, HistoryTypes
<1>3. HeldInv' /\ FileInv' /\ ChangeInv' /\ GoneInv' /\ QueuedInv'
  BY DEF IInv, Quiet, outboxVars, history, HeldInv, Held, FileInv, ChangeInv, GoneInv, QueuedInv
<1> QED
  BY <1>2, <1>3 DEF IInv

LEMMA PushKeeps ==
  ASSUME IInv, NEW p \in Proc, NEW k \in Key, Push(p, k)
  PROVE  IInv'
<1> DEFINE e == [key |-> k, version |-> latest[k] + 1]
<1>1. Quiet
  BY DEF Push, Quiet
<1>2. OwnTypes
  BY TypeParts DEF IInv
<1>3. latest[k] + 1 \in 1 .. Versions /\ latest[k] + 1 \in 0 .. Versions
  <2>1. latest[k] \in 0 .. Versions /\ latest[k] < Versions
    BY <1>2 DEF OwnTypes, Push
  <2>2. Versions \in Int
    BY VersionsAssumption
  <2> QED
    BY <2>1, <2>2
<1>4. e \in Envelope
  BY <1>3 DEF Envelope
<1>5. OwnTypes'
  BY <1>2, <1>3, <1>4 DEF OwnTypes, Push, flushVars, loopVars
<1>6. DownInv'
  BY <1>2, <1>4 DEF IInv, DownInv, OwnTypes, Push, outboxVars, flushVars
<1> QED
  BY <1>1, <1>5, <1>6, QuietKeeps


LEMMA PushAgainKeeps ==
  ASSUME IInv, NEW p \in Proc, NEW e \in Envelope, PushAgain(p, e)
  PROVE  IInv'
<1>1. Quiet
  BY DEF PushAgain, Quiet
<1>2. OwnTypes
  BY TypeParts DEF IInv
<1>3. OwnTypes'
  BY <1>2 DEF OwnTypes, PushAgain, flushVars, loopVars
<1>4. DownInv'
  BY <1>2 DEF IInv, DownInv, OwnTypes, PushAgain, outboxVars, flushVars
<1> QED
  BY <1>1, <1>3, <1>4, QuietKeeps

LEMMA PushAnsweredKeeps ==
  ASSUME IInv, NEW p \in Proc, NEW e \in inflight[p], PushAnswered(p, e)
  PROVE  IInv'
<1>1. Quiet
  BY DEF PushAnswered, Quiet
<1>2. OwnTypes
  BY TypeParts DEF IInv
<1>3. OwnTypes'
  BY <1>2 DEF OwnTypes, PushAnswered, Settled, flushVars, loopVars
<1>4. DownInv'
  BY <1>2 DEF IInv, DownInv, OwnTypes, PushAnswered, Settled, outboxVars, flushVars
<1> QED
  BY <1>1, <1>3, <1>4, QuietKeeps

LEMMA ResumeTypes ==
  ASSUME OwnTypes, NEW p \in Proc, NEW who, Resume(p, who)
  PROVE  /\ hydrate' \in [Proc -> BOOLEAN]
         /\ loop' \in [Proc -> {"connect", "greet", "poll", "live"}]
         /\ failures' = failures
<1>1. (hydrate[p] /\ who # "boot") \in BOOLEAN
  OBVIOUS
<1>2. hydrate' \in [Proc -> BOOLEAN]
  BY <1>1 DEF OwnTypes, Resume
<1>3. loop' \in [Proc -> {"connect", "greet", "poll", "live"}]
  BY DEF OwnTypes, Resume
<1> QED
  BY <1>2, <1>3 DEF Resume

LEMMA FlushKeeps ==
  ASSUME IInv, NEW p \in Proc, NEW who \in {"boot", "loop"}, Flush(p, who)
  PROVE  IInv'
<1>1. Quiet
  BY DEF Flush, Quiet
<1>2. OwnTypes /\ OutboxTypeOK
  BY TypeParts DEF IInv
<1>3. UNCHANGED <<running, latest, inflight, up>> /\ running[p]
  BY DEF Flush, Due
<1>4. /\ flusher' = flusher \/ flusher' = [flusher EXCEPT ![p] = who]
      /\ replay' \in [Proc -> Seq(Envelope)]
  <2>1. queue[p].entries \in Seq(Envelope)
    BY <1>2 DEF OutboxTypeOK, Queue
  <2>2. CASE BeginFlush(p, who)
    BY <2>1, <2>2, <1>2 DEF BeginFlush, OwnTypes
  <2>3. CASE UNCHANGED flushVars
    BY <2>3, <1>2 DEF flushVars, OwnTypes
  <2> QED
    BY <2>2, <2>3 DEF Flush
<1>5. /\ hydrate' \in [Proc -> BOOLEAN]
      /\ loop' \in [Proc -> {"connect", "greet", "poll", "live"}]
      /\ failures' = failures
  <2>1. CASE Resume(p, who)
    BY <2>1, <1>2, ResumeTypes
  <2>2. CASE UNCHANGED loopVars
    BY <2>2, <1>2 DEF loopVars, OwnTypes
  <2> QED
    BY <2>1, <2>2 DEF Flush
<1>6. flusher' \in [Proc -> {"nobody", "boot", "loop"}]
  BY <1>2, <1>4 DEF OwnTypes
<1>7. OwnTypes'
  BY <1>2, <1>3, <1>4, <1>5, <1>6 DEF OwnTypes
<1>8. DownInv'
  BY <1>1, <1>2, <1>3, <1>4 DEF IInv, DownInv, OwnTypes, Quiet, outboxVars
<1> QED
  BY <1>1, <1>7, <1>8, QuietKeeps

LEMMA FlushEndsKeeps ==
  ASSUME IInv, NEW p \in Proc, FlushEnds(p)
  PROVE  IInv'
<1>1. Quiet
  BY DEF FlushEnds, Quiet
<1>2. OwnTypes
  BY TypeParts DEF IInv
<1>3. /\ UNCHANGED <<running, latest, inflight, up>>
      /\ flusher' = [flusher EXCEPT ![p] = "nobody"]
      /\ replay' = [replay EXCEPT ![p] = <<>>]
      /\ Resume(p, flusher[p])
  BY DEF FlushEnds, EndFlush
<1>4. /\ hydrate' \in [Proc -> BOOLEAN]
      /\ loop' \in [Proc -> {"connect", "greet", "poll", "live"}]
      /\ failures' = failures
  BY <1>2, <1>3, ResumeTypes
<1>5. <<>> \in Seq(Envelope)
  OBVIOUS
<1>6. OwnTypes'
  BY <1>2, <1>3, <1>4, <1>5 DEF OwnTypes
<1>7. DownInv'
  BY <1>1, <1>2, <1>3 DEF IInv, DownInv, OwnTypes, Quiet, outboxVars
<1> QED
  BY <1>1, <1>6, <1>7, QuietKeeps

\* A failure counts up to the bound.
LEMMA Failures ==
  ASSUME OwnTypes, NEW p \in Proc
  PROVE  /\ 1 \in 0 .. FallbackAfterFailures /\ 0 \in 0 .. FallbackAfterFailures
         /\ (IF failures[p] < FallbackAfterFailures THEN failures[p] + 1 ELSE failures[p])
              \in 0 .. FallbackAfterFailures
         /\ \A n : AfterFailure(n) \in {"poll", "connect"}
<1>1. FallbackAfterFailures \in Nat /\ FallbackAfterFailures >= 1
  BY FallbackAssumption
<1>2. failures[p] \in 0 .. FallbackAfterFailures
  BY DEF OwnTypes
<1>3. \A n : AfterFailure(n) \in {"poll", "connect"}
  BY DEF AfterFailure
<1> QED
  BY <1>1, <1>2, <1>3

LEMMA LoopKeeps ==
  ASSUME IInv, NEW p \in Proc, Connects(p) \/ ConnectFails(p) \/ StreamCloses(p)
  PROVE  IInv'
<1>1. Quiet /\ UNCHANGED <<running, latest, inflight, flushVars, hydrate, up>>
  BY DEF Connects, ConnectFails, StreamCloses, Quiet
<1>2. OwnTypes
  BY TypeParts DEF IInv
<1>3. /\ loop' \in [Proc -> {"connect", "greet", "poll", "live"}]
      /\ failures' \in [Proc -> 0 .. FallbackAfterFailures]
  <2>1. CASE Connects(p)
    BY <2>1, <1>2 DEF Connects, OwnTypes
  <2>2. CASE ConnectFails(p)
    <3> DEFINE n == IF failures[p] < FallbackAfterFailures THEN failures[p] + 1 ELSE failures[p]
    <3>1. n \in 0 .. FallbackAfterFailures /\ AfterFailure(n) \in {"poll", "connect"}
      BY <1>2, Failures
    <3>2. failures' = [failures EXCEPT ![p] = n] /\ loop' = [loop EXCEPT ![p] = AfterFailure(n)]
      BY <2>2 DEF ConnectFails
    <3> HIDE DEF n
    <3> QED
      BY <3>1, <3>2, <1>2 DEF OwnTypes
  <2>3. CASE StreamCloses(p)
    <3>1. 1 \in 0 .. FallbackAfterFailures /\ AfterFailure(1) \in {"poll", "connect"}
      BY <1>2, Failures
    <3> QED
      BY <2>3, <3>1, <1>2 DEF OwnTypes, StreamCloses
  <2> QED
    BY <2>1, <2>2, <2>3
<1>4. OwnTypes'
  BY <1>1, <1>2, <1>3 DEF OwnTypes, flushVars
<1>5. DownInv'
  BY <1>1 DEF IInv, DownInv, Quiet, outboxVars, flushVars
<1> QED
  BY <1>1, <1>4, <1>5, QuietKeeps

LEMMA BackendTurnsKeeps ==
  ASSUME IInv, BackendTurns
  PROVE  IInv'
<1>1. Quiet /\ UNCHANGED <<running, latest, inflight, flushVars, loopVars>>
  BY DEF BackendTurns, Quiet
<1>2. up' \in BOOLEAN
  BY DEF BackendTurns
<1>3. OwnTypes'
  BY <1>1, <1>2, TypeParts DEF IInv, OwnTypes, flushVars, loopVars
<1>4. DownInv'
  BY <1>1 DEF IInv, DownInv, Quiet, outboxVars, flushVars
<1> QED
  BY <1>1, <1>3, <1>4, QuietKeeps


-----------------------------------------------------------------------------
(* The actions that change the queues.                                      *)

\* What a server holds is of the right type.
LEMMA HeldTypes ==
  ASSUME IInv, NEW p \in Proc
  PROVE  /\ queue[p] \in Queue /\ queue[p] \in Held(p)
         /\ \A q \in Held(p) : q \in Queue /\ Distinct(q) /\ Stones(q) \subseteq answered
         /\ \A c \in saving[p] : c \in Change /\ c.snapshot \in Held(p) /\ c.to \in Envelope
<1>1. OutboxTypeOK /\ HeldInv
  BY TypeParts DEF IInv
<1>2. queue[p] \in Queue /\ \A c \in saving[p] : c \in Change
  BY <1>1 DEF OutboxTypeOK
<1>3. \A c \in saving[p] : c.snapshot \in Queue /\ c.to \in Envelope
  BY <1>2 DEF Change
<1>4. \A q \in Held(p) : q \in Queue
  BY <1>2, <1>3 DEF Held
<1>5. queue[p] \in Held(p) /\ \A c \in saving[p] : c.snapshot \in Held(p)
  BY DEF Held
<1> QED
  BY <1>1, <1>2, <1>3, <1>4, <1>5 DEF HeldInv

\* A change to a queue: p holds the new queue, and nothing else is new.
LEMMA Changed ==
  ASSUME IInv, NEW p \in Proc, NEW did \in {"enqueue", "remove"}, NEW e \in Envelope,
         NEW q \in Queue, ChangeQueue(p, did, e, q), running[p],
         UNCHANGED running, inflight'[p] \subseteq inflight[p],
         \A r \in Proc : r # p => inflight'[r] = inflight[r],
         UNCHANGED flusher
  PROVE  /\ OutboxTypeOK' /\ DownInv'
         /\ \A r \in Proc : \A h \in Held(r)' : h \in Held(r) \/ h = q
         /\ \A r \in Proc : \A c \in saving'[r] :
              c \in saving[r] \/ (c.did = did /\ c.to = e /\ c.snapshot = q)
<1> DEFINE new == [did |-> did, to |-> e, snapshot |-> q]
<1>1. OutboxTypeOK
  BY TypeParts DEF IInv
<1>2. /\ queue' = [queue EXCEPT ![p] = q] /\ file' = file
      /\ saving' = [saving EXCEPT ![p] = @ \cup {new}]
  BY DEF ChangeQueue
<1>3. new \in Change
  BY DEF Change
<1>4. new.did = did /\ new.to = e /\ new.snapshot = q
  OBVIOUS
<1> HIDE DEF new
<1>5. \A r \in Proc : saving'[r] \subseteq saving[r] \cup {new} /\ (r # p => saving'[r] = saving[r])
  BY <1>1, <1>2 DEF OutboxTypeOK
<1>6. OutboxTypeOK'
  BY <1>1, <1>2, <1>3, <1>5 DEF OutboxTypeOK
<1>7. DownInv'
  BY <1>2, <1>5 DEF IInv, DownInv
<1>8. \A r \in Proc : \A h \in Held(r)' : h \in Held(r) \/ h = q
  BY <1>1, <1>2, <1>4, <1>5 DEF OutboxTypeOK, Held
<1> QED
  BY <1>4, <1>5, <1>6, <1>7, <1>8


LEMMA PushFailsKeeps ==
  ASSUME IInv, NEW p \in Proc, NEW e \in inflight[p], PushFails(p, e)
  PROVE  IInv'
<1> DEFINE q == Enqueued(queue[p], e)
<1>1. OwnTypes /\ HistoryTypes
  BY TypeParts DEF IInv
<1>2. e \in Envelope /\ running[p] /\ queue[p] \in Queue /\ Distinct(queue[p])
        /\ Stones(queue[p]) \subseteq answered /\ queue[p] \in Held(p)
  BY <1>1, HeldTypes DEF IInv, DownInv, OwnTypes
<1>3. /\ q \in Queue /\ Distinct(q) /\ Stones(q) = Stones(queue[p]) \ {e} /\ e \in Entries(q)
      /\ \A x \in Entries(q) : x \in Entries(queue[p]) \/ x = e
  BY <1>2, EnqueuedQueue
<1>4. /\ ChangeQueue(p, "enqueue", e, q)
      /\ UNCHANGED <<running, latest, flushVars, loopVars, up, answered, pruned>>
      /\ gone' = gone \ {e} /\ file' = file
      /\ queued' = IF e \in answered THEN OtherRecords(e.key) ELSE queued
  BY DEF PushFails, Enqueue, ChangeQueue
<1>5. inflight' = [inflight EXCEPT ![p] = @ \ {e}]
  BY DEF PushFails, Settled
<1> HIDE DEF q
<1>6. /\ OutboxTypeOK' /\ DownInv'
      /\ \A r \in Proc : \A h \in Held(r)' : h \in Held(r) \/ h = q
      /\ \A r \in Proc : \A c \in saving'[r] :
           c \in saving[r] \/ (c.did = "enqueue" /\ c.to = e /\ c.snapshot = q)
  <2>1. inflight'[p] \subseteq inflight[p] /\ \A r \in Proc : r # p => inflight'[r] = inflight[r]
    BY <1>1, <1>5 DEF OwnTypes
  <2>2. UNCHANGED running /\ UNCHANGED flusher /\ "enqueue" \in {"enqueue", "remove"}
    BY <1>4 DEF flushVars
  <2> QED
    BY <2>1, <2>2, <1>2, <1>3, <1>4, Changed
<1>7. queued' \subseteq queued
  BY <1>4 DEF OtherRecords
<1>8. OwnTypes'
  BY <1>1, <1>4, <1>5 DEF OwnTypes, flushVars, loopVars
<1>9. HistoryTypes'
  BY <1>1, <1>4, <1>7 DEF HistoryTypes
<1>10. HeldInv'
  BY <1>2, <1>3, <1>4, <1>6 DEF IInv, HeldInv
<1>11. FileInv'
  BY <1>4 DEF IInv, FileInv
<1>12. ChangeInv'
  BY <1>3, <1>6 DEF IInv, ChangeInv
<1>13. GoneInv'
  BY <1>4 DEF IInv, GoneInv
<1>14. QueuedInv'
  <2> SUFFICES ASSUME NEW x \in queued' \ answered'
               PROVE  /\ file' # NoFile
                      /\ \E y \in Entries(file') : y.key = x.key
                      /\ \A y \in Entries(file') : y.key = x.key => y \notin answered'
                      /\ \A r \in Proc : \A h \in Held(r)' : \A y \in Entries(h) :
                           y.key = x.key => y \notin answered'
    BY DEF QueuedInv
  <2>1. x \in queued \ answered /\ (e \in answered => x.key # e.key)
    BY <1>4, <1>7 DEF OtherRecords
  <2>2. \A y \in Entries(q) : y.key = x.key => y \notin answered
    BY <2>1, <1>2, <1>3 DEF IInv, QueuedInv
  <2>3. \A r \in Proc : \A h \in Held(r) : \A y \in Entries(h) : y.key = x.key => y \notin answered
    BY <2>1 DEF IInv, QueuedInv
  <2>4. \A r \in Proc : \A h \in Held(r)' : \A y \in Entries(h) : y.key = x.key => y \notin answered
    BY <2>2, <2>3, <1>6
  <2> QED
    BY <2>1, <2>4, <1>4 DEF IInv, QueuedInv
<1> QED
  BY <1>6, <1>8, <1>9, <1>10, <1>11, <1>12, <1>13, <1>14, TypeParts
  DEF IInv, TypeOK, OwnTypes, HistoryTypes

LEMMA ReplayAnsweredKeeps ==
  ASSUME IInv, NEW p \in Proc, ReplayAnswered(p)
  PROVE  IInv'
<1> DEFINE e == Head(replay[p])
           q == Removed(queue[p], e)
<1>1. OwnTypes /\ HistoryTypes
  BY TypeParts DEF IInv
<1>2. e \in Envelope /\ Tail(replay[p]) \in Seq(Envelope)
  <2>1. replay[p] \in Seq(Envelope) /\ replay[p] # <<>>
    BY <1>1 DEF OwnTypes, ReplayAnswered
  <2> QED
    BY <2>1
<1>3. running[p] /\ queue[p] \in Queue /\ Distinct(queue[p])
        /\ Stones(queue[p]) \subseteq answered /\ queue[p] \in Held(p)
  BY HeldTypes DEF IInv, DownInv, ReplayAnswered, Replaying
<1>4. /\ ChangeQueue(p, "remove", e, q)
      /\ UNCHANGED <<running, latest, inflight, flusher, loopVars, up, gone, pruned>> /\ file' = file
      /\ answered' = answered \cup {e}
      /\ queued' = OtherRecords(e.key)
      /\ replay' = [replay EXCEPT ![p] = Tail(@)]
  BY DEF ReplayAnswered, RemoveEntry, ChangeQueue
<1> HIDE DEF e
<1>5. /\ q \in Queue /\ Distinct(q)
      /\ e \in Stones(q) /\ Stones(q) \subseteq Stones(queue[p]) \cup {e}
      /\ Entries(q) = Entries(queue[p]) \ {e}
  BY <1>2, <1>3, RemovedQueue
<1> HIDE DEF q
<1>6. /\ OutboxTypeOK' /\ DownInv'
      /\ \A r \in Proc : \A h \in Held(r)' : h \in Held(r) \/ h = q
      /\ \A r \in Proc : \A c \in saving'[r] :
           c \in saving[r] \/ (c.did = "remove" /\ c.to = e /\ c.snapshot = q)
  <2>1. inflight'[p] \subseteq inflight[p] /\ \A r \in Proc : r # p => inflight'[r] = inflight[r]
    BY <1>4
  <2>2. UNCHANGED running /\ UNCHANGED flusher /\ "remove" \in {"enqueue", "remove"}
    BY <1>4
  <2> QED
    BY <2>1, <2>2, <1>2, <1>3, <1>4, <1>5, Changed
<1>7. queued' \subseteq queued /\ \A x \in queued' : x.key # e.key
  BY <1>4 DEF OtherRecords
<1>8. OwnTypes'
  BY <1>1, <1>2, <1>4 DEF OwnTypes, loopVars
<1>9. HistoryTypes'
  BY <1>1, <1>2, <1>4, <1>7 DEF HistoryTypes
<1>10. HeldInv'
  BY <1>3, <1>4, <1>5, <1>6 DEF IInv, HeldInv
<1>11. FileInv'
  BY <1>4 DEF IInv, FileInv
<1>12. ChangeInv'
  <2>1. e \in Stones(q)
    BY <1>5
  <2> QED
    BY <2>1, <1>6 DEF IInv, ChangeInv
<1>13. GoneInv'
  BY <1>4 DEF IInv, GoneInv
<1>14. QueuedInv'
  <2> SUFFICES ASSUME NEW x \in queued' \ answered'
               PROVE  /\ file' # NoFile
                      /\ \E y \in Entries(file') : y.key = x.key
                      /\ \A y \in Entries(file') : y.key = x.key => y \notin answered'
                      /\ \A r \in Proc : \A h \in Held(r)' : \A y \in Entries(h) :
                           y.key = x.key => y \notin answered'
    BY DEF QueuedInv
  <2>1. x \in queued \ answered /\ x.key # e.key
    BY <1>4, <1>7
  <2>2. \A y : y.key = x.key /\ y \notin answered => y \notin answered'
    BY <2>1, <1>4
  <2>3. \A r \in Proc : \A h \in Held(r) : \A y \in Entries(h) : y.key = x.key => y \notin answered
    BY <2>1 DEF IInv, QueuedInv
  <2>4. \A y \in Entries(q) : y.key = x.key => y \notin answered
    BY <2>3, <1>3, <1>5
  <2>5. \A r \in Proc : \A h \in Held(r)' : \A y \in Entries(h) : y.key = x.key => y \notin answered
    BY <2>3, <2>4, <1>6
  <2>6. /\ file # NoFile
        /\ \E y \in Entries(file) : y.key = x.key
        /\ \A y \in Entries(file) : y.key = x.key => y \notin answered
    BY <2>1 DEF IInv, QueuedInv
  <2> QED
    BY <2>2, <2>5, <2>6, <1>4
<1> QED
  BY <1>6, <1>8, <1>9, <1>10, <1>11, <1>12, <1>13, <1>14, TypeParts
  DEF IInv, TypeOK, OwnTypes, HistoryTypes

\* What a save leaves on file.
LEMMA SavedFile ==
  ASSUME IInv, NEW p \in Proc, NEW c \in saving[p], Persist(p, c)
  PROVE  /\ file' \in Queue /\ file' # NoFile /\ Distinct(file')
         /\ Stones(file') \subseteq Stones(c.snapshot) \cup (IF file = NoFile THEN {} ELSE Stones(file))
         /\ Stones(c.snapshot) \cup (IF file = NoFile THEN {} ELSE Stones(file))
              \subseteq Stones(file') \cup CutStones(c.snapshot)
         /\ \A x \in Entries(c.snapshot) : x \in Entries(file')
         /\ \A x \in Entries(file') :
              \/ x \in Entries(c.snapshot)
              \/ file # NoFile /\ x \in Entries(file) /\ x.key \notin KeysOf(c.snapshot)
         /\ file # NoFile => \A x \in Entries(file) :
              x \in Entries(file') \/ x.key \in KeysOf(c.snapshot) \/ x \in Stones(c.snapshot) \cup Stones(file)
<1>1. c.snapshot \in Queue /\ Distinct(c.snapshot)
  BY HeldTypes
<1>2. CASE file = NoFile
  BY <1>1, <1>2, NoFileAssumption DEF Persist, CutStones, Stones
<1>3. CASE file # NoFile
  <2>1. file \in Queue /\ Distinct(file)
    BY <1>3, TypeParts DEF IInv, OutboxTypeOK, FileInv
  <2> DEFINE r == MergeOutboxes(c.snapshot, file)
  <2>2. file' = r
    BY <1>3 DEF Persist
  <2>3. /\ r \in Queue /\ Distinct(r)
        /\ r.stones = Capped(AllStones(c.snapshot, file))
        /\ Stones(r) \subseteq Stones(c.snapshot) \cup Stones(file)
        /\ \A x \in Entries(r) : x \in Entries(c.snapshot) \/ x \in Entries(file)
        /\ \A x \in Entries(r) : x.key \in KeysOf(c.snapshot) => x \in Entries(c.snapshot)
        /\ \A x \in Entries(c.snapshot) : x \in Entries(r)
        /\ \A x \in Entries(file) :
             x \in Entries(r) \/ x.key \in KeysOf(c.snapshot) \/ x \in Stones(c.snapshot) \cup Stones(file)
    BY <1>1, <2>1, MergedQueue
  <2> HIDE DEF r
  <2>4. ToSet(AllStones(c.snapshot, file)) = Stones(c.snapshot) \cup Stones(file)
    BY <1>1, <2>1, AllStonesFacts
  <2>5. Stones(c.snapshot) \cup Stones(file) \subseteq Stones(r) \cup CutStones(c.snapshot)
    BY <1>3, <2>3, <2>4 DEF CutStones, Stones
  <2> QED
    BY <1>3, <2>2, <2>3, <2>5, NoFileAssumption
<1> QED
  BY <1>2, <1>3


\* What the cap takes are envelopes.
LEMMA CutFacts ==
  ASSUME IInv, NEW p \in Proc, NEW c \in saving[p]
  PROVE  CutStones(c.snapshot) \subseteq Envelope
<1>1. c.snapshot \in Queue
  BY HeldTypes
<1>2. Stones(c.snapshot) \subseteq Envelope /\ ToSet(c.snapshot.stones) = Stones(c.snapshot)
  BY <1>1, InEntries DEF Stones
<1>3. CASE file = NoFile
  BY <1>2, <1>3 DEF CutStones
<1>4. CASE file # NoFile
  <2>1. file \in Queue
    BY <1>4, TypeParts DEF IInv, OutboxTypeOK
  <2>2. Stones(file) \subseteq Envelope
    BY <2>1, InEntries
  <2>3. ToSet(AllStones(c.snapshot, file)) = Stones(c.snapshot) \cup Stones(file)
    BY <1>1, <2>1, AllStonesFacts
  <2> QED
    BY <1>2, <1>4, <2>2, <2>3 DEF CutStones
<1> QED
  BY <1>3, <1>4

LEMMA SaveKeeps ==
  ASSUME IInv, NEW p \in Proc, NEW c \in saving[p], Save(p, c)
  PROVE  IInv'
<1>1. OutboxTypeOK /\ OwnTypes /\ HistoryTypes
  BY TypeParts DEF IInv
<1>2. /\ UNCHANGED <<running, latest, inflight, flushVars, loopVars, up, answered>>
      /\ queue' = queue /\ saving' = [saving EXCEPT ![p] = @ \ {c}]
      /\ Persist(p, c)
      /\ pruned' = (pruned \cup CutStones(c.snapshot)) \ Stones(file')
  BY DEF Save, Persist
<1>3. /\ c \in Change /\ c.to \in Envelope /\ c.snapshot \in Held(p)
      /\ Stones(c.snapshot) \subseteq answered
  BY HeldTypes
<1>4. /\ file' \in Queue /\ file' # NoFile /\ Distinct(file')
      /\ Stones(file') \subseteq Stones(c.snapshot) \cup (IF file = NoFile THEN {} ELSE Stones(file))
      /\ Stones(c.snapshot) \cup (IF file = NoFile THEN {} ELSE Stones(file))
           \subseteq Stones(file') \cup CutStones(c.snapshot)
      /\ \A x \in Entries(c.snapshot) : x \in Entries(file')
      /\ \A x \in Entries(file') :
           \/ x \in Entries(c.snapshot)
           \/ file # NoFile /\ x \in Entries(file) /\ x.key \notin KeysOf(c.snapshot)
      /\ file # NoFile => \A x \in Entries(file) :
           x \in Entries(file') \/ x.key \in KeysOf(c.snapshot) \/ x \in Stones(c.snapshot) \cup Stones(file)
  BY <1>2, SavedFile
<1>5. IF c.did = "enqueue" THEN c.to \in Entries(c.snapshot) ELSE c.to \in Stones(c.snapshot)
  BY DEF IInv, ChangeInv
<1>6. /\ \A r \in Proc : saving'[r] \subseteq saving[r]
      /\ \A r \in Proc : Held(r)' \subseteq Held(r)
  BY <1>1, <1>2 DEF OutboxTypeOK, Held
<1>7. /\ Stones(file') \subseteq answered
      /\ file # NoFile => Stones(c.snapshot) \cup Stones(file) \subseteq answered
  BY <1>3, <1>4 DEF IInv, FileInv
<1>8. \/ c.did = "enqueue" /\ queued' = queued \cup Settles(p, c) /\ gone' = gone
      \/ c.did # "enqueue" /\ gone' = gone \cup ({c.to} \ Entries(queue[p])) /\ queued' = queued
  BY DEF Save
<1>9. OutboxTypeOK'
  BY <1>1, <1>2, <1>4 DEF OutboxTypeOK
<1>10. OwnTypes'
  BY <1>1, <1>2 DEF OwnTypes, flushVars, loopVars
<1>11. gone' \subseteq pruned' \cup Stones(file')
  <2>1. gone \subseteq pruned' \cup Stones(file')
    BY <1>2, <1>4 DEF IInv, GoneInv
  <2>2. c.did # "enqueue" => c.to \in pruned' \cup Stones(file')
    BY <1>2, <1>4, <1>5
  <2> QED
    BY <2>1, <2>2, <1>8
<1>12. GoneInv'
  BY <1>4, <1>11 DEF GoneInv
<1>13. HistoryTypes'
  <2>1. Settles(p, c) \subseteq Envelope
    BY <1>3 DEF Settles
  <2>2. queued' \subseteq Envelope
    BY <1>1, <1>8, <2>1 DEF HistoryTypes
  <2>3. gone' \subseteq answered'
    <3>1. c.did # "enqueue" => c.to \in answered
      BY <1>3, <1>5
    <3> QED
      BY <3>1, <1>1, <1>2, <1>8 DEF HistoryTypes
  <2>4. pruned' \subseteq Envelope
    <3>1. CutStones(c.snapshot) \subseteq Envelope
      BY CutFacts
    <3> QED
      BY <3>1, <1>1, <1>2 DEF HistoryTypes
  <2> QED
    BY <2>2, <2>3, <2>4, <1>1, <1>2 DEF HistoryTypes
<1>14. DownInv'
  BY <1>2, <1>6 DEF IInv, DownInv, flushVars
<1>15. HeldInv'
  BY <1>2, <1>6 DEF IInv, HeldInv
<1>16. FileInv'
  BY <1>2, <1>4, <1>7 DEF FileInv
<1>17. ChangeInv'
  BY <1>6 DEF IInv, ChangeInv
<1>18. QueuedInv'
  <2> SUFFICES ASSUME NEW x \in queued' \ answered'
               PROVE  /\ file' # NoFile
                      /\ \E y \in Entries(file') : y.key = x.key
                      /\ \A y \in Entries(file') : y.key = x.key => y \notin answered'
                      /\ \A r \in Proc : \A h \in Held(r)' : \A y \in Entries(h) :
                           y.key = x.key => y \notin answered'
    BY DEF QueuedInv
  <2>1. CASE x \in queued
    <3>1. /\ file # NoFile
          /\ \E y \in Entries(file) : y.key = x.key
          /\ \A y \in Entries(file) : y.key = x.key => y \notin answered
          /\ \A r \in Proc : \A h \in Held(r) : \A y \in Entries(h) :
               y.key = x.key => y \notin answered
      BY <2>1, <1>2 DEF IInv, QueuedInv
    <3>2. PICK y \in Entries(file) : y.key = x.key /\ y \notin answered
      BY <3>1
    <3>3. y \notin Stones(c.snapshot) \cup Stones(file)
      BY <3>1, <3>2, <1>7
    <3>4. \E z \in Entries(file') : z.key = x.key
      <4>1. CASE y \in Entries(file')
        BY <4>1, <3>2
      <4>2. CASE y.key \in KeysOf(c.snapshot)
        BY <4>2, <3>2, <1>4 DEF KeysOf
      <4> QED
        BY <4>1, <4>2, <3>1, <3>3, <1>4
    <3>5. \A z \in Entries(file') : z.key = x.key => z \notin answered
      BY <3>1, <1>3, <1>4
    <3>6. \A r \in Proc : \A h \in Held(r)' : \A z \in Entries(h) :
            z.key = x.key => z \notin answered
      BY <3>1, <1>6
    <3> QED
      BY <3>4, <3>5, <3>6, <1>2, <1>4
  <2>2. CASE x \notin queued
    <3>1. c.did = "enqueue" /\ x \in Settles(p, c)
      BY <2>2, <1>8
    <3>2. x = c.to /\ ~Overtaken(x)
      BY <3>1 DEF Settles
    <3>3. \A r \in Proc : \A h \in Held(r) : \A y \in Entries(h) : y.key = x.key => y = x
      BY <3>2 DEF Overtaken
    <3>4. x \in Entries(c.snapshot) /\ x \in Entries(file') /\ x \notin answered
      BY <3>1, <3>2, <1>2, <1>4, <1>5
    <3>5. \A y \in Entries(file') : y.key = x.key => y = x
      <4> SUFFICES ASSUME NEW y \in Entries(file'), y.key = x.key
                   PROVE  y = x
        OBVIOUS
      <4>1. y.key \in KeysOf(c.snapshot)
        BY <3>4 DEF KeysOf
      <4>2. y \in Entries(c.snapshot)
        BY <4>1, <1>4
      <4> QED
        BY <4>2, <3>3, <1>3
    <3>6. \A r \in Proc : \A h \in Held(r)' : \A z \in Entries(h) :
            z.key = x.key => z \notin answered
      BY <3>3, <3>4, <1>6
    <3> QED
      BY <3>4, <3>5, <3>6, <1>2, <1>4
  <2> QED
    BY <2>1, <2>2
<1> QED
  BY <1>9, <1>10, <1>12, <1>13, <1>14, <1>15, <1>16, <1>17, <1>18, TypeParts
  DEF IInv, TypeOK, OwnTypes, HistoryTypes

\* A process that comes up or goes down: it holds what is alive on file, or nothing.
LEMMA Reset ==
  ASSUME IInv, NEW p \in Proc, NEW q \in Queue, Distinct(q), Stones(q) \subseteq answered,
         \A x \in Entries(q) : file # NoFile /\ x \in Entries(file),
         queue' = [queue EXCEPT ![p] = q],
         saving' = saving \/ saving' = [saving EXCEPT ![p] = {}],
         saving'[p] = {},
         UNCHANGED <<file, history>>, OwnTypes', DownInv'
  PROVE  IInv'
<1>1. OutboxTypeOK /\ HistoryTypes
  BY TypeParts DEF IInv
<1>2. \A r \in Proc : saving'[r] \subseteq saving[r]
  BY <1>1 DEF OutboxTypeOK
<1>3. OutboxTypeOK'
  BY <1>1, <1>2 DEF OutboxTypeOK
<1>4. \A r \in Proc : \A h \in Held(r)' : h \in Held(r) \/ h = q
  BY <1>1, <1>2 DEF OutboxTypeOK, Held
<1>5. HistoryTypes'
  BY <1>1 DEF HistoryTypes, history
<1>6. HeldInv'
  BY <1>4 DEF IInv, HeldInv, history
<1>7. FileInv' /\ GoneInv'
  BY DEF IInv, FileInv, GoneInv, history
<1>8. ChangeInv'
  BY <1>2 DEF IInv, ChangeInv
<1>9. QueuedInv'
  <2> SUFFICES ASSUME NEW x \in queued \ answered
               PROVE  /\ file # NoFile
                      /\ \E y \in Entries(file) : y.key = x.key
                      /\ \A y \in Entries(file) : y.key = x.key => y \notin answered
                      /\ \A r \in Proc : \A h \in Held(r)' : \A y \in Entries(h) :
                           y.key = x.key => y \notin answered
    BY DEF QueuedInv, history
  <2>1. /\ file # NoFile
        /\ \E y \in Entries(file) : y.key = x.key
        /\ \A y \in Entries(file) : y.key = x.key => y \notin answered
        /\ \A r \in Proc : \A h \in Held(r) : \A y \in Entries(h) :
             y.key = x.key => y \notin answered
    BY DEF IInv, QueuedInv
  <2>2. \A y \in Entries(q) : y.key = x.key => y \notin answered
    BY <2>1
  <2> QED
    BY <2>1, <2>2, <1>4
<1> QED
  BY <1>3, <1>5, <1>6, <1>7, <1>8, <1>9, TypeParts DEF IInv, TypeOK, OwnTypes, HistoryTypes

LEMMA BootKeeps ==
  ASSUME IInv, NEW p \in Proc, Boot(p)
  PROVE  IInv'
<1>1. OutboxTypeOK /\ OwnTypes
  BY TypeParts DEF IInv
<1>2. /\ ~running[p] /\ running' = [running EXCEPT ![p] = TRUE]
      /\ queue' = [queue EXCEPT ![p] = Loaded] /\ UNCHANGED <<saving, file>>
      /\ hydrate' = [hydrate EXCEPT ![p] = TRUE]
      /\ UNCHANGED <<latest, inflight, flushVars, loop, failures, up, history>>
  BY DEF Boot, LoadQueue
<1>3. /\ Loaded \in Queue /\ Distinct(Loaded)
      /\ file = NoFile => Loaded = EmptyQueue
      /\ file # NoFile => /\ Stones(Loaded) = Stones(file)
                          /\ Entries(Loaded) = Entries(file) \ Stones(file)
  BY <1>1, LoadedQueue DEF IInv, FileInv, OutboxTypeOK
<1>4. /\ Stones(Loaded) \subseteq answered
      /\ \A x \in Entries(Loaded) : file # NoFile /\ x \in Entries(file)
  BY <1>3, EmptyQueueFacts DEF IInv, FileInv
<1>5. OwnTypes'
  BY <1>1, <1>2 DEF OwnTypes, flushVars
<1>6. DownInv' /\ saving'[p] = {}
  BY <1>1, <1>2 DEF IInv, DownInv, OwnTypes, flushVars
<1> QED
  BY <1>2, <1>3, <1>4, <1>5, <1>6, Reset

LEMMA CrashKeeps ==
  ASSUME IInv, NEW p \in Proc, Crash(p)
  PROVE  IInv'
<1>1. OutboxTypeOK /\ OwnTypes
  BY TypeParts DEF IInv
<1>2. /\ running' = [running EXCEPT ![p] = FALSE]
      /\ queue' = [queue EXCEPT ![p] = EmptyQueue]
      /\ saving' = [saving EXCEPT ![p] = {}]
      /\ inflight' = [inflight EXCEPT ![p] = {}]
      /\ replay' = [replay EXCEPT ![p] = <<>>]
      /\ flusher' = [flusher EXCEPT ![p] = "nobody"]
      /\ hydrate' = [hydrate EXCEPT ![p] = FALSE]
      /\ loop' = [loop EXCEPT ![p] = "connect"]
      /\ failures' = [failures EXCEPT ![p] = 0]
      /\ UNCHANGED <<file, latest, up, history>>
  BY DEF Crash, LoseQueue
<1>3. <<>> \in Seq(Envelope) /\ 0 \in 0 .. FallbackAfterFailures
  BY FallbackAssumption
<1>4. OwnTypes'
  BY <1>1, <1>2, <1>3 DEF OwnTypes
<1>5. DownInv' /\ saving'[p] = {}
  BY <1>1, <1>2 DEF IInv, DownInv, OutboxTypeOK, OwnTypes
<1> QED
  BY <1>2, <1>4, <1>5, EmptyQueueFacts, Reset

-----------------------------------------------------------------------------
(* The theorems.                                                            *)

LEMMA InitIInv == Init => IInv
<1> SUFFICES ASSUME Init
             PROVE  IInv
  OBVIOUS
<1>1. /\ queue = [p \in Proc |-> EmptyQueue] /\ saving = [p \in Proc |-> {}]
      /\ file = NoFile
  BY DEF Init, OutboxInit
<1>2. OutboxTypeOK
  BY <1>1, EmptyQueueFacts DEF OutboxTypeOK
<1>3. OwnTypes
  <2>1. <<>> \in Seq(Envelope) /\ 0 \in 0 .. FallbackAfterFailures /\ 0 \in 0 .. Versions
    BY FallbackAssumption, VersionsAssumption
  <2> QED
    BY <2>1 DEF Init, OwnTypes
<1>4. HistoryTypes
  BY DEF Init, HistoryTypes
<1>5. DownInv
  BY <1>1 DEF Init, DownInv
<1>6. HeldInv
  BY <1>1, EmptyQueueFacts DEF HeldInv, Held
<1>7. FileInv /\ ChangeInv
  BY <1>1 DEF FileInv, ChangeInv
<1>8. GoneInv /\ QueuedInv
  BY DEF Init, GoneInv, QueuedInv
<1> QED
  BY <1>2, <1>3, <1>4, <1>5, <1>6, <1>7, <1>8, TypeParts DEF IInv

\* The inductive invariant.
THEOREM Invariance == Spec => []IInv
<1>1. ASSUME IInv, [Next]_vars
      PROVE  IInv'
  <2>1. CASE \E p \in Proc : \E k \in Key : Push(p, k)
    BY <1>1, <2>1, PushKeeps
  <2>2. CASE \E p \in Proc : \E e \in Envelope : PushAgain(p, e)
    BY <1>1, <2>2, PushAgainKeeps
  <2>3. CASE \E p \in Proc : \E e \in inflight[p] : PushAnswered(p, e)
    BY <1>1, <2>3, PushAnsweredKeeps
  <2>4. CASE \E p \in Proc : \E e \in inflight[p] : PushFails(p, e)
    BY <1>1, <2>4, PushFailsKeeps
  <2>5. CASE \E p \in Proc : \E who \in {"boot", "loop"} : Flush(p, who)
    BY <1>1, <2>5, FlushKeeps
  <2>6. CASE \E p \in Proc : ReplayAnswered(p)
    BY <1>1, <2>6, ReplayAnsweredKeeps
  <2>7. CASE \E p \in Proc : FlushEnds(p)
    BY <1>1, <2>7, FlushEndsKeeps
  <2>8. CASE \E p \in Proc : \E c \in saving[p] : Save(p, c)
    BY <1>1, <2>8, SaveKeeps
  <2>9. CASE \E p \in Proc : Connects(p) \/ ConnectFails(p) \/ StreamCloses(p)
    BY <1>1, <2>9, LoopKeeps
  <2>10. CASE \E p \in Proc : Boot(p)
    BY <1>1, <2>10, BootKeeps
  <2>11. CASE \E p \in Proc : Crash(p)
    BY <1>1, <2>11, CrashKeeps
  <2>12. CASE BackendTurns
    BY <1>1, <2>12, BackendTurnsKeeps
  <2>13. CASE UNCHANGED vars
    <3>1. Quiet /\ UNCHANGED <<running, latest, inflight, flushVars, loopVars, up>>
      BY <2>13 DEF vars, Quiet
    <3>2. OwnTypes'
      BY <1>1, <3>1, TypeParts DEF IInv, OwnTypes, flushVars, loopVars
    <3>3. DownInv'
      BY <1>1, <3>1 DEF IInv, DownInv, Quiet, outboxVars, flushVars
    <3> QED
      BY <1>1, <3>1, <3>2, <3>3, QuietKeeps
  <2> QED
    BY <1>1, <2>1, <2>2, <2>3, <2>4, <2>5, <2>6, <2>7, <2>8, <2>9, <2>10, <2>11, <2>12,
       <2>13 DEF Next
<1> QED
  BY <1>1, InitIInv, PTL DEF Spec


\* Every variable keeps its type, for any number of servers, records and versions
\* and any capacity of the queue.
THEOREM TypeCorrect == Spec => []TypeOK
<1>1. IInv => TypeOK
  BY DEF IInv
<1> QED
  BY <1>1, Invariance, PTL

LEMMA OnePerKey ==
  ASSUME NEW q \in Queue, Distinct(q)
  PROVE  Len(q.entries) = Cardinality(KeysOf(q))
<1> DEFINE n == Len(q.entries)
           f == [i \in 1 .. n |-> q.entries[i].key]
<1>1. /\ n \in Nat
      /\ \A i \in 1 .. n : q.entries[i] \in Entries(q)
      /\ \A x \in Entries(q) : \E i \in 1 .. n : q.entries[i] = x
  BY InEntries
<1>2. f \in [1 .. n -> KeysOf(q)]
  BY <1>1 DEF KeysOf
<1>3. \A k \in KeysOf(q) : \E i \in 1 .. n : f[i] = k
  BY <1>1 DEF KeysOf
<1>4. \A i, j \in 1 .. n : f[i] = f[j] => i = j
  BY DEF Distinct
<1>5. f \in Bijection(1 .. n, KeysOf(q))
  BY <1>2, <1>3, <1>4 DEF Bijection, Injection, Surjection, IsInjective
<1>6. ExistsBijection(1 .. n, KeysOf(q))
  BY <1>5 DEF ExistsBijection
<1> HIDE DEF n
<1>7. Cardinality(KeysOf(q)) = n
  BY <1>1, <1>6, FS_CountingElements
<1> QED
  BY <1>7 DEF n

\* A queue holds one entry per record, in every server's memory and on file, however
\* the snapshots of any number of servers are merged (outbox: "latest-only").
THEOREM OneEntryEach == Spec => []OneEntryPerRecord
<1>1. ASSUME IInv
      PROVE  OneEntryPerRecord
  <2> SUFFICES ASSUME NEW q \in {queue[p] : p \in Proc} \cup ({file} \ {NoFile})
               PROVE  Len(q.entries) = Cardinality(KeysOf(q))
    BY DEF OneEntryPerRecord
  <2>1. CASE q \in {queue[p] : p \in Proc}
    BY <1>1, <2>1, HeldTypes, OnePerKey
  <2>2. CASE q = file /\ file # NoFile
    BY <1>1, <2>2, TypeParts, OnePerKey DEF IInv, OutboxTypeOK, FileInv
  <2> QED
    BY <2>1, <2>2
<1> QED
  BY <1>1, Invariance, PTL

\* A record that was safely queued is never lost to another server's save: the save
\* puts the envelopes of its memory in front, and none of those is dead.
THEOREM QueuedNeverLost == Spec => []QueuedRecordsSurvive
<1>1. ASSUME IInv
      PROVE  QueuedRecordsSurvive
  <2> SUFFICES ASSUME NEW e \in queued \ answered
               PROVE  file # NoFile /\ \E x \in Entries(file) : x.key = e.key /\ x \notin Stones(file)
    BY DEF QueuedRecordsSurvive
  <2>1. /\ file # NoFile
        /\ \E x \in Entries(file) : x.key = e.key
        /\ \A x \in Entries(file) : x.key = e.key => x \notin answered
    BY <1>1 DEF IInv, QueuedInv
  <2>2. Stones(file) \subseteq answered
    BY <1>1, <2>1 DEF IInv, FileInv
  <2> QED
    BY <2>1, <2>2
<1> QED
  BY <1>1, Invariance, PTL

\* No boot loads an envelope whose removal was saved and that was not queued again, while
\* the cap leaves its tombstone: every save unites the tombstones (merge_outboxes).
THEOREM FlushedForGood == Spec => FlushedStaysFlushed
<1>1. ASSUME IInv, Next, NEW p \in Proc, Boot(p)
      PROVE  Entries(queue'[p]) \cap (gone \ pruned) = {}
  <2>1. OutboxTypeOK
    BY <1>1, TypeParts DEF IInv
  <2>2. queue'[p] = Loaded
    BY <1>1, <2>1 DEF Boot, LoadQueue, OutboxTypeOK
  <2>3. /\ file = NoFile => Loaded = EmptyQueue
        /\ file # NoFile => Entries(Loaded) = Entries(file) \ Stones(file)
    BY <1>1, <2>1, LoadedQueue DEF IInv, FileInv, OutboxTypeOK
  <2>4. CASE file = NoFile
    BY <2>2, <2>3, <2>4, EmptyQueueFacts
  <2>5. CASE file # NoFile
    BY <1>1, <2>2, <2>3, <2>5 DEF IInv, GoneInv
  <2> QED
    BY <2>4, <2>5
<1>2. IInv /\ [Next]_vars =>
        [\A p \in Proc : Boot(p) => Entries(queue'[p]) \cap (gone \ pruned) = {}]_vars
  BY <1>1
<1> QED
  BY <1>2, Invariance, PTL DEF Spec, FlushedStaysFlushed

\* What a step may do to the i-th entry of p's queue.
Accounted(p, i) ==
  LET e == queue[p].entries[i] IN
  \/ e \in Entries(queue'[p]) \cup answered'
  \/ e.key \in KeysOf(queue'[p])
  \/ Len(queue'[p].entries) >= Cap /\ NewerStay(p, i)

LEMMA Untouched ==
  ASSUME IInv, NEW p \in Proc, queue'[p] = queue[p], NEW i \in 1 .. Len(queue[p].entries)
  PROVE  Accounted(p, i)
BY HeldTypes, InEntries DEF Accounted

LEMMA EnqueueAccounts ==
  ASSUME IInv, NEW p \in Proc, NEW e \in inflight[p], PushFails(p, e),
         NEW r \in Proc, NEW i \in 1 .. Len(queue[r].entries)
  PROVE  Accounted(r, i)
<1>1. OutboxTypeOK /\ OwnTypes
  BY TypeParts DEF IInv
<1>2. queue' = [queue EXCEPT ![p] = Enqueued(queue[p], e)]
  BY DEF PushFails, Enqueue, ChangeQueue
<1>3. CASE r # p
  BY <1>1, <1>2, <1>3, Untouched DEF OutboxTypeOK
<1>4. CASE r = p
  <2> DEFINE q == Enqueued(queue[p], e)
  <2>1. queue'[r] = q
    BY <1>1, <1>2, <1>4 DEF OutboxTypeOK
  <2>2. queue[p] \in Queue /\ Distinct(queue[p]) /\ e \in Envelope
    BY <1>1, HeldTypes DEF OwnTypes
  <2>3. /\ e \in Entries(q)
        /\ \A j \in 1 .. Len(queue[p].entries) :
             \/ queue[p].entries[j].key = e.key
             \/ queue[p].entries[j] \in Entries(q)
             \/ /\ Len(q.entries) >= Cap
                /\ ToSet(Front(q.entries)) \subseteq
                     ToSet(SubSeq(queue[p].entries, j + 1, Len(queue[p].entries)))
    BY <2>2, EnqueuedQueue
  <2>4. e.key \in KeysOf(q)
    BY <2>3 DEF KeysOf
  <2> HIDE DEF q
  <2> QED
    BY <1>4, <2>1, <2>3, <2>4 DEF Accounted, NewerStay
<1> QED
  BY <1>3, <1>4

LEMMA RemoveAccounts ==
  ASSUME IInv, NEW p \in Proc, ReplayAnswered(p),
         NEW r \in Proc, NEW i \in 1 .. Len(queue[r].entries)
  PROVE  Accounted(r, i)
<1> DEFINE e == Head(replay[p])
           q == Removed(queue[p], e)
<1>1. OutboxTypeOK /\ OwnTypes
  BY TypeParts DEF IInv
<1>2. queue' = [queue EXCEPT ![p] = q] /\ answered' = answered \cup {e}
  BY DEF ReplayAnswered, RemoveEntry, ChangeQueue
<1>3. CASE r # p
  BY <1>1, <1>2, <1>3, Untouched DEF OutboxTypeOK
<1>4. CASE r = p
  <2>1. e \in Envelope
    <3>1. replay[p] \in Seq(Envelope) /\ replay[p] # <<>>
      BY <1>1 DEF OwnTypes, ReplayAnswered
    <3> QED
      BY <3>1
  <2> HIDE DEF e
  <2>2. Entries(q) = Entries(queue[p]) \ {e}
    BY <2>1, HeldTypes, RemovedQueue
  <2>3. queue'[r] = q
    BY <1>1, <1>2, <1>4 DEF OutboxTypeOK
  <2>4. queue[p].entries[i] \in Entries(queue[p])
    BY <1>4, HeldTypes, InEntries
  <2> HIDE DEF q
  <2> QED
    BY <1>2, <1>4, <2>2, <2>3, <2>4 DEF Accounted
<1> QED
  BY <1>3, <1>4

\* An entry leaves a queue only answered, replaced or as the oldest of a full one:
\* what a flush removes is the very envelope it sent.
THEOREM NothingJustLeaves == Spec => NothingLeavesUnanswered
<1>1. ASSUME IInv, Next, NEW r \in Proc, running'[r], NEW i \in 1 .. Len(queue[r].entries)
      PROVE  Accounted(r, i)
  <2>1. OutboxTypeOK /\ OwnTypes
    BY <1>1, TypeParts DEF IInv
  <2>2. CASE UNCHANGED queue
    BY <1>1, <2>2, Untouched
  <2>3. CASE \E p \in Proc : \E e \in inflight[p] : PushFails(p, e)
    BY <1>1, <2>3, EnqueueAccounts
  <2>4. CASE \E p \in Proc : ReplayAnswered(p)
    BY <1>1, <2>4, RemoveAccounts
  <2>5. ASSUME NEW p \in Proc, Boot(p)
        PROVE  Accounted(r, i)
    <3>1. queue' = [queue EXCEPT ![p] = Loaded] /\ queue[p] = EmptyQueue
      BY <1>1, <2>5 DEF IInv, DownInv, Boot, LoadQueue
    <3>2. p # r
      <4>1. Len(EmptyQueue.entries) = 0
        BY DEF EmptyQueue
      <4> QED
        BY <1>1, <3>1, <4>1
    <3> QED
      BY <1>1, <2>1, <3>1, <3>2, Untouched DEF OutboxTypeOK
  <2>6. ASSUME NEW p \in Proc, Crash(p)
        PROVE  Accounted(r, i)
    <3>1. /\ queue' = [queue EXCEPT ![p] = EmptyQueue]
          /\ running' = [running EXCEPT ![p] = FALSE]
      BY <2>6 DEF Crash, LoseQueue
    <3>2. p # r
      BY <1>1, <2>1, <3>1 DEF OwnTypes
    <3> QED
      BY <1>1, <2>1, <3>1, <3>2, Untouched DEF OutboxTypeOK
  <2>7. \/ UNCHANGED queue
        \/ \E p \in Proc : \E e \in inflight[p] : PushFails(p, e)
        \/ \E p \in Proc : ReplayAnswered(p) \/ Boot(p) \/ Crash(p)
    BY <1>1 DEF Next, Push, PushAgain, PushAnswered, Flush, FlushEnds, Save, Persist,
         Connects, ConnectFails, StreamCloses, BackendTurns, outboxVars
  <2> QED
    BY <2>2, <2>3, <2>4, <2>5, <2>6, <2>7
<1>2. ASSUME IInv, Next
      PROVE  \A p \in Proc : running'[p] =>
               \A i \in DOMAIN queue[p].entries :
                 LET e == queue[p].entries[i] IN
                 \/ e \in Entries(queue'[p]) \cup answered'
                 \/ e.key \in KeysOf(queue'[p])
                 \/ Len(queue'[p].entries) >= Cap /\ NewerStay(p, i)
  <2>1. \A p \in Proc : DOMAIN queue[p].entries = 1 .. Len(queue[p].entries)
    BY <1>2, HeldTypes, InEntries
  <2> QED
    BY <1>1, <1>2, <2>1 DEF Accounted
<1>3. IInv /\ [Next]_vars =>
        [\A p \in Proc : running'[p] =>
           \A i \in DOMAIN queue[p].entries :
             LET e == queue[p].entries[i] IN
             \/ e \in Entries(queue'[p]) \cup answered'
             \/ e.key \in KeysOf(queue'[p])
             \/ Len(queue'[p].entries) >= Cap /\ NewerStay(p, i)]_vars
  BY <1>2
<1> QED
  BY <1>3, Invariance, PTL DEF Spec, NothingLeavesUnanswered
=============================================================================
