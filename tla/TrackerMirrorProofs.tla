-------------------------- MODULE TrackerMirrorProofs --------------------------
(***************************************************************************)
(* Of the tracker's mirror, for any number of pushes and sweeps at a time, *)
(* of changes by people and of faults: the watermark passes no change that *)
(* was not asked for, and no push writes over the title it knows to be     *)
(* conceded.                                                               *)
(***************************************************************************)
EXTENDS TrackerMirror, TLAPS

-----------------------------------------------------------------------------
(* The inductive invariant.                                                 *)

\* Links, copies of the roadmap, entries, pushes and sweeps that know of n items.
Links(n) == {NoLink} \cup [item : 1 .. n, content : Content, version : Nat, stamp : Nat]
Copies(n) == [chunk : Chunk, link : Links(n)]
Entries(n) == [item : 0 .. n, content : Content]
Written(n) == [item : 1 .. n, content : Content, version : Nat]

Runs(n) ==
  {IdleRun}
  \cup [at : {"replay"}, copy : Copies(n), since : Nat, entry : Entries(n)]
  \cup [at : {"project"}, copy : Copies(n), since : Nat, entry : Entries(n) \cup {None}]
  \cup [at : {"send"}, copy : Copies(n), since : Nat, entry : Entries(n)]
  \cup [at : {"sent"}, copy : Copies(n), link : Written(n)]

Sweeps(n) ==
  {IdleSweep}
  \cup [at : {"fetch"}, copy : Copies(n) \cup {None}, start : Nat]
  \cup [at : {"record"}, copy : {None}, start : Nat, titles : {{}},
        asked : SUBSET (Nat \X Nat)]
  \cup [at : {"record"}, copy : Copies(n), start : Nat, titles : SUBSET Title,
        asked : SUBSET (Nat \X Nat)]
  \cup [at : {"propose"}, copy : Copies(n), titles : SUBSET Title]

\* Every link and every entry, wherever it is kept, is of an item there is; a sweep that
\* may propose has read the roadmap.
TypeInv ==
  /\ items \in Seq(Item)
  /\ mem \in Copies(Len(items)) /\ file \in Copies(Len(items))
  /\ run \in [Pusher -> Runs(Len(items))]
  /\ sweep \in [Sweeper -> Sweeps(Len(items))]
  /\ \A w \in Proposer : sweep[w].at = "fetch" => sweep[w].copy \in Copies(Len(items))
  /\ queue \in Entries(Len(items)) \cup {None}
  /\ mark \in Nat /\ now \in Nat /\ tick \in Nat /\ edits \in Nat /\ faults \in Nat

\* Nothing is stamped later than the tracker's clock, and no sweep is to move the
\* watermark past the stamp of the next change.
TimeInv ==
  /\ \A i \in DOMAIN items : items[i].at <= tick
  /\ mark <= tick + 1
  /\ \A p \in Pusher : run[p].at \in {"replay", "project", "send"} => run[p].since <= tick
  /\ \A w \in Sweeper : sweep[w].at \in {"fetch", "record"} => sweep[w].start <= tick + 1

\* What changed before a sweep began, and no completed sweep has asked for, it asked for
\* as it is.
Asks(s, its) ==
  s.at = "record" =>
    \A i \in DOMAIN its : its[i].at < s.start =>
      its[i].asked \/ <<i, its[i].version>> \in s.asked

SlipInv == EveryChangeIsAskedFor /\ \A w \in Sweeper : Asks(sweep[w], items)

\* A push sends the title its copy concedes, if that is the item's and nobody has
\* touched the item since the push began.
Concedes(r, its) ==
  LET item == r.entry.item IN
  /\ item # 0 /\ its[item].at <= r.since
  /\ Concession(r.copy) = its[item].content.title
  => r.entry.content.title = its[item].content.title

ConcedeInv == \A p \in Pusher : run[p].at = "send" => Concedes(run[p], items)

IInv == TypeInv /\ TimeInv /\ SlipInv /\ ConcedeInv

-----------------------------------------------------------------------------
(* What the model's operators return.                                       *)

LEMMA Wider ==
  ASSUME NEW m \in Nat, NEW n \in Nat, m <= n
  PROVE  /\ Links(m) \subseteq Links(n) /\ Copies(m) \subseteq Copies(n)
         /\ Entries(m) \subseteq Entries(n) /\ Written(m) \subseteq Written(n)
         /\ Runs(m) \subseteq Runs(n) /\ Sweeps(m) \subseteq Sweeps(n)
<1>1. 1 .. m \subseteq 1 .. n /\ 0 .. m \subseteq 0 .. n
  OBVIOUS
<1>2. Links(m) \subseteq Links(n)
  BY <1>1 DEF Links
<1>3. Copies(m) \subseteq Copies(n)
  BY <1>2 DEF Copies
<1>4. Entries(m) \subseteq Entries(n)
  BY <1>1 DEF Entries
<1>5. Written(m) \subseteq Written(n)
  BY <1>1 DEF Written
<1>6. Runs(m) \subseteq Runs(n)
  <2>1. \A r \in Runs(m) : r \in Runs(n)
    BY <1>3, <1>4, <1>5, Zenon DEF Runs
  <2> QED
    BY <2>1
<1>7. Sweeps(m) \subseteq Sweeps(n)
  <2>1. \A s \in Sweeps(m) : s \in Sweeps(n)
    BY <1>3, Zenon DEF Sweeps
  <2> QED
    BY <2>1
<1> QED
  BY <1>2, <1>3, <1>4, <1>5, <1>6, <1>7

LEMMA ChunkParts ==
  ASSUME NEW c \in Chunk
  PROVE  /\ c.content \in Content /\ c.content.title \in Title /\ c.content.body \in Nat
         /\ c.proposal \in Proposal \cup {None} /\ c.stamp \in Nat
BY DEF Chunk, Content

LEMMA CopyParts ==
  ASSUME NEW n \in Nat, NEW c \in Copies(n)
  PROVE  c.chunk \in Chunk /\ c.link \in Links(n) /\ c.link.stamp \in Nat
         /\ c.link.item \in 0 .. n /\ (Linked(c) => c.link.item \in 1 .. n)
<1>1. c.chunk \in Chunk /\ c.link \in Links(n)
  BY DEF Copies
<1>2. \A l \in Links(n) : l.stamp \in Nat /\ l.item \in 0 .. n
                          /\ (l # NoLink => l.item \in 1 .. n)
  BY DEF Links, NoLink
<1> QED
  BY <1>1, <1>2 DEF Linked

\* Saving brings nothing new to the file.
LEMMA MergedCopy ==
  ASSUME NEW n \in Nat, NEW c \in Copies(n), NEW d \in Copies(n)
  PROVE  Merge(c, d) \in Copies(n)
<1>1. /\ Newer(c.chunk, d.chunk) \in Chunk
      /\ Newer(c.link, d.link) \in Links(n)
  BY CopyParts DEF Newer
<1> QED
  BY <1>1 DEF Merge, Copies

LEMMA StampedChunk ==
  ASSUME NEW c \in Chunk, NEW s \in Nat
  PROVE  [c EXCEPT !.stamp = s] \in Chunk
BY DEF Chunk

LEMMA ProposedCopy ==
  ASSUME NEW n \in Nat, NEW c \in Copies(n), NEW t \in Title, NEW from \in {"push", "sweep"},
         now \in Nat
  PROVE  /\ Proposed(c, t, from) \in Copies(n)
         /\ Proposed(c, t, from).chunk.proposal # None =>
              Proposed(c, t, from).chunk.proposal.title = t
<1> DEFINE new == [title |-> t, over |-> c.chunk.content.title, from |-> from]
           first == [c.chunk EXCEPT !.proposal = new]
           second == [first EXCEPT !.stamp = now + 1]
<1>1. c.chunk \in Chunk /\ c.link \in Links(n) /\ c = [chunk |-> c.chunk, link |-> c.link]
  BY DEF Copies
<1>2. new \in Proposal /\ new.title = t
  BY <1>1, ChunkParts DEF Proposal
<1> HIDE DEF new
<1>3. first \in Chunk /\ first.proposal = new
  BY <1>1, <1>2 DEF Chunk
<1>4. second \in Chunk /\ second.proposal = new
  <2> HIDE DEF first
  <2>1. now + 1 \in Nat
    OBVIOUS
  <2>2. second \in Chunk
    BY <1>3, <2>1, StampedChunk
  <2>3. second.proposal = first.proposal
    BY <1>3 DEF Chunk
  <2> QED
    BY <1>3, <2>2, <2>3
<1>5. [c EXCEPT !.chunk.proposal = new, !.chunk.stamp = now + 1] = [c EXCEPT !.chunk = second]
  BY <1>1 DEF Copies, Chunk
<1> HIDE DEF second, first
<1>6. [c EXCEPT !.chunk = second] \in Copies(n)
      /\ [c EXCEPT !.chunk = second].chunk = second
  BY <1>1, <1>4 DEF Copies
<1>7. \/ Proposed(c, t, from) = c /\ c.chunk.proposal = new
      \/ Proposed(c, t, from) = [c EXCEPT !.chunk = second]
  BY <1>5 DEF Proposed, new
<1> QED
  BY <1>2, <1>4, <1>6, <1>7

-----------------------------------------------------------------------------
(* Changes of the tracker.                                                  *)

\* What happens to the items in a step: each is as it was, or changed now.
Moves ==
  /\ items' \in Seq(Item) /\ Len(items) <= Len(items')
  /\ \/ tick' = tick /\ items' = items
     \/ /\ tick' = tick + 1
        /\ \A i \in DOMAIN items' :
             (i \in DOMAIN items /\ items'[i] = items[i]) \/ items'[i].at = tick'

LEMMA UpsertMoves ==
  ASSUME NEW entry \in Entries(Len(items)), items \in Seq(Item), tick \in Nat,
         items' = Upserted(entry), Ticked
  PROVE  /\ Moves
         /\ Len(items') = IF entry.item = 0 THEN Len(items) + 1 ELSE Len(items)
         /\ \A i \in DOMAIN items : i # entry.item => items'[i] = items[i]
         /\ entry.item # 0 => items'[entry.item].content = entry.content
<1>1. entry.item \in 0 .. Len(items) /\ entry.content \in Content
  BY DEF Entries
<1>2. tick' = tick + 1 /\ tick + 1 \in Nat
  BY DEF Ticked
<1>3. CASE entry.item = 0
  <2> DEFINE new == [content |-> entry.content, version |-> 1, at |-> tick + 1, asked |-> FALSE]
  <2>1. new \in Item /\ new.at = tick + 1
    BY <1>1, <1>2 DEF Item
  <2>2. items' = Append(items, new)
    BY <1>3 DEF Upserted
  <2> HIDE DEF new
  <2>3. /\ items' \in Seq(Item) /\ Len(items') = Len(items) + 1
        /\ \A i \in 1 .. Len(items) : items'[i] = items[i]
        /\ items'[Len(items) + 1] = new
    BY <2>1, <2>2
  <2>4. DOMAIN items = 1 .. Len(items) /\ DOMAIN items' = 1 .. (Len(items) + 1)
    BY <2>3
  <2> QED
    BY <1>2, <1>3, <2>1, <2>3, <2>4 DEF Moves
<1>4. CASE entry.item # 0
  <2> DEFINE k == entry.item
             new == [content |-> entry.content, version |-> items[k].version + 1,
                     at |-> tick + 1, asked |-> FALSE]
  <2>1. k \in 1 .. Len(items) /\ items[k] \in Item
    BY <1>1, <1>4
  <2>2. new \in Item /\ new.at = tick + 1 /\ new.content = entry.content
    BY <1>1, <1>2, <2>1 DEF Item
  <2>3. items' = [items EXCEPT ![k] = new]
    BY <1>4 DEF Upserted
  <2> HIDE DEF new
  <2>4. /\ items' \in Seq(Item) /\ Len(items') = Len(items)
        /\ \A i \in 1 .. Len(items) : i # k => items'[i] = items[i]
        /\ items'[k] = new
    BY <2>1, <2>2, <2>3
  <2>5. DOMAIN items = 1 .. Len(items) /\ DOMAIN items' = 1 .. Len(items)
    BY <2>4
  <2> QED
    BY <1>2, <1>4, <2>1, <2>2, <2>4, <2>5 DEF Moves
<1> QED
  BY <1>3, <1>4

LEMMA TouchMoves ==
  ASSUME items \in Seq(Item), tick \in Nat, NEW i \in DOMAIN items, NEW item \in Item,
         Touched(i, item)
  PROVE  Moves /\ Len(items') = Len(items)
<1> DEFINE new == [item EXCEPT !.version = @ + 1, !.at = tick + 1, !.asked = FALSE]
<1>1. tick' = tick + 1 /\ tick + 1 \in Nat
  BY DEF Touched, Ticked
<1>2. new \in Item /\ new.at = tick + 1
  <2> DEFINE a == [item EXCEPT !.version = item.version + 1]
             b == [a EXCEPT !.at = tick + 1]
             c == [b EXCEPT !.asked = FALSE]
  <2>1. new = c
    OBVIOUS
  <2>2. a \in Item
    <3>1. item.version \in Nat
      BY DEF Item
    <3>2. item.version + 1 \in Nat
      BY <3>1
    <3> DEFINE v == item.version + 1
    <3> HIDE DEF v
    <3>3. [item EXCEPT !.version = v] \in Item
      BY <3>2 DEF Item, v
    <3> QED
      BY <3>3 DEF v
  <2> HIDE DEF a
  <2>3. b \in Item /\ b.at = tick + 1
    BY <1>1, <2>2 DEF Item
  <2> HIDE DEF b
  <2>4. c \in Item /\ c.at = tick + 1
    BY <2>3 DEF Item
  <2> HIDE DEF c, new
  <2> QED
    BY <2>1, <2>4
<1>3. items' = [items EXCEPT ![i] = new]
  BY DEF Touched
<1> HIDE DEF new
<1>4. /\ items' \in Seq(Item) /\ Len(items') = Len(items)
      /\ \A j \in DOMAIN items : j # i => items'[j] = items[j]
      /\ items'[i] = new /\ DOMAIN items' = DOMAIN items
  BY <1>2, <1>3
<1> QED
  BY <1>1, <1>2, <1>4 DEF Moves

LEMMA NothingMoves ==
  ASSUME items \in Seq(Item), items' = items, tick' = tick
  PROVE  Moves /\ Len(items') = Len(items)
BY DEF Moves

-----------------------------------------------------------------------------
(* What every step but a sweep's own keeps.                                 *)

\* What a push is at next: no more than it was, or something begun, or a send that
\* concedes.
Proceeds(p) ==
  \/ run'[p] = run[p]
  \/ run'[p].at \in {"idle", "sent"}
  \/ run'[p].at \in {"replay", "project"} /\ run'[p].since \in 0 .. tick
  \/ /\ run'[p].at = "send" /\ run'[p].since \in 0 .. tick
     /\ run'[p].entry.item \in 0 .. Len(items) /\ Concedes(run'[p], items)

\* What a sweep is at next: what it was, or past its record.
Rests(w) == sweep'[w] = sweep[w] \/ sweep'[w].at \in {"idle", "propose"}

\* What is known of a send, of its types.
LEMMA SendParts ==
  ASSUME NEW n \in Nat, NEW r \in Runs(n), r.at = "send"
  PROVE  r.entry \in Entries(n) /\ r.entry.item \in 0 .. n /\ r.since \in Nat
         /\ r.copy \in Copies(n)
BY DEF Runs, Entries, IdleRun

LEMMA Started ==
  ASSUME NEW n \in Nat
  PROVE  /\ \A r \in Runs(n) : r.at \in {"replay", "project", "send"} => r.since \in Nat
         /\ \A s \in Sweeps(n) : s.at \in {"fetch", "record"} => s.start \in Nat
<1>1. \A r \in Runs(n) : r.at \in {"replay", "project", "send"} => r.since \in Nat
  BY DEF Runs, IdleRun
<1>2. \A s \in Sweeps(n) : s.at \in {"fetch", "record"} => s.start \in Nat
  BY DEF Sweeps, IdleSweep
<1> QED
  BY <1>1, <1>2

LEMMA BesideSweeps ==
  ASSUME IInv, Moves, mark' = mark,
         \A w \in Sweeper : Rests(w), \A p \in Pusher : Proceeds(p)
  PROVE  TimeInv' /\ SlipInv' /\ ConcedeInv'
<1>1. /\ items \in Seq(Item) /\ items' \in Seq(Item)
      /\ tick \in Nat /\ tick' \in Nat /\ tick <= tick' /\ mark \in Nat
      /\ run \in [Pusher -> Runs(Len(items))] /\ sweep \in [Sweeper -> Sweeps(Len(items))]
  BY DEF IInv, TypeInv, Moves
<1>2. /\ DOMAIN items = 1 .. Len(items) /\ DOMAIN items' = 1 .. Len(items')
      /\ Len(items) \in Nat /\ Len(items') \in Nat
      /\ \A i \in DOMAIN items : items[i].at \in Nat
      /\ \A i \in DOMAIN items' : items'[i].at \in Nat
  <2>1. \A x \in Item : x.at \in Nat
    BY DEF Item
  <2>2. /\ DOMAIN items = 1 .. Len(items) /\ DOMAIN items' = 1 .. Len(items')
        /\ Len(items) \in Nat /\ Len(items') \in Nat
        /\ \A i \in DOMAIN items : items[i] \in Item
        /\ \A i \in DOMAIN items' : items'[i] \in Item
    BY <1>1
  <2> QED
    BY <2>1, <2>2
<1>3. \A i \in DOMAIN items' :
        (i \in DOMAIN items /\ items'[i] = items[i])
          \/ (items'[i].at = tick' /\ tick' = tick + 1)
  BY DEF Moves
<1>4. TimeInv'
  <2>1. \A i \in DOMAIN items' : items'[i].at <= tick'
    <3>1. \A i \in DOMAIN items : items[i].at <= tick
      BY DEF IInv, TimeInv
    <3> QED
      BY <1>1, <1>2, <1>3, <3>1
  <2>2. mark' <= tick' + 1
    BY <1>1 DEF IInv, TimeInv
  <2>3. ASSUME NEW p \in Pusher, run'[p].at \in {"replay", "project", "send"}
        PROVE  run'[p].since <= tick'
    <3>1. run'[p] = run[p] => run'[p].since \in 0 .. tick
      BY <1>1, <1>2, <2>3, Started DEF IInv, TimeInv
    <3>2. run'[p].since \in 0 .. tick
      BY <2>3, <3>1 DEF Proceeds
    <3> QED
      BY <1>1, <3>2
  <2>4. ASSUME NEW w \in Sweeper, sweep'[w].at \in {"fetch", "record"}
        PROVE  sweep'[w].start <= tick' + 1
    <3>1. sweep'[w] = sweep[w]
      BY <2>4 DEF Rests
    <3>2. sweep[w].start \in 0 .. tick + 1
      BY <1>1, <1>2, <2>4, <3>1, Started DEF IInv, TimeInv
    <3> QED
      BY <1>1, <3>1, <3>2
  <2> QED
    BY <2>1, <2>2, <2>3, <2>4 DEF TimeInv
<1>5. SlipInv'
  <2>1. EveryChangeIsAskedFor'
    <3>1. ASSUME NEW i \in DOMAIN items'
          PROVE  items'[i].at >= mark' \/ items'[i].asked
      <4>1. CASE i \in DOMAIN items /\ items'[i] = items[i]
        BY <4>1 DEF IInv, SlipInv, EveryChangeIsAskedFor
      <4>2. CASE items'[i].at = tick' /\ tick' = tick + 1
        BY <1>1, <4>2 DEF IInv, TimeInv
      <4> QED
        BY <1>3, <4>1, <4>2
    <3> QED
      BY <3>1 DEF EveryChangeIsAskedFor
  <2>2. ASSUME NEW w \in Sweeper, sweep'[w].at = "record",
               NEW i \in DOMAIN items', items'[i].at < sweep'[w].start
        PROVE  items'[i].asked \/ <<i, items'[i].version>> \in sweep'[w].asked
    <3>1. sweep'[w] = sweep[w]
      BY <2>2 DEF Rests
    <3>2. sweep[w].start \in 0 .. tick + 1
      BY <1>1, <1>2, <2>2, <3>1, Started DEF IInv, TimeInv
    <3>3. i \in DOMAIN items /\ items'[i] = items[i]
      BY <1>1, <1>3, <2>2, <3>1, <3>2
    <3>4. Asks(sweep[w], items)
      BY DEF IInv, SlipInv
    <3> QED
      BY <2>2, <3>1, <3>3, <3>4 DEF Asks
  <2> QED
    BY <2>1, <2>2 DEF SlipInv, Asks
<1>6. ConcedeInv'
  <2>1. ASSUME NEW p \in Pusher, run'[p].at = "send"
        PROVE  Concedes(run'[p], items')
    <3> DEFINE r == run'[p]  k == r.entry.item
    <3>1. run'[p] = run[p] => /\ Concedes(r, items) /\ k \in 0 .. Len(items)
                              /\ r.since \in 0 .. tick
      BY <1>1, <1>2, <2>1, SendParts DEF IInv, ConcedeInv, TimeInv
    <3>2. Concedes(r, items) /\ k \in 0 .. Len(items) /\ r.since \in 0 .. tick
      BY <2>1, <3>1 DEF Proceeds
    <3>3. CASE k = 0 \/ items'[k] = items[k]
      BY <3>2, <3>3 DEF Concedes
    <3>4. CASE k # 0 /\ items'[k] # items[k]
      <4>1. k \in DOMAIN items' /\ items'[k].at = tick + 1
        BY <1>1, <1>2, <1>3, <3>2, <3>4 DEF Moves
      <4>2. ~(items'[k].at <= r.since)
        BY <1>1, <3>2, <4>1
      <4> QED
        BY <4>2 DEF Concedes
    <3> QED
      BY <3>3, <3>4
  <2> QED
    BY <2>1 DEF ConcedeInv
<1> QED
  BY <1>4, <1>5, <1>6

-----------------------------------------------------------------------------
(* The server and the people.                                               *)

\* What grows with the items when they are touched or created.
LEMMA TypesGrow ==
  ASSUME TypeInv, items' \in Seq(Item), Len(items) <= Len(items')
  PROVE  /\ mem \in Copies(Len(items')) /\ file \in Copies(Len(items'))
         /\ run \in [Pusher -> Runs(Len(items'))]
         /\ sweep \in [Sweeper -> Sweeps(Len(items'))]
         /\ \A w \in Proposer : sweep[w].at = "fetch" => sweep[w].copy \in Copies(Len(items'))
         /\ queue \in Entries(Len(items')) \cup {None}
<1>1. Len(items) \in Nat /\ Len(items') \in Nat
  BY DEF TypeInv
<1>2. /\ Copies(Len(items)) \subseteq Copies(Len(items'))
      /\ Runs(Len(items)) \subseteq Runs(Len(items'))
      /\ Sweeps(Len(items)) \subseteq Sweeps(Len(items'))
      /\ Entries(Len(items)) \subseteq Entries(Len(items'))
  BY <1>1, Wider
<1> QED
  BY <1>2 DEF TypeInv

LEMMA EditKeeps ==
  ASSUME IInv, NEW c \in Chunk, Edit(c)
  PROVE  IInv'
<1> DEFINE new == [c EXCEPT !.stamp = now + 1]
<1>1. /\ items' = items /\ run' = run /\ sweep' = sweep /\ queue' = queue /\ mark' = mark
      /\ tick' = tick /\ faults' = faults /\ edits' = edits + 1 /\ now' = now + 1
      /\ mem' = [mem EXCEPT !.chunk = new] /\ file' = Merge(mem', file)
  BY DEF Edit, Stamped, Save
<1>2. /\ items \in Seq(Item) /\ Len(items) \in Nat /\ now \in Nat /\ edits \in Nat
      /\ now + 1 \in Nat /\ edits + 1 \in Nat
  BY DEF IInv, TypeInv
<1>3. new \in Chunk
  BY <1>2, StampedChunk
<1> HIDE DEF new
<1>4. mem' \in Copies(Len(items))
  BY <1>1, <1>3 DEF IInv, TypeInv, Copies
<1>5. file' \in Copies(Len(items))
  BY <1>1, <1>2, <1>4, MergedCopy DEF IInv, TypeInv
<1>6. TypeInv'
  BY <1>1, <1>2, <1>4, <1>5 DEF IInv, TypeInv
<1>7. Moves
  BY <1>1, <1>2, NothingMoves
<1>8. TimeInv' /\ SlipInv' /\ ConcedeInv'
  BY <1>1, <1>7, BesideSweeps DEF Proceeds, Rests
<1> QED
  BY <1>6, <1>8 DEF IInv

LEMMA ServerKeeps ==
  ASSUME IInv, ServerNext
  PROVE  IInv'
<1>1. mem \in Copies(Len(items)) /\ mem.chunk \in Chunk /\ items \in Seq(Item)
      /\ Len(items) \in Nat
  BY CopyParts DEF IInv, TypeInv
<1>2. ASSUME NEW t \in Title, Retitle(t)
      PROVE  IInv'
  <2> DEFINE titled == [mem.chunk EXCEPT !.content.title = t]
             new == [titled EXCEPT !.proposal = None]
  <2>1. titled \in Chunk
    BY <1>1 DEF Chunk, Content
  <2>2. [mem.chunk EXCEPT !.content.title = t, !.proposal = None] = new
    OBVIOUS
  <2> HIDE DEF titled
  <2>3. new \in Chunk
    BY <2>1 DEF Chunk
  <2> HIDE DEF new
  <2> QED
    BY <1>2, <2>2, <2>3, EditKeeps DEF Retitle
<1>3. ASSUME Rewrite
      PROVE  IInv'
  <2>1. [mem.chunk EXCEPT !.content.body = @ + 1] \in Chunk
    <3> DEFINE b == mem.chunk.content.body + 1
    <3>1. b \in Nat
      BY <1>1, ChunkParts
    <3> HIDE DEF b
    <3>2. [mem.chunk EXCEPT !.content.body = b] \in Chunk
      BY <1>1, <3>1 DEF Chunk, Content
    <3> QED
      BY <3>2 DEF b
  <2> QED
    BY <1>3, <2>1, EditKeeps DEF Rewrite
<1>4. ASSUME NEW accept \in BOOLEAN, Resolve(accept)
      PROVE  IInv'
  <2> DEFINE t == IF accept THEN mem.chunk.proposal.title ELSE mem.chunk.content.title
             settled == [mem.chunk EXCEPT !.proposal = None]
             new == [settled EXCEPT !.content.title = t]
  <2>1. t \in Title
    BY <1>1, <1>4, ChunkParts DEF Resolve, Proposal
  <2>2. [mem.chunk EXCEPT !.proposal = None,
                          !.content.title = IF accept THEN mem.chunk.proposal.title ELSE @] = new
    OBVIOUS
  <2>3. settled \in Chunk
    BY <1>1 DEF Chunk
  <2> HIDE DEF settled, t
  <2>4. new \in Chunk
    BY <2>1, <2>3 DEF Chunk, Content
  <2> HIDE DEF new
  <2> QED
    BY <1>4, <2>2, <2>4, EditKeeps DEF Resolve
<1>5. ASSUME Restart
      PROVE  IInv'
  <2>1. TypeInv'
    BY <1>5 DEF Restart, IInv, TypeInv
  <2>2. Moves
    BY <1>1, <1>5, NothingMoves DEF Restart, IInv, TypeInv
  <2>3. TimeInv' /\ SlipInv' /\ ConcedeInv'
    BY <1>5, <2>2, BesideSweeps DEF Restart, Proceeds, Rests
  <2> QED
    BY <2>1, <2>3 DEF IInv
<1> QED
  BY <1>2, <1>3, <1>4, <1>5 DEF ServerNext

LEMMA HumanKeeps ==
  ASSUME IInv, HumanNext
  PROVE  IInv'
<1>1. items \in Seq(Item) /\ tick \in Nat /\ edits \in Nat
  BY DEF IInv, TypeInv
<1>2. ASSUME NEW i \in DOMAIN items, NEW item \in Item, Touched(i, item)
      PROVE  IInv'
  <2>1. Moves /\ Len(items') = Len(items)
    BY <1>1, <1>2, TouchMoves
  <2>2. tick' = tick + 1 /\ tick + 1 \in Nat /\ edits' = edits + 1 /\ edits + 1 \in Nat
    BY <1>1, <1>2 DEF Touched, Ticked
  <2>3. UNCHANGED <<mem, file, run, sweep, queue, mark, now, faults>>
    BY <1>2 DEF Touched
  <2>4. TypeInv'
    BY <2>1, <2>2, <2>3 DEF IInv, TypeInv, Moves
  <2>5. TimeInv' /\ SlipInv' /\ ConcedeInv'
    BY <2>1, <2>3, BesideSweeps DEF Proceeds, Rests
  <2> QED
    BY <2>4, <2>5 DEF IInv
<1>3. ASSUME NEW i \in DOMAIN items, NEW t \in Title, HumanRetitles(i, t)
      PROVE  IInv'
  <2>1. [items[i] EXCEPT !.content.title = t] \in Item
    <3>1. items[i] \in Item
      BY <1>1
    <3> QED
      BY <3>1 DEF Item, Content
  <2> QED
    BY <1>2, <1>3, <2>1 DEF HumanRetitles
<1>4. ASSUME NEW i \in DOMAIN items, HumanComments(i)
      PROVE  IInv'
  <2>1. items[i] \in Item
    BY <1>1
  <2> QED
    BY <1>2, <1>4, <2>1 DEF HumanComments
<1> QED
  BY <1>3, <1>4 DEF HumanNext

-----------------------------------------------------------------------------
(* A push.                                                                  *)

LEMMA ReplayParts ==
  ASSUME NEW n \in Nat, NEW r \in Runs(n), r.at = "replay"
  PROVE  r.copy \in Copies(n) /\ r.since \in Nat /\ r.entry \in Entries(n)
         /\ [r EXCEPT !.at = "project"] \in Runs(n)
<1>1. r \in [at : {"replay"}, copy : Copies(n), since : Nat, entry : Entries(n)]
  BY DEF Runs, IdleRun
<1>2. [r EXCEPT !.at = "project"] \in
        [at : {"project"}, copy : Copies(n), since : Nat, entry : Entries(n) \cup {None}]
  BY <1>1
<1> QED
  BY <1>1, <1>2 DEF Runs

LEMMA ProjectParts ==
  ASSUME NEW n \in Nat, NEW r \in Runs(n), r.at = "project"
  PROVE  r.copy \in Copies(n) /\ r.since \in Nat
BY DEF Runs, IdleRun

LEMMA SentParts ==
  ASSUME NEW n \in Nat, NEW r \in Runs(n), r.at = "sent"
  PROVE  r.copy \in Copies(n) /\ r.link \in Written(n)
BY DEF Runs, IdleRun

LEMMA IdleIsRun == ASSUME NEW n PROVE IdleRun \in Runs(n) /\ IdleRun.at = "idle"
BY DEF Runs, IdleRun

\* A step of a push changes the push, and of the rest only what it says.
LEMMA PushStep ==
  ASSUME IInv, NEW p \in Pusher, NEW r, To(p, r), Moves,
         r \in Runs(Len(items')), file' \in Copies(Len(items')),
         queue' \in Entries(Len(items')) \cup {None},
         UNCHANGED <<mem, sweep, mark, edits>>, faults' = faults \/ faults' = faults + 1,
         now' = now \/ now' = now + 1,
         \/ r.at \in {"idle", "sent"}
         \/ r.at = "project" /\ run[p].at = "replay" /\ r.since = run[p].since
         \/ r.at \in {"replay", "project"} /\ r.since = tick
         \/ r.at = "send" /\ run[p].at = "project" /\ r.since = run[p].since
            /\ r.entry.item \in 0 .. Len(items) /\ Concedes(r, items)
  PROVE  IInv'
<1>1. /\ items \in Seq(Item) /\ Len(items) \in Nat
      /\ tick \in Nat /\ now \in Nat /\ faults \in Nat
      /\ run \in [Pusher -> Runs(Len(items))]
  BY DEF IInv, TypeInv
<1>2. /\ items' \in Seq(Item) /\ Len(items) <= Len(items')
      /\ tick' \in Nat /\ tick <= tick'
  BY <1>1 DEF Moves
<1>3. TypeInv'
  <2>1. /\ mem \in Copies(Len(items')) /\ run \in [Pusher -> Runs(Len(items'))]
        /\ sweep \in [Sweeper -> Sweeps(Len(items'))]
        /\ \A w \in Proposer : sweep[w].at = "fetch" => sweep[w].copy \in Copies(Len(items'))
    BY <1>2, TypesGrow DEF IInv
  <2>2. run' \in [Pusher -> Runs(Len(items'))]
    BY <2>1 DEF To
  <2>3. faults' \in Nat /\ now' \in Nat
    BY <1>1
  <2> QED
    BY <1>2, <2>1, <2>2, <2>3 DEF IInv, TypeInv
<1>4. \A q \in Pusher : run'[q] = IF q = p THEN r ELSE run[q]
  BY <1>1 DEF To
<1>5. run[p].at \in {"replay", "project"} => run[p].since \in 0 .. tick
  BY <1>1, Started DEF IInv, TimeInv
<1>6. \A q \in Pusher : Proceeds(q)
  BY <1>1, <1>4, <1>5 DEF Proceeds
<1>7. TimeInv' /\ SlipInv' /\ ConcedeInv'
  BY <1>6, BesideSweeps DEF Rests
<1> QED
  BY <1>3, <1>7 DEF IInv

LEMMA StartPushKeeps ==
  ASSUME IInv, NEW p \in Pusher, StartPush(p)
  PROVE  IInv'
<1> DEFINE r == [at |-> IF queue = None THEN "project" ELSE "replay", copy |-> file,
                 since |-> tick, entry |-> queue]
<1>1. To(p, r) /\ UNCHANGED <<mem, file, sweep, items, queue, mark, now, tick, edits, faults>>
  BY DEF StartPush
<1>2. /\ items \in Seq(Item) /\ tick \in Nat /\ file \in Copies(Len(items))
      /\ queue \in Entries(Len(items)) \cup {None}
  BY DEF IInv, TypeInv
<1>3. r \in Runs(Len(items)) /\ r.at \in {"replay", "project"} /\ r.since = tick
  <2>1. CASE queue = None
    BY <1>2, <2>1 DEF Runs
  <2>2. CASE queue # None
    BY <1>2, <2>2 DEF Runs
  <2> QED
    BY <2>1, <2>2
<1> HIDE DEF r
<1>4. Moves
  BY <1>1, <1>2, NothingMoves
<1> QED
  BY <1>1, <1>2, <1>3, <1>4, PushStep

LEMMA ReplayKeeps ==
  ASSUME IInv, NEW p \in Pusher, Replay(p) \/ ReplayFails(p) \/ ReplayRejected(p)
  PROVE  IInv'
<1> DEFINE r == [run[p] EXCEPT !.at = "project"]
<1>1. /\ run[p].at = "replay" /\ To(p, r)
      /\ UNCHANGED <<mem, file, sweep, mark, edits>>
      /\ faults' = faults \/ faults' = faults + 1
      /\ now' = now /\ (queue' = queue \/ queue' = None)
      /\ \/ items' = Upserted(run[p].entry) /\ Ticked
         \/ items' = items /\ tick' = tick
  BY DEF Replay, ReplayFails, ReplayRejected, Fault
<1>2. /\ items \in Seq(Item) /\ tick \in Nat /\ Len(items) \in Nat
      /\ run[p] \in Runs(Len(items)) /\ queue \in Entries(Len(items)) \cup {None}
  BY DEF IInv, TypeInv
<1>3. r.at = "project" /\ r.since = run[p].since /\ r \in Runs(Len(items))
      /\ run[p].entry \in Entries(Len(items))
  <2>1. run[p] \in [at : {"replay"}, copy : Copies(Len(items)), since : Nat,
                    entry : Entries(Len(items))]
    BY <1>1, <1>2 DEF Runs, IdleRun
  <2>2. r.at = "project" /\ r.since = run[p].since
    BY <2>1
  <2>3. r \in Runs(Len(items)) /\ run[p].entry \in Entries(Len(items))
    BY <1>1, <1>2, ReplayParts
  <2> QED
    BY <2>2, <2>3
<1> HIDE DEF r
<1>4. Moves
  BY <1>1, <1>2, <1>3, UpsertMoves, NothingMoves
<1>5. /\ items' \in Seq(Item) /\ Len(items) <= Len(items')
      /\ file' \in Copies(Len(items')) /\ queue' \in Entries(Len(items')) \cup {None}
      /\ r \in Runs(Len(items'))
  <2>1. items' \in Seq(Item) /\ Len(items) <= Len(items') /\ Len(items') \in Nat
    BY <1>4 DEF Moves
  <2>2. file \in Copies(Len(items')) /\ queue \in Entries(Len(items')) \cup {None}
    BY <2>1, TypesGrow DEF IInv
  <2>3. r \in Runs(Len(items'))
    BY <1>2, <1>3, <2>1, Wider
  <2> QED
    BY <1>1, <2>1, <2>2, <2>3
<1> QED
  BY <1>1, <1>3, <1>4, <1>5, PushStep

\* A push that ends leaves the items alone.
LEMMA EndKeeps ==
  ASSUME IInv, NEW p \in Pusher,
         Skip(p) \/ SendRejected(p) \/ PushDies(p)
  PROVE  IInv'
<1>1. /\ To(p, IdleRun)
      /\ UNCHANGED <<mem, file, sweep, items, queue, mark, now, tick, edits>>
      /\ faults' = faults \/ faults' = faults + 1
  BY DEF Skip, SendRejected, PushDies, Fault, Done
<1>2. /\ items \in Seq(Item) /\ now \in Nat /\ file \in Copies(Len(items))
      /\ queue \in Entries(Len(items)) \cup {None}
  BY DEF IInv, TypeInv
<1>3. Moves
  BY <1>1, <1>2, NothingMoves
<1>4. IdleRun \in Runs(Len(items)) /\ IdleRun.at = "idle"
  BY IdleIsRun
<1> HIDE DEF IdleRun
<1> QED
  BY <1>1, <1>2, <1>3, <1>4, PushStep

LEMMA SendFailsKeeps ==
  ASSUME IInv, NEW p \in Pusher, SendFails(p)
  PROVE  IInv'
<1>1. /\ run[p].at = "send" /\ To(p, IdleRun)
      /\ UNCHANGED <<mem, file, sweep, mark, now, edits>>
      /\ faults' = faults + 1 /\ queue' = run[p].entry
      /\ \/ items' = Upserted(run[p].entry) /\ Ticked
         \/ items' = items /\ tick' = tick
  BY DEF SendFails, Fault, Done
<1>2. /\ items \in Seq(Item) /\ tick \in Nat /\ Len(items) \in Nat /\ run[p] \in Runs(Len(items))
  BY DEF IInv, TypeInv
<1>3. run[p].entry \in Entries(Len(items))
  BY <1>1, <1>2, SendParts
<1>4. Moves
  BY <1>1, <1>2, <1>3, UpsertMoves, NothingMoves
<1>5. items' \in Seq(Item) /\ Len(items) <= Len(items') /\ Len(items') \in Nat
  BY <1>4 DEF Moves
<1>6. file' \in Copies(Len(items')) /\ queue' \in Entries(Len(items'))
  BY <1>1, <1>2, <1>3, <1>5, Wider, TypesGrow DEF IInv
<1>7. IdleRun \in Runs(Len(items')) /\ IdleRun.at = "idle"
  BY IdleIsRun
<1> HIDE DEF IdleRun
<1> QED
  BY <1>1, <1>4, <1>6, <1>7, PushStep

\* The policy sends a title of somebody's; if it is told by the item or by its copy
\* that somebody chose one, that one.
LEMMA ReconciledTitles ==
  ASSUME NEW n \in Nat, NEW c \in Copies(n), NEW seen,
         seen # None => seen.content \in Content
  PROVE  /\ Reconciled(c, seen) \in Content
         /\ Reconciled(c, seen).title = ReconciledTitle(c, seen)
         /\ seen # None /\ seen.version # c.link.version =>
              ReconciledTitle(c, seen) = seen.content.title
         /\ ~ (seen # None /\ seen.version # c.link.version) /\ Concession(c) # None =>
              ReconciledTitle(c, seen) = Concession(c)
<1>1. /\ c.chunk.content \in Content /\ c.chunk.content.title \in Title
      /\ c.chunk.proposal \in Proposal \cup {None}
  BY CopyParts, ChunkParts
<1>2. Concession(c) \in Title \cup {None}
  BY <1>1 DEF Concession, Proposal
<1>3. ReconciledTitle(c, seen) \in Title
  BY <1>1, <1>2 DEF ReconciledTitle, Content
<1>4. /\ Reconciled(c, seen) \in Content
      /\ Reconciled(c, seen).title = ReconciledTitle(c, seen)
  BY <1>1, <1>3 DEF Reconciled, Content
<1> QED
  BY <1>4 DEF ReconciledTitle

LEMMA DecideKeeps ==
  ASSUME IInv, NEW p \in Pusher, NEW seen, run[p].at = "project",
         seen # None => Linked(run[p].copy) /\ seen = items[run[p].copy.link.item],
         Decide(p, seen),
         UNCHANGED <<mem, sweep, items, queue, mark, tick, edits>>,
         faults' = faults \/ faults' = faults + 1
  PROVE  IInv'
<1> DEFINE c == run[p].copy  k == c.link.item
           kept == IF Diverged(c, seen) THEN Proposed(c, seen.content.title, "push") ELSE c
           r == [at |-> "send", copy |-> kept, since |-> run[p].since,
                 entry |-> [item |-> k, content |-> Reconciled(c, seen)]]
<1>1. /\ items \in Seq(Item) /\ now \in Nat /\ Len(items) \in Nat
      /\ file \in Copies(Len(items)) /\ queue \in Entries(Len(items)) \cup {None}
      /\ c \in Copies(Len(items)) /\ run[p].since \in Nat
  BY ProjectParts DEF IInv, TypeInv
<1>2. /\ k \in 0 .. Len(items) /\ (Linked(c) => k \in 1 .. Len(items))
      /\ \A i \in 1 .. Len(items) : items[i].content.title \in Title /\ items[i].content \in Content
  <2>1. k \in 0 .. Len(items) /\ (Linked(c) => k \in 1 .. Len(items))
    BY <1>1, CopyParts
  <2>2. \A x \in Item : x.content \in Content /\ x.content.title \in Title
    BY DEF Item, Content
  <2> QED
    BY <1>1, <2>1, <2>2
<1>3. seen # None => seen = items[k] /\ seen.content \in Content /\ seen.content.title \in Title
  BY <1>2
<1>4. /\ kept \in Copies(Len(items))
      /\ Diverged(c, seen) /\ kept.chunk.proposal # None =>
           kept.chunk.proposal.title = seen.content.title
  BY <1>1, <1>3, ProposedCopy DEF Diverged
<1>5. /\ Reconciled(c, seen) \in Content
      /\ Reconciled(c, seen).title = ReconciledTitle(c, seen)
      /\ seen # None /\ seen.version # c.link.version =>
           ReconciledTitle(c, seen) = seen.content.title
      /\ ~ (seen # None /\ seen.version # c.link.version) /\ Concession(c) # None =>
           ReconciledTitle(c, seen) = Concession(c)
  <2> HIDE DEF c
  <2> QED
    BY <1>1, <1>3, ReconciledTitles
<1>6. r \in Runs(Len(items)) /\ r.at = "send" /\ r.since = run[p].since
      /\ r.entry.item = k /\ r.entry.content = Reconciled(c, seen) /\ r.copy = kept
  <2> HIDE DEF kept, k, c
  <2>1. [item |-> k, content |-> Reconciled(c, seen)] \in Entries(Len(items))
    BY <1>2, <1>5 DEF Entries
  <2> QED
    BY <1>1, <1>4, <2>1 DEF Runs
<1>7. Concedes(r, items)
  <2> SUFFICES ASSUME k # 0, Concession(kept) = items[k].content.title
               PROVE  Reconciled(c, seen).title = items[k].content.title
    <3> HIDE DEF kept, r, k, c
    <3> QED
      BY <1>6 DEF Concedes
  <2>1. CASE seen # None /\ seen.version # c.link.version
    BY <1>3, <1>5, <2>1
  <2>2. CASE ~ (seen # None /\ seen.version # c.link.version)
    <3>1. kept = c
      BY <2>2 DEF Diverged
    <3>2. k \in 1 .. Len(items) /\ items[k].content.title \in Title
      <4>1. k \in 0 .. Len(items) /\ Len(items) \in Nat
        BY <1>1, <1>2
      <4> HIDE DEF c, kept, r, k
      <4>2. k \in 1 .. Len(items)
        BY <4>1
      <4> QED
        BY <4>2, <1>2
    <3>3. Concession(c) # None
      BY <3>1, <3>2, MirrorAssumption
    <3> QED
      BY <1>5, <2>2, <3>1, <3>3
  <2> QED
    BY <2>1, <2>2
<1>8. CASE Unchanged(c, Reconciled(c, seen))
  <2>1. To(p, IdleRun) /\ UNCHANGED <<file, now>>
    BY <1>8 DEF Decide, Done
  <2>2. Moves
    BY <1>1, <2>1, NothingMoves
  <2>3. IdleRun \in Runs(Len(items)) /\ IdleRun.at = "idle"
    BY IdleIsRun
  <2> HIDE DEF IdleRun
  <2> QED
    BY <1>1, <2>1, <2>2, <2>3, PushStep
<1>9. CASE ~Unchanged(c, Reconciled(c, seen))
  <2>1. To(p, r) /\ (IF kept = c THEN UNCHANGED <<file, now>> ELSE Save(kept) /\ Stamped)
    BY <1>9 DEF Decide, Deliver
  <2> HIDE DEF r, kept, c, k
  <2>2. Moves /\ (now' = now \/ now' = now + 1)
    BY <1>1, <2>1, NothingMoves DEF Stamped
  <2>3. file' \in Copies(Len(items))
    BY <1>1, <1>4, <2>1, MergedCopy DEF Save
  <2> QED
    BY <1>1, <1>2, <1>6, <1>7, <2>1, <2>2, <2>3, PushStep
<1> QED
  BY <1>8, <1>9

LEMMA ProjectKeeps ==
  ASSUME IInv, NEW p \in Pusher, ProjectNew(p) \/ Fetch(p) \/ FetchFails(p)
  PROVE  IInv'
<1>1. /\ run[p].at = "project"
      /\ faults' = faults \/ faults' = faults + 1
      /\ UNCHANGED <<mem, sweep, items, queue, mark, tick, edits>>
  BY DEF ProjectNew, Fetch, FetchFails, Fault
<1>2. CASE Decide(p, None)
  <2>1. None # None => Linked(run[p].copy) /\ None = items[run[p].copy.link.item]
    OBVIOUS
  <2> QED
    BY <1>1, <1>2, <2>1, DecideKeeps
<1>3. CASE Linked(run[p].copy) /\ Decide(p, items[run[p].copy.link.item])
  BY <1>1, <1>3, DecideKeeps
<1> QED
  BY <1>2, <1>3 DEF ProjectNew, Fetch, FetchFails

LEMMA SendKeeps ==
  ASSUME IInv, NEW p \in Pusher, Send(p)
  PROVE  IInv'
<1> DEFINE e == run[p].entry
           w == [item |-> IF e.item = 0 THEN Len(items') ELSE e.item,
                 content |-> e.content,
                 version |-> IF e.item = 0 THEN 1 ELSE items[e.item].version + 1]
           r == [at |-> "sent", copy |-> run[p].copy, link |-> w]
<1>1. /\ run[p].at = "send" /\ To(p, r) /\ items' = Upserted(e) /\ Ticked
      /\ UNCHANGED <<mem, file, sweep, queue, mark, now, edits, faults>>
  BY DEF Send
<1>2. /\ items \in Seq(Item) /\ tick \in Nat /\ Len(items) \in Nat
      /\ run[p] \in Runs(Len(items))
  BY DEF IInv, TypeInv
<1>3. /\ e \in Entries(Len(items)) /\ e.item \in 0 .. Len(items) /\ e.content \in Content
      /\ run[p].copy \in Copies(Len(items))
  BY <1>1, <1>2, SendParts DEF Entries
<1>4. /\ Moves /\ Len(items') = IF e.item = 0 THEN Len(items) + 1 ELSE Len(items)
  BY <1>1, <1>2, <1>3, UpsertMoves
<1>5. w \in Written(Len(items'))
  <2>1. e.item # 0 => items[e.item].version + 1 \in Nat
    <3>1. e.item # 0 => items[e.item] \in Item
      BY <1>2, <1>3
    <3> QED
      BY <3>1 DEF Item
  <2>2. (IF e.item = 0 THEN Len(items') ELSE e.item) \in 1 .. Len(items')
    BY <1>2, <1>3, <1>4
  <2> QED
    BY <1>3, <2>1, <2>2 DEF Written
<1>6. items' \in Seq(Item) /\ Len(items) <= Len(items') /\ Len(items') \in Nat
  BY <1>4 DEF Moves
<1>7. /\ file' \in Copies(Len(items')) /\ queue' \in Entries(Len(items')) \cup {None}
      /\ run[p].copy \in Copies(Len(items'))
  BY <1>1, <1>2, <1>3, <1>6, Wider, TypesGrow DEF IInv
<1>8. r \in Runs(Len(items')) /\ r.at = "sent"
  <2> HIDE DEF w
  <2> QED
    BY <1>5, <1>7 DEF Runs
<1> HIDE DEF r
<1> QED
  BY <1>1, <1>4, <1>7, <1>8, PushStep

LEMMA RecordKeeps ==
  ASSUME IInv, NEW p \in Pusher, Record(p)
  PROVE  IInv'
<1> DEFINE c == run[p].copy  w == run[p].link
           chunk == [c.chunk EXCEPT !.stamp = now + 1]
           link == [item |-> w.item, content |-> w.content, version |-> w.version,
                    stamp |-> now + 1]
           copy == [chunk |-> chunk, link |-> link]
<1>1. /\ run[p].at = "sent" /\ To(p, IdleRun) /\ Save(copy) /\ Stamped
      /\ now' = now + 1 /\ UNCHANGED <<mem, sweep, items, queue, mark, tick, edits, faults>>
  BY DEF Record, Done, Stamped
<1>2. /\ items \in Seq(Item) /\ now \in Nat /\ now + 1 \in Nat /\ Len(items) \in Nat
      /\ run[p] \in Runs(Len(items)) /\ file \in Copies(Len(items))
      /\ queue \in Entries(Len(items)) \cup {None}
  BY DEF IInv, TypeInv
<1>3. c \in Copies(Len(items)) /\ w \in Written(Len(items))
  BY <1>1, <1>2, SentParts
<1>4. chunk \in Chunk
  BY <1>2, <1>3, CopyParts, StampedChunk
<1>5. link \in Links(Len(items))
  BY <1>2, <1>3 DEF Written, Links
<1>6. copy \in Copies(Len(items))
  <2> HIDE DEF chunk, link
  <2> QED
    BY <1>4, <1>5 DEF Copies
<1> HIDE DEF copy
<1>7. file' \in Copies(Len(items))
  BY <1>1, <1>2, <1>6, MergedCopy DEF Save
<1>8. Moves
  BY <1>1, <1>2, NothingMoves
<1>9. IdleRun \in Runs(Len(items)) /\ IdleRun.at = "idle"
  BY IdleIsRun
<1> HIDE DEF IdleRun
<1> QED
  BY <1>1, <1>2, <1>7, <1>8, <1>9, PushStep

-----------------------------------------------------------------------------
(* A sweep.                                                                 *)

LEMMA SweepParts ==
  ASSUME NEW n \in Nat, NEW s \in Sweeps(n)
  PROVE  /\ s.at \in {"fetch", "record"} => s.start \in Nat
         /\ s.at = "record" => /\ s.asked \subseteq Nat \X Nat
                               /\ s.titles # {} => s.copy \in Copies(n)
         /\ s.at = "propose" => s.copy \in Copies(n)
         /\ s.at \in {"record", "propose"} => s.titles \subseteq Title
<1>1. s.at \in {"fetch", "record"} => s.start \in Nat
  BY Started
<1>2. s.at = "record" => /\ s.asked \subseteq Nat \X Nat
                         /\ s.titles # {} => s.copy \in Copies(n)
  BY DEF Sweeps, IdleSweep
<1>3. s.at = "propose" => s.copy \in Copies(n)
  BY DEF Sweeps, IdleSweep
<1>4. s.at \in {"record", "propose"} => s.titles \subseteq Title
  BY DEF Sweeps, IdleSweep
<1> QED
  BY <1>1, <1>2, <1>3, <1>4

LEMMA IdleIsSweep == ASSUME NEW n PROVE IdleSweep \in Sweeps(n) /\ IdleSweep.at = "idle"
BY DEF Sweeps, IdleSweep

\* A sweep that begins may take the stamp of the next change.
LEMMA StartSweepKeeps ==
  ASSUME IInv, NEW w \in Sweeper, StartSweep(w)
  PROVE  IInv'
<1> DEFINE s == [at |-> "fetch", copy |-> IF w \in Proposer THEN file ELSE None,
                 start |-> tick + 1]
<1>1. /\ SweepTo(w, s)
      /\ UNCHANGED <<mem, file, run, items, queue, mark, now, tick, edits, faults>>
  BY DEF StartSweep
<1>2. /\ file \in Copies(Len(items)) /\ tick \in Nat /\ tick + 1 \in Nat
      /\ sweep \in [Sweeper -> Sweeps(Len(items))]
  BY DEF IInv, TypeInv
<1>3. /\ s \in Sweeps(Len(items)) /\ s.at = "fetch" /\ s.start = tick + 1
      /\ w \in Proposer => s.copy \in Copies(Len(items))
  BY <1>2 DEF Sweeps
<1> HIDE DEF s
<1>4. /\ sweep' \in [Sweeper -> Sweeps(Len(items))]
      /\ \A v \in Sweeper : sweep'[v] = IF v = w THEN s ELSE sweep[v]
  BY <1>1, <1>2, <1>3 DEF SweepTo
<1>5. TypeInv'
  <2>1. \A v \in Proposer : sweep'[v].at = "fetch" => sweep'[v].copy \in Copies(Len(items))
    BY <1>3, <1>4, MirrorAssumption DEF IInv, TypeInv
  <2> QED
    BY <1>1, <1>4, <2>1 DEF IInv, TypeInv
<1>6. TimeInv'
  <2>1. \A v \in Sweeper : sweep'[v].at \in {"fetch", "record"} => sweep'[v].start <= tick + 1
    BY <1>2, <1>3, <1>4 DEF IInv, TimeInv
  <2> QED
    BY <1>1, <2>1 DEF IInv, TimeInv
<1>7. SlipInv'
  <2>1. \A v \in Sweeper : Asks(sweep'[v], items)
    BY <1>3, <1>4 DEF IInv, SlipInv, Asks
  <2> QED
    BY <1>1, <2>1 DEF IInv, SlipInv, EveryChangeIsAskedFor, Asks
<1>8. ConcedeInv'
  BY <1>1 DEF IInv, ConcedeInv
<1> QED
  BY <1>5, <1>6, <1>7, <1>8 DEF IInv

\* What a sweep asks for is what changed since the watermark; of what changed before,
\* everything has been asked for.
LEMMA FetchSinceKeeps ==
  ASSUME IInv, NEW w \in Sweeper, FetchSince(w)
  PROVE  IInv'
<1> DEFINE asked == {<<i, items[i].version>> : i \in {j \in ChangedSince(mark) : ~items[j].asked}}
<1>1. PICK titles :
        /\ sweep[w].at = "fetch"
        /\ titles = {} \/ (w \in Proposer /\ \E page \in SUBSET Window(mark) :
                                                titles = Retitled(sweep[w].copy, page))
        /\ SweepTo(w, [at |-> "record", start |-> sweep[w].start, titles |-> titles,
                       copy |-> IF titles = {} THEN None ELSE sweep[w].copy,
                       asked |-> asked])
        /\ UNCHANGED <<mem, file, run, items, queue, mark, now, tick, edits, faults>>
  BY DEF FetchSince
<1> DEFINE s == [at |-> "record", start |-> sweep[w].start, titles |-> titles,
                 copy |-> IF titles = {} THEN None ELSE sweep[w].copy, asked |-> asked]
<1>2. /\ items \in Seq(Item) /\ Len(items) \in Nat
      /\ sweep \in [Sweeper -> Sweeps(Len(items))] /\ sweep[w] \in Sweeps(Len(items))
      /\ DOMAIN items = 1 .. Len(items) /\ mark \in Nat
  BY DEF IInv, TypeInv
<1>3. \A i \in DOMAIN items :
        /\ items[i].version \in Nat /\ items[i].content.title \in Title /\ items[i].at \in Nat
        /\ i \in Nat
  <2>1. \A x \in Item : x.version \in Nat /\ x.content.title \in Title /\ x.at \in Nat
    BY DEF Item, Content
  <2> QED
    BY <1>2, <2>1
<1>4. asked \subseteq Nat \X Nat
  BY <1>3 DEF ChangedSince
<1>5. \A i \in DOMAIN items :
        items[i].at >= mark => items[i].asked \/ <<i, items[i].version>> \in asked
  BY DEF ChangedSince
<1>6. titles \subseteq Title
  <2>1. ASSUME NEW page \in SUBSET Window(mark)
        PROVE  Retitled(sweep[w].copy, page) \subseteq Title
    BY <1>3 DEF Retitled, Window, ChangedSince
  <2> QED
    BY <1>1, <2>1
<1>7. titles # {} => sweep[w].copy \in Copies(Len(items))
  BY <1>1 DEF IInv, TypeInv
<1>8. sweep[w].start \in Nat /\ sweep[w].start <= tick + 1
  BY <1>1, <1>2, SweepParts DEF IInv, TimeInv
<1> HIDE DEF asked
<1>9. s \in Sweeps(Len(items)) /\ s.at = "record" /\ s.start = sweep[w].start /\ s.asked = asked
  <2>1. CASE titles = {}
    BY <1>4, <1>8, <2>1 DEF Sweeps
  <2>2. CASE titles # {}
    BY <1>4, <1>6, <1>7, <1>8, <2>2 DEF Sweeps
  <2> QED
    BY <2>1, <2>2
<1>10. SweepTo(w, s)
  BY <1>1
<1> HIDE DEF s
<1>11. /\ sweep' \in [Sweeper -> Sweeps(Len(items))]
       /\ \A v \in Sweeper : sweep'[v] = IF v = w THEN s ELSE sweep[v]
  BY <1>2, <1>9, <1>10 DEF SweepTo
<1>12. TypeInv'
  <2>1. \A v \in Proposer : sweep'[v].at = "fetch" => sweep'[v].copy \in Copies(Len(items))
    BY <1>9, <1>11, MirrorAssumption DEF IInv, TypeInv
  <2> QED
    BY <1>1, <1>11, <2>1 DEF IInv, TypeInv
<1>13. TimeInv'
  <2>1. \A v \in Sweeper : sweep'[v].at \in {"fetch", "record"} => sweep'[v].start <= tick + 1
    BY <1>8, <1>9, <1>11 DEF IInv, TimeInv
  <2> QED
    BY <1>1, <2>1 DEF IInv, TimeInv
<1>14. SlipInv'
  <2>1. \A i \in DOMAIN items : items[i].asked \/ <<i, items[i].version>> \in asked
    BY <1>5 DEF IInv, SlipInv, EveryChangeIsAskedFor
  <2>2. \A v \in Sweeper : Asks(sweep'[v], items)
    BY <1>9, <1>11, <2>1 DEF IInv, SlipInv, Asks
  <2> QED
    BY <1>1, <2>2 DEF IInv, SlipInv, EveryChangeIsAskedFor, Asks
<1>15. ConcedeInv'
  BY <1>1 DEF IInv, ConcedeInv
<1> QED
  BY <1>12, <1>13, <1>14, <1>15 DEF IInv

\* What is behind the new watermark was asked for, by this sweep or before.
LEMMA AdvanceKeeps ==
  ASSUME IInv, NEW w \in Sweeper, Advance(w)
  PROVE  IInv'
<1> DEFINE Seen(i) == items[i].asked \/ <<i, items[i].version>> \in sweep[w].asked
           s == IF sweep[w].titles = {} THEN IdleSweep
                ELSE [at |-> "propose", copy |-> sweep[w].copy, titles |-> sweep[w].titles]
<1>1. /\ sweep[w].at = "record" /\ mark' = Max2(mark, sweep[w].start)
      /\ items' = [i \in DOMAIN items |-> [items[i] EXCEPT !.asked = Seen(i)]]
      /\ SweepTo(w, s)
      /\ UNCHANGED <<mem, file, run, queue, now, tick, edits, faults>>
  BY DEF Advance, Complete
<1>2. /\ items \in Seq(Item) /\ Len(items) \in Nat
      /\ sweep \in [Sweeper -> Sweeps(Len(items))] /\ sweep[w] \in Sweeps(Len(items))
      /\ DOMAIN items = 1 .. Len(items) /\ mark \in Nat /\ tick \in Nat
  BY DEF IInv, TypeInv
<1>3. /\ sweep[w].start \in Nat /\ sweep[w].start <= tick + 1
      /\ sweep[w].titles \subseteq Title
      /\ sweep[w].titles # {} => sweep[w].copy \in Copies(Len(items))
  BY <1>1, <1>2, SweepParts DEF IInv, TimeInv
<1>4. s \in Sweeps(Len(items)) /\ s.at \in {"idle", "propose"}
  <2>1. CASE sweep[w].titles = {}
    BY <2>1, IdleIsSweep
  <2>2. CASE sweep[w].titles # {}
    BY <1>3, <2>2 DEF Sweeps
  <2> QED
    BY <2>1, <2>2
<1> HIDE DEF s
<1>5. /\ sweep' \in [Sweeper -> Sweeps(Len(items))]
      /\ \A v \in Sweeper : sweep'[v] = IF v = w THEN s ELSE sweep[v]
  BY <1>1, <1>2, <1>4 DEF SweepTo
<1>6. \A i \in DOMAIN items :
        LET new == [items[i] EXCEPT !.asked = Seen(i)] IN
        /\ new \in Item /\ new.asked = Seen(i)
        /\ new.at = items[i].at /\ new.at \in Nat /\ new.content = items[i].content
        /\ new.version = items[i].version
  <2> SUFFICES ASSUME NEW i \in DOMAIN items, NEW b \in BOOLEAN, b = Seen(i)
               PROVE  LET new == [items[i] EXCEPT !.asked = b] IN
                      /\ new \in Item /\ new.asked = b
                      /\ new.at = items[i].at /\ new.at \in Nat
                      /\ new.content = items[i].content /\ new.version = items[i].version
    <3>1. \A i \in DOMAIN items : Seen(i) \in BOOLEAN
      <4>1. \A i \in DOMAIN items : items[i] \in Item
        BY <1>2
      <4> QED
        BY <4>1 DEF Item
    <3> QED
      BY <3>1
  <2>1. items[i] \in Item
    BY <1>2
  <2> QED
    BY <2>1 DEF Item
<1>7. /\ items' \in Seq(Item) /\ Len(items') = Len(items) /\ DOMAIN items' = DOMAIN items
      /\ \A i \in DOMAIN items : /\ items'[i].at = items[i].at /\ items'[i].at \in Nat
                                 /\ items'[i].content = items[i].content
                                 /\ items'[i].version = items[i].version
                                 /\ items'[i].asked = Seen(i)
  <2> HIDE DEF Seen
  <2>1. DOMAIN items' = DOMAIN items /\ \A i \in DOMAIN items : items'[i] \in Item
    BY <1>1, <1>6
  <2>2. items' \in [1 .. Len(items) -> Item]
    BY <1>1, <1>2, <1>6
  <2>3. items' \in Seq(Item) /\ Len(items') = Len(items)
    BY <1>2, <2>2
  <2> QED
    BY <1>1, <1>6, <2>1, <2>3
<1>8. TypeInv'
  <2>1. mark' \in Nat
    BY <1>1, <1>2, <1>3 DEF Max2
  <2>2. \A v \in Proposer : sweep'[v].at = "fetch" => sweep'[v].copy \in Copies(Len(items))
    BY <1>4, <1>5, MirrorAssumption DEF IInv, TypeInv
  <2> QED
    BY <1>1, <1>5, <1>7, <2>1, <2>2 DEF IInv, TypeInv
<1>9. TimeInv'
  <2>1. mark' <= tick + 1
    BY <1>1, <1>2, <1>3 DEF Max2, IInv, TimeInv
  <2>2. \A v \in Sweeper : sweep'[v].at \in {"fetch", "record"} => sweep'[v].start <= tick + 1
    BY <1>4, <1>5 DEF IInv, TimeInv
  <2>3. \A i \in DOMAIN items' : items'[i].at <= tick
    BY <1>7 DEF IInv, TimeInv
  <2> QED
    BY <1>1, <2>1, <2>2, <2>3 DEF IInv, TimeInv
<1>10. SlipInv'
  <2>1. ASSUME NEW i \in DOMAIN items
        PROVE  items'[i].at >= mark' \/ items'[i].asked
    <3>1. items'[i].at = items[i].at /\ items[i].at \in Nat /\ items'[i].asked = Seen(i)
      BY <1>7
    <3>2. items[i].at >= mark \/ Seen(i)
      BY DEF IInv, SlipInv, EveryChangeIsAskedFor
    <3>3. items[i].at < sweep[w].start => Seen(i)
      BY <1>1 DEF IInv, SlipInv, Asks
    <3> HIDE DEF Seen
    <3>4. items[i].at >= mark' \/ Seen(i)
      BY <1>1, <1>2, <1>3, <3>1, <3>2, <3>3 DEF Max2
    <3> QED
      BY <3>1, <3>4
  <2>2. ASSUME NEW v \in Sweeper, sweep'[v].at = "record",
               NEW i \in DOMAIN items, items[i].at < sweep'[v].start
        PROVE  Seen(i) \/ <<i, items[i].version>> \in sweep'[v].asked
    <3>1. sweep'[v] = sweep[v]
      BY <1>4, <1>5, <2>2
    <3>2. Asks(sweep[v], items)
      BY DEF IInv, SlipInv
    <3> QED
      BY <2>2, <3>1, <3>2 DEF Asks
  <2>3. \A v \in Sweeper : Asks(sweep'[v], items')
    <3> HIDE DEF Seen
    <3> QED
      BY <1>7, <2>2 DEF Asks
  <2> QED
    BY <1>7, <2>1, <2>3 DEF SlipInv, EveryChangeIsAskedFor, Asks
<1>11. ConcedeInv'
  <2>1. ASSUME NEW p \in Pusher, run[p].at = "send"
        PROVE  Concedes(run[p], items')
    <3>1. Concedes(run[p], items)
      BY <2>1 DEF IInv, ConcedeInv
    <3>2. run[p].entry.item \in 0 .. Len(items)
      BY <1>2, <2>1, SendParts DEF IInv, TypeInv
    <3>3. CASE run[p].entry.item = 0
      BY <3>3 DEF Concedes
    <3>4. CASE run[p].entry.item # 0
      <4>1. run[p].entry.item \in DOMAIN items
        BY <1>2, <3>2, <3>4
      <4>2. /\ items'[run[p].entry.item].at = items[run[p].entry.item].at
            /\ items'[run[p].entry.item].content = items[run[p].entry.item].content
        BY <1>7, <4>1
      <4> QED
        BY <3>1, <4>2 DEF Concedes
    <3> QED
      BY <3>3, <3>4
  <2> QED
    BY <1>1, <2>1 DEF ConcedeInv
<1> QED
  BY <1>8, <1>9, <1>10, <1>11 DEF IInv

\* A sweep that is over may have saved a proposal.
LEMMA SweepEndKeeps ==
  ASSUME IInv, NEW w \in Sweeper, Propose(w) \/ SweepEnds(w)
  PROVE  IInv'
<1>1. /\ SweepTo(w, IdleSweep)
      /\ UNCHANGED <<mem, run, items, queue, mark, tick, edits, faults>>
      /\ \/ UNCHANGED <<file, now>>
         \/ /\ sweep[w].at = "propose"
            /\ \E t \in sweep[w].titles : Save(Proposed(sweep[w].copy, t, "sweep")) /\ Stamped
  BY DEF Propose, SweepEnds
<1>2. /\ items \in Seq(Item) /\ Len(items) \in Nat
      /\ sweep \in [Sweeper -> Sweeps(Len(items))] /\ sweep[w] \in Sweeps(Len(items))
      /\ file \in Copies(Len(items)) /\ now \in Nat
  BY DEF IInv, TypeInv
<1>3. file' \in Copies(Len(items)) /\ now' \in Nat
  <2>1. CASE UNCHANGED <<file, now>>
    BY <1>2, <2>1
  <2>2. ASSUME sweep[w].at = "propose", NEW t \in sweep[w].titles,
               Save(Proposed(sweep[w].copy, t, "sweep")), Stamped
        PROVE  file' \in Copies(Len(items)) /\ now' \in Nat
    <3>1. sweep[w].copy \in Copies(Len(items)) /\ t \in Title
      BY <1>2, <2>2, SweepParts
    <3>2. Proposed(sweep[w].copy, t, "sweep") \in Copies(Len(items))
      BY <1>2, <3>1, ProposedCopy
    <3> QED
      BY <1>2, <2>2, <3>2, MergedCopy DEF Save, Stamped
  <2> QED
    BY <1>1, <2>1, <2>2
<1>4. IdleSweep \in Sweeps(Len(items)) /\ IdleSweep.at = "idle"
  BY IdleIsSweep
<1> HIDE DEF IdleSweep
<1>5. /\ sweep' \in [Sweeper -> Sweeps(Len(items))]
      /\ \A v \in Sweeper : sweep'[v] = IF v = w THEN IdleSweep ELSE sweep[v]
  BY <1>1, <1>2, <1>4 DEF SweepTo
<1>6. Moves
  BY <1>1, <1>2, NothingMoves
<1>7. TypeInv'
  <2>1. \A v \in Proposer : sweep'[v].at = "fetch" => sweep'[v].copy \in Copies(Len(items))
    BY <1>4, <1>5, MirrorAssumption DEF IInv, TypeInv
  <2> QED
    BY <1>1, <1>3, <1>5, <2>1 DEF IInv, TypeInv
<1>8. \A v \in Sweeper : Rests(v)
  BY <1>4, <1>5 DEF Rests
<1>9. TimeInv' /\ SlipInv' /\ ConcedeInv'
  BY <1>1, <1>6, <1>8, BesideSweeps DEF Proceeds
<1> QED
  BY <1>7, <1>9 DEF IInv

-----------------------------------------------------------------------------
(* The theorems.                                                            *)

LEMMA InitIInv == Init => IInv
<1> SUFFICES ASSUME Init
             PROVE  IInv
  OBVIOUS
<1>1. PICK t \in Title :
        mem = [chunk |-> [content |-> [title |-> t, body |-> 0], proposal |-> None, stamp |-> 0],
               link |-> NoLink]
  BY DEF Init
<1>2. mem \in Copies(0)
  BY <1>1 DEF Copies, Chunk, Content, Links
<1>3. items = <<>> /\ Len(items) = 0 /\ items \in Seq(Item) /\ DOMAIN items = {}
  BY DEF Init
<1>4. /\ \A p \in Pusher : run[p] = IdleRun
      /\ \A w \in Sweeper : sweep[w] = IdleSweep
      /\ run \in [Pusher -> Runs(0)] /\ sweep \in [Sweeper -> Sweeps(0)]
  BY IdleIsRun, IdleIsSweep DEF Init
<1>5. TypeInv
  <2>1. \A w \in Proposer : sweep[w].at # "fetch"
    BY <1>4, IdleIsSweep, MirrorAssumption
  <2> QED
    BY <1>2, <1>3, <1>4, <2>1 DEF Init, TypeInv
<1>6. TimeInv /\ SlipInv /\ ConcedeInv
  BY <1>3, <1>4 DEF Init, TimeInv, SlipInv, ConcedeInv, EveryChangeIsAskedFor, Asks, IdleRun,
                    IdleSweep
<1> QED
  BY <1>5, <1>6 DEF IInv

LEMMA StutterKeeps ==
  ASSUME IInv, UNCHANGED vars
  PROVE  IInv'
<1>1. /\ mem' = mem /\ file' = file /\ run' = run /\ sweep' = sweep /\ items' = items
      /\ queue' = queue /\ mark' = mark /\ now' = now /\ tick' = tick
      /\ edits' = edits /\ faults' = faults
  BY DEF vars
<1>2. TypeInv' /\ TimeInv' /\ ConcedeInv'
  BY <1>1 DEF IInv, TypeInv, TimeInv, ConcedeInv
<1>3. SlipInv'
  BY <1>1 DEF IInv, SlipInv, EveryChangeIsAskedFor, Asks
<1> QED
  BY <1>2, <1>3 DEF IInv

LEMMA NextKeeps ==
  ASSUME IInv, Next
  PROVE  IInv'
<1>1. CASE ServerNext
  BY <1>1, ServerKeeps
<1>2. CASE HumanNext
  BY <1>2, HumanKeeps
<1>3. CASE PushNext
  BY <1>3, StartPushKeeps, ReplayKeeps, ProjectKeeps, EndKeeps, SendKeeps, SendFailsKeeps,
     RecordKeeps DEF PushNext
<1>4. CASE SweepNext
  BY <1>4, StartSweepKeeps, FetchSinceKeeps, AdvanceKeeps, SweepEndKeeps DEF SweepNext
<1> QED
  BY <1>1, <1>2, <1>3, <1>4 DEF Next

\* The inductive invariant is one.
THEOREM Invariance == Spec => []IInv
<1>1. IInv /\ [Next]_vars => IInv'
  BY NextKeeps, StutterKeeps
<1> QED
  BY InitIInv, <1>1, PTL DEF Spec

\* Every variable keeps its type, and links lead to items.
THEOREM TypeCorrect == Spec => []TypeOK
<1>1. ASSUME IInv
      PROVE  TypeOK
  <2> DEFINE n == Len(items)
  <2>1. /\ items \in Seq(Item) /\ n \in Nat /\ DOMAIN items = 1 .. n
        /\ mem \in Copies(n) /\ file \in Copies(n) /\ \A w \in Sweeper : sweep[w] \in Sweeps(n)
        /\ queue \in Entries(n) \cup {None} /\ \A p \in Pusher : run[p] \in Runs(n)
        /\ {mark, now, tick, edits, faults} \subseteq Nat
    BY <1>1 DEF IInv, TypeInv
  <2> HIDE DEF n
  <2>2. Copies(n) \subseteq Roadmap /\ Entries(n) \subseteq Entry
    <3>1. 1 .. n \subseteq Nat \ {0} /\ 0 .. n \subseteq Nat
      BY <2>1
    <3>2. Links(n) \subseteq Link
      BY <3>1 DEF Links, Link
    <3> QED
      BY <3>1, <3>2 DEF Copies, Roadmap, Entries, Entry
  <2>3. \A r \in Runs(n) : /\ r.at \in {"idle", "replay", "project", "send", "sent"}
                           /\ r.at # "idle" => r.copy \in Copies(n)
                           /\ r.at \in {"replay", "send"} => r.entry \in Entries(n)
    BY DEF Runs, IdleRun
  <2>4. \A s \in Sweeps(n) : /\ s.at \in {"idle", "fetch", "record", "propose"}
                             /\ s.at # "idle" => s.copy \in Copies(n) \cup {None}
    BY DEF Sweeps, IdleSweep
  <2>5. \A c \in {mem, file} : Linked(c) => c.link.item \in DOMAIN items
    BY <2>1, CopyParts
  <2> QED
    BY <2>1, <2>2, <2>3, <2>4, <2>5 DEF TypeOK
<1> QED
  BY Invariance, <1>1, PTL

\* The watermark passes no change that no completed sweep asked for, whatever sweeps
\* overlap or die (SweepMarks::record, and sweep_once's stamp of the start).
THEOREM NothingIsPassedUnasked == Spec => []EveryChangeIsAskedFor
<1>1. IInv => EveryChangeIsAskedFor
  BY DEF IInv, SlipInv
<1> QED
  BY Invariance, <1>1, PTL

\* A push writes no other title over the one it knows to be conceded
\* (reconcile_fields).
THEOREM ConcededForGood == Spec => ConcededTitleStands
<1>1. ASSUME IInv, NEW p \in Pusher, Send(p),
             run[p].entry.item # 0, items[run[p].entry.item].at <= run[p].since,
             Concession(run[p].copy) = items[run[p].entry.item].content.title
      PROVE  items'[run[p].entry.item].content.title = items[run[p].entry.item].content.title
  <2>1. /\ run[p].at = "send" /\ items' = Upserted(run[p].entry) /\ Ticked
    BY <1>1 DEF Send
  <2>2. items \in Seq(Item) /\ tick \in Nat /\ run[p].entry \in Entries(Len(items))
    BY <1>1, <2>1, SendParts DEF IInv, TypeInv
  <2>3. items'[run[p].entry.item].content = run[p].entry.content
    BY <1>1, <2>1, <2>2, UpsertMoves
  <2>4. run[p].entry.content.title = items[run[p].entry.item].content.title
    BY <1>1, <2>1 DEF IInv, ConcedeInv, Concedes
  <2> QED
    BY <2>3, <2>4
<1>2. IInv /\ [Next]_vars =>
        [\A p \in Pusher :
           LET item == run[p].entry.item IN
           /\ Send(p) /\ item # 0 /\ items[item].at <= run[p].since
           /\ Concession(run[p].copy) = items[item].content.title
           => items'[item].content.title = items[item].content.title]_vars
  BY <1>1
<1> QED
  BY Invariance, <1>2, PTL DEF Spec, ConcededTitleStands
=============================================================================
