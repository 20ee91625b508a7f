--------------------------- MODULE CloudPullProofs ---------------------------
(***************************************************************************)
(* CloudPull, for any records, families, versions, refresh period, late     *)
(* births and notifications.                                               *)
(***************************************************************************)
EXTENDS CloudPull, SubsequenceProofs

-----------------------------------------------------------------------------
(* The inductive invariant.                                                 *)

\* An answer that is not applied is that of the next family to pull; a loop that is
\* about to connect, and a server that is down, pull nothing.
ReplyInv ==
  /\ \A w \in Puller : reply[w] # NoReply => todo[w] # <<>> /\ reply[w].family = Head(todo[w])
  /\ loop \in {"down", "connect"} => todo["loop"] = <<>>
  /\ loop = "down" => todo["boot"] = <<>>

\* Nothing is stamped later than the store's clock.
StampInv ==
  /\ \A r \in Record : cloud[r].stamp <= clock /\ (cloud[r].version # 0 => cloud[r].stamp > 0)
  /\ \A f \in FamilyName : watermark[f] <= clock
  /\ \A i \in 1 .. Len(notes) : notes[i].copy.stamp <= clock
  /\ reply["loop"] # NoReply => \A c \in reply["loop"].copies : c.stamp <= clock

\* A server that is down has forgotten its watermarks.
DownInv == loop = "down" => \A f \in FamilyName : watermark[f] = 0

\* The answer the loop has got has the store's copy of r.
Found(r) == reply["loop"] # NoReply /\ CopyOf(r) \in reply["loop"].copies

\* No watermark has passed r, nor will it with the answer the loop has got.
Ahead(r) ==
  /\ cloud[r].stamp >= watermark[Family[r]]
  /\ reply["loop"] # NoReply /\ reply["loop"].family = Family[r]
       => \A c \in reply["loop"].copies : c.stamp <= cloud[r].stamp

\* The loop has yet to fetch r's family.
ToFetch(r) ==
  \E k \in 1 .. Len(todo["loop"]) :
    todo["loop"][k] = Family[r] /\ (k > 1 \/ reply["loop"] = NoReply)

\* A notification of r's copy is unread, and none before it passes r.
Announced(r) ==
  \E i \in 1 .. Len(notes) :
    /\ notes[i].copy.record = r /\ notes[i].copy.version = cloud[r].version
    /\ \A j \in 1 .. i - 1 :
         Family[notes[j].copy.record] = Family[r] => notes[j].copy.stamp <= cloud[r].stamp

\* What the server lacks and cannot have missed is on its way to it.
LackInv ==
  loop # "down" =>
    \A r \in Record : known[r] < cloud[r].version /\ ~Missable(r) =>
      \/ Found(r)
      \/ Ahead(r) /\ (ToFetch(r) \/ Announced(r) \/ loop \in {"connect", "poll"})

IInv == TypeOK /\ ReplyInv /\ StampInv /\ DownInv /\ LackInv


-----------------------------------------------------------------------------
(* Maxima, merges and watermarks.                                           *)

LEMMA MaxFacts ==
  ASSUME NEW n \in Nat, NEW S \in SUBSET (0 .. n), S # {}
  PROVE  Max(S) \in S /\ \A x \in S : Max(S) >= x
<1> DEFINE T == {n - x : x \in S}
<1>1. T \subseteq Nat /\ T # {}
  <2>1. \A x \in S : x \in 0 .. n
    OBVIOUS
  <2>2. \A x \in S : n - x \in Nat
    BY <2>1
  <2>3. PICK x \in S : TRUE
    OBVIOUS
  <2>4. n - x \in T
    BY <2>3
  <2> QED
    BY <2>2, <2>4
<1>2. PICK t \in T : \A u \in T : ~ (<<u, t>> \in OpToRel(<, Nat))
  BY <1>1, NatLessThanWellFounded, WFMin
<1>3. \A u \in T : ~(u < t)
  BY <1>1, <1>2 DEF OpToRel
<1>4. PICK x \in S : t = n - x
  BY <1>2
<1>5. \A y \in S : n - y \in T
  OBVIOUS
<1>6. \A y \in S : x >= y
  <2> TAKE y \in S
  <2>1. ~(n - y < n - x)
    BY <1>3, <1>4, <1>5
  <2> QED
    BY <2>1
<1>7. \E z \in S : \A y \in S : z >= y
  BY <1>6
<1> QED
  BY <1>7, Zenon DEF Max

\* A merge forgets nothing and takes what came.
LEMMA MergeFacts ==
  ASSUME known \in [Record -> 0 .. Versions + 1],
         NEW copies \in SUBSET Copy, Merge(copies)
  PROVE  /\ known' \in [Record -> 0 .. Versions + 1]
         /\ \A r \in Record : known'[r] >= known[r]
         /\ \A c \in copies : known'[c.record] >= c.version
<1> DEFINE S(r) == {known[r]} \cup {c.version : c \in {x \in copies : x.record = r}}
<1>1. Versions + 1 \in Nat
  BY PullAssumption
<1>2. \A r \in Record : S(r) \in SUBSET (0 .. Versions + 1) /\ S(r) # {}
  BY <1>1, PullAssumption DEF Copy
<1>3. \A r \in Record : /\ known[r] \in S(r)
                        /\ \A c \in copies : c.record = r => c.version \in S(r)
  OBVIOUS
<1>4. known' = [r \in Record |-> Max(S(r))]
  BY DEF Merge
<1> HIDE DEF S
<1>5. \A r \in Record : Max(S(r)) \in S(r) /\ \A x \in S(r) : Max(S(r)) >= x
  BY <1>1, <1>2, MaxFacts
<1>6. \A r \in Record : Max(S(r)) \in 0 .. Versions + 1
  BY <1>2, <1>5
<1>7. \A c \in copies : c.record \in Record
  BY DEF Copy
<1> QED
  BY <1>3, <1>4, <1>5, <1>6, <1>7

\* A watermark rises, and no further than what came.
LEMMA AdvanceFacts ==
  ASSUME watermark \in [FamilyName -> 0 .. MaxClock], NEW f \in FamilyName,
         NEW copies \in SUBSET Copy, Advance(f, copies)
  PROVE  /\ watermark' \in [FamilyName -> 0 .. MaxClock]
         /\ \A g \in FamilyName : g # f => watermark'[g] = watermark[g]
         /\ \A b \in 0 .. MaxClock :
              watermark[f] <= b /\ (\A c \in copies : c.stamp <= b) => watermark'[f] <= b
<1> DEFINE S == {watermark[f]} \cup {c.stamp : c \in copies}
<1>1. MaxClock \in Nat
  BY PullAssumption
<1>2. S \in SUBSET (0 .. MaxClock) /\ S # {}
  BY <1>1 DEF Copy
<1>3. watermark' = [watermark EXCEPT ![f] = Max(S)]
  BY DEF Advance
<1>4. \A b \in 0 .. MaxClock :
        watermark[f] <= b /\ (\A c \in copies : c.stamp <= b) => \A x \in S : x <= b
  OBVIOUS
<1> HIDE DEF S
<1>5. Max(S) \in S
  BY <1>1, <1>2, MaxFacts
<1> QED
  BY <1>2, <1>3, <1>4, <1>5


-----------------------------------------------------------------------------
(* Types, queues of families and what moves beside the loop.                *)

\* A reply is none or a family's.
LEMMA Replies ==
  ASSUME TypeOK, NEW w \in Puller
  PROVE  /\ NoReply \notin Reply
         /\ reply[w] # NoReply => /\ reply[w] \in Reply
                                  /\ reply[w].family \in FamilyName
                                  /\ reply[w].copies \in SUBSET Copy
<1>1. FamilyName = {"think", "roadmap", "signal"}
  <2>1. DOMAIN Families = 1 .. 3 /\ Families[1] = "think" /\ Families[2] = "roadmap"
          /\ Families[3] = "signal"
    BY DEF Families
  <2>2. 1 .. 3 = {1, 2, 3}
    OBVIOUS
  <2> QED
    BY <2>1, <2>2 DEF FamilyName, Range
<1>2. \A x \in Reply : x.family \in FamilyName /\ x.copies \in SUBSET Copy
  BY DEF Reply
<1>3. NoReply.family = "none" /\ "none" \notin FamilyName
  BY <1>1 DEF NoReply
<1> QED
  BY <1>2, <1>3 DEF TypeOK

\* All families, in their order.
LEMMA AllFamilies ==
  /\ Families \in Seq(FamilyName) /\ Families # <<>>
  /\ \A f \in FamilyName : \E k \in 1 .. Len(Families) : Families[k] = f
<1>1. /\ DOMAIN Families = 1 .. 3 /\ Families[1] = "think" /\ Families[2] = "roadmap"
      /\ Families[3] = "signal" /\ Len(Families) = 3
      /\ Families \in Seq({"think", "roadmap", "signal"}) /\ Families # <<>>
  BY DEF Families
<1>2. 1 .. 3 = {1, 2, 3}
  OBVIOUS
<1>3. FamilyName = {"think", "roadmap", "signal"}
  BY <1>1, <1>2 DEF FamilyName, Range
<1> QED
  BY <1>1, <1>2, <1>3

\* A copy of the store's.
LEMMA Copies ==
  ASSUME TypeOK, StampInv, NEW r \in Record, cloud[r].version # 0
  PROVE  CopyOf(r) \in Copy
<1>1. cloud[r].version \in 1 .. Versions /\ cloud[r].stamp \in 1 .. MaxClock
  BY PullAssumption DEF TypeOK, StampInv
<1> QED
  BY <1>1 DEF Copy, CopyOf

\* What does not touch the loop, its answer, its notifications or the store: at most
\* time passes and the server comes to know more.
LEMMA Beside ==
  ASSUME IInv, TypeOK', UNCHANGED <<cloud, watermark, notes, late, failed, loop>>,
         todo'["loop"] = todo["loop"], reply'["loop"] = reply["loop"],
         \A r \in Record : known'[r] >= known[r], clock' >= clock
  PROVE  StampInv' /\ DownInv' /\ LackInv'
<1>1. StampInv'
  <2>1. \A i \in 1 .. Len(notes) : notes[i].copy.stamp \in Int
    <3>1. \A i \in 1 .. Len(notes) : notes[i] \in Note
      BY DEF IInv, TypeOK
    <3> QED
      BY <3>1 DEF Note, Copy
  <2>2. clock \in Int /\ clock' \in Int
    BY DEF IInv, TypeOK
  <2>3. reply["loop"] # NoReply => \A c \in reply["loop"].copies : c.stamp \in Int
    BY Replies DEF IInv, Puller, Copy
  <2>4. \A r \in Record : cloud[r].stamp \in Int
    BY DEF IInv, TypeOK
  <2>5. \A f \in FamilyName : watermark[f] \in Int
    BY DEF IInv, TypeOK
  <2> QED
    BY <2>1, <2>2, <2>3, <2>4, <2>5 DEF IInv, StampInv
<1>2. DownInv'
  BY DEF IInv, DownInv
<1>3. LackInv'
  <2> SUFFICES ASSUME loop # "down", NEW r \in Record,
                      known'[r] < cloud[r].version, ~Missable(r)
               PROVE  \/ Found(r)'
                      \/ Ahead(r)' /\ (ToFetch(r)' \/ Announced(r)' \/ loop \in {"connect", "poll"})
    BY DEF LackInv, Missable
  <2>1. known[r] < cloud[r].version
    BY DEF IInv, TypeOK
  <2>2. \/ Found(r)
        \/ Ahead(r) /\ (ToFetch(r) \/ Announced(r) \/ loop \in {"connect", "poll"})
    BY <2>1 DEF IInv, LackInv
  <2> QED
    BY <2>2 DEF Found, CopyOf, Ahead, ToFetch, Announced
<1> QED
  BY <1>1, <1>2, <1>3


LEMMA ProceedFacts ==
  ASSUME TypeOK, ReplyInv, NEW w \in Puller, todo[w] # <<>>, Proceed(w)
  PROVE  /\ todo' \in [Puller -> Seq(FamilyName)]
         /\ \A v \in Puller : v # w => todo'[v] = todo[v]
         /\ Len(todo'[w]) = Len(todo[w]) - 1 /\ Len(todo[w]) \in Nat
         /\ \A k \in 1 .. Len(todo[w]) - 1 : todo'[w][k] = todo[w][k + 1]
         /\ loop' \in {"down", "connect", "greet", "live", "poll"}
         /\ loop # "down" /\ loop' # "down"
         /\ loop' \in {"down", "connect"} => todo'["loop"] = <<>>
         /\ loop \in {"connect", "poll"} => loop' \in {"connect", "poll"}
<1>1. todo[w] \in Seq(FamilyName) /\ Len(todo[w]) > 0 /\ Len(todo[w]) \in Nat
  BY DEF TypeOK
<1>2. todo' = [todo EXCEPT ![w] = Tail(todo[w])]
  BY DEF Proceed
<1>3. todo'[w] = Tail(todo[w]) /\ \A v \in Puller : v # w => todo'[v] = todo[v]
  BY <1>2 DEF TypeOK
<1>4. /\ Tail(todo[w]) \in Seq(FamilyName) /\ Len(Tail(todo[w])) = Len(todo[w]) - 1
      /\ \A k \in 1 .. Len(todo[w]) - 1 : Tail(todo[w])[k] = todo[w][k + 1]
  BY <1>1, TailFacts
<1>5. todo' \in [Puller -> Seq(FamilyName)]
  BY <1>2, <1>4 DEF TypeOK
<1>6. loop' = IF w = "boot" \/ Len(todo[w]) > 1 THEN loop
              ELSE IF loop = "poll" THEN "connect" ELSE "live"
  BY DEF Proceed
<1>7. w = "boot" \/ w = "loop"
  BY DEF Puller
<1>8. w = "loop" => loop \notin {"down", "connect"}
  BY DEF ReplyInv
<1>9. /\ loop' \in {"down", "connect", "greet", "live", "poll"}
      /\ loop # "down" /\ loop' # "down"
      /\ loop \in {"connect", "poll"} => loop' \in {"connect", "poll"}
  <2>1. loop # "down"
    BY <1>7 DEF ReplyInv
  <2> QED
    BY <2>1, <1>6, <1>7, <1>8 DEF TypeOK
<1>10. loop' \in {"down", "connect"} => todo'["loop"] = <<>>
  <2>1. CASE w = "boot"
    BY <2>1, <1>3, <1>6 DEF ReplyInv, Puller
  <2>2. CASE w = "loop" /\ Len(todo[w]) > 1
    BY <2>2, <1>6, <1>8
  <2>3. CASE w = "loop" /\ ~(Len(todo[w]) > 1)
    <3>2. Tail(todo[w]) = <<>>
      BY <2>3, <1>1, TailOfOne
    <3> QED
      BY <2>3, <3>2, <1>3
  <2> QED
    BY <2>1, <2>2, <2>3, <1>7
<1> QED
  BY <1>1, <1>3, <1>4, <1>5, <1>9, <1>10

-----------------------------------------------------------------------------
(* The actions, one by one.                                                 *)

LEMMA TimeKeeps ==
  ASSUME IInv, TimePasses
  PROVE  IInv'
<1>1. TypeOK'
  BY PullAssumption DEF IInv, TypeOK, TimePasses, loopVars, history
<1>2. ReplyInv'
  BY DEF IInv, ReplyInv, TimePasses, loopVars
<1>3. /\ UNCHANGED <<cloud, known, watermark, notes, late, failed, loop, todo, reply>>
      /\ clock' >= clock
  BY DEF IInv, TypeOK, TimePasses, loopVars, history
<1>4. \A r \in Record : known'[r] >= known[r]
  BY <1>3 DEF IInv, TypeOK
<1>5. StampInv' /\ DownInv' /\ LackInv'
  BY <1>1, <1>3, <1>4, Beside
<1> QED
  BY <1>1, <1>2, <1>5 DEF IInv

LEMMA EditKeeps ==
  ASSUME IInv, NEW r \in Record, LocalEdit(r)
  PROVE  IInv'
<1>1. known[r] + 1 \in 0 .. Versions + 1
  BY PullAssumption DEF LocalEdit
<1>2. known' = [known EXCEPT ![r] = known[r] + 1]
  BY DEF LocalEdit
<1>3. TypeOK'
  BY <1>1, <1>2 DEF IInv, TypeOK, LocalEdit, storeVars, loopVars, history
<1>4. ReplyInv'
  BY DEF IInv, ReplyInv, LocalEdit, loopVars
<1>5. /\ UNCHANGED <<cloud, clock, watermark, notes, late, failed, loop, todo, reply>>
      /\ clock' >= clock
  BY DEF IInv, TypeOK, LocalEdit, storeVars, loopVars, history
<1>6. \A x \in Record : known'[x] >= known[x]
  BY <1>2 DEF IInv, TypeOK
<1>7. StampInv' /\ DownInv' /\ LackInv'
  BY <1>3, <1>5, <1>6, Beside
<1> QED
  BY <1>3, <1>4, <1>6, <1>7 DEF IInv

\* What a fetch finds is of the family, at the store and not before the cursor.
LEMMA SinceFacts ==
  ASSUME TypeOK, StampInv, NEW f, NEW cursor
  PROVE  /\ Since(f, cursor) \in SUBSET Copy
         /\ \A c \in Since(f, cursor) : c.stamp <= clock
         /\ \A r \in Record : Family[r] = f /\ cloud[r].version # 0 /\ cloud[r].stamp >= cursor
              => CopyOf(r) \in Since(f, cursor)
<1>1. \A c \in Since(f, cursor) : \E r \in Record : cloud[r].version # 0 /\ c = CopyOf(r)
  BY DEF Since
<1>2. Since(f, cursor) \in SUBSET Copy
  BY <1>1, Copies
<1>3. \A r \in Record : CopyOf(r).stamp = cloud[r].stamp
  BY DEF CopyOf
<1>4. \A c \in Since(f, cursor) : c.stamp <= clock
  BY <1>1, <1>3 DEF StampInv
<1> QED
  BY <1>2, <1>4 DEF Since

LEMMA FetchKeeps ==
  ASSUME IInv, NEW w \in Puller, NEW f \in FamilyName, Fetch(w, f)
  PROVE  IInv'
<1> DEFINE cursor == IF w = "boot" THEN 0 ELSE Cursor(f)
           got == [family |-> f, copies |-> Since(f, cursor)]
<1>1. /\ todo[w] # <<>> /\ reply[w] = NoReply /\ f = Head(todo[w])
      /\ reply' = [reply EXCEPT ![w] = got]
      /\ UNCHANGED <<storeVars, known, loop, todo, watermark, notes>>
      /\ IF w = "loop" THEN Counted ELSE UNCHANGED refreshes
      /\ IF w = "loop" /\ cursor = 0
         THEN late' = {r \in late : Family[r] # f} /\ failed' = failed \ {f}
         ELSE UNCHANGED history
  BY DEF Fetch, Wants
<1>2. /\ Since(f, cursor) \in SUBSET Copy
      /\ \A c \in Since(f, cursor) : c.stamp <= clock
      /\ \A r \in Record : Family[r] = f /\ cloud[r].version # 0 /\ cloud[r].stamp >= cursor
           => CopyOf(r) \in Since(f, cursor)
  BY SinceFacts DEF IInv
<1>3. got \in Reply /\ got.family = f /\ got.copies = Since(f, cursor)
  BY <1>2 DEF Reply
<1>4. got # NoReply
  BY <1>3, Replies DEF IInv
<1>5. w = "boot" \/ w = "loop"
  BY DEF Puller
<1>6. (w = "loop" => cursor = 0 \/ cursor = watermark[f]) /\ (w = "boot" => cursor = 0)
  BY DEF Cursor
<1> HIDE DEF got, cursor
<1>7. refreshes' \in 0 .. FullRefreshEvery - 1
  <2>1. refreshes \in Nat /\ FullRefreshEvery \in Nat \ {0}
    BY PullAssumption DEF IInv, TypeOK
  <2>2. (refreshes + 1) % FullRefreshEvery \in 0 .. FullRefreshEvery - 1
    BY <2>1
  <2> QED
    BY <1>1, <2>2 DEF IInv, TypeOK, Counted
<1>8. late' \subseteq late /\ failed' \subseteq failed
  BY <1>1 DEF history
<1>9. TypeOK'
  BY <1>1, <1>3, <1>7, <1>8 DEF IInv, TypeOK, storeVars
<1>10. \A v \in Puller : reply'[v] = IF v = w THEN got ELSE reply[v]
  BY <1>1 DEF IInv, TypeOK
<1>11. ReplyInv'
  BY <1>1, <1>3, <1>10 DEF IInv, ReplyInv
<1>12. CASE w = "boot"
  <2>1. reply'["loop"] = reply["loop"]
    BY <1>10, <1>12 DEF Puller
  <2>2. UNCHANGED <<cloud, clock, watermark, notes, late, failed, loop, known, todo>>
    BY <1>1, <1>12 DEF storeVars, history
  <2>3. clock' >= clock /\ \A r \in Record : known'[r] >= known[r]
    BY <2>2 DEF IInv, TypeOK
  <2>4. StampInv' /\ DownInv' /\ LackInv'
    BY <1>9, <2>1, <2>2, <2>3, Beside
  <2> QED
    BY <1>9, <1>11, <2>4 DEF IInv
<1>13. CASE w = "loop"
  <2>1. reply'["loop"] = got
    BY <1>10, <1>13 DEF Puller
  <2>2. UNCHANGED <<cloud, clock, watermark, notes, loop, known, todo>>
    BY <1>1 DEF storeVars
  <2>3. StampInv'
    BY <1>2, <1>3, <2>1, <2>2 DEF IInv, StampInv
  <2>4. DownInv'
    BY <2>2 DEF IInv, DownInv
  <2>5. LackInv'
    <3> SUFFICES ASSUME loop # "down", NEW r \in Record,
                        known[r] < cloud[r].version, ~Missable(r)'
                 PROVE  \/ Found(r)'
                        \/ Ahead(r)' /\ (ToFetch(r)' \/ Announced(r)' \/ loop \in {"connect", "poll"})
      BY <2>2 DEF LackInv
    <3>1. cloud[r].version # 0 /\ cloud[r].stamp >= 0
      BY DEF IInv, TypeOK
    <3>2. CASE Family[r] = f
      <4>1. cloud[r].stamp >= cursor
        <5>1. CASE cursor = 0
          BY <3>1, <5>1
        <5>2. CASE cursor # 0
          <6>1. ~Missable(r) /\ cursor = watermark[f]
            BY <1>1, <1>6, <1>13, <5>2 DEF Missable, history
          <6>2. ~Found(r)
            BY <1>1, <1>13 DEF Found
          <6> QED
            BY <3>2, <6>1, <6>2 DEF IInv, LackInv, Ahead
        <5> QED
          BY <5>1, <5>2
      <4>2. CopyOf(r) \in Since(f, cursor)
        BY <3>1, <3>2, <4>1, <1>2
      <4> QED
        BY <4>2, <1>3, <1>4, <2>1, <2>2 DEF Found, CopyOf
    <3>3. CASE Family[r] # f
      <4>1. ~Missable(r)
        BY <3>3, <1>1 DEF Missable, history
      <4>2. ~Found(r)
        BY <1>1, <1>13 DEF Found
      <4>3. Ahead(r) /\ (ToFetch(r) \/ Announced(r) \/ loop \in {"connect", "poll"})
        BY <4>1, <4>2 DEF IInv, LackInv
      <4>4. Ahead(r)'
        BY <4>3, <3>3, <1>3, <2>1, <2>2 DEF Ahead
      <4>5. Announced(r) => Announced(r)'
        BY <2>2 DEF Announced
      <4>6. ToFetch(r) => ToFetch(r)'
        <5>1. todo["loop"][1] = f
          BY <1>1, <1>13 DEF IInv, TypeOK, Puller
        <5>2. \A k \in 1 .. Len(todo["loop"]) : k # 1 => k > 1
          OBVIOUS
        <5> QED
          BY <3>3, <5>1, <5>2, <2>2 DEF ToFetch
      <4> QED
        BY <4>3, <4>4, <4>5, <4>6
    <3> QED
      BY <3>2, <3>3
  <2> QED
    BY <1>9, <1>11, <2>3, <2>4, <2>5 DEF IInv
<1> QED
  BY <1>5, <1>12, <1>13


LEMMA FetchFailsKeeps ==
  ASSUME IInv, NEW w \in Puller, NEW f \in FamilyName, FetchFails(w, f)
  PROVE  IInv'
<1>1. /\ todo[w] # <<>> /\ reply[w] = NoReply /\ f = Head(todo[w])
      /\ Proceed(w)
      /\ UNCHANGED <<storeVars, known, reply, watermark, notes, late>>
      /\ IF w = "loop" THEN Counted /\ failed' = failed \cup {f} ELSE UNCHANGED <<refreshes, failed>>
  BY DEF FetchFails, Wants
<1>2. /\ todo' \in [Puller -> Seq(FamilyName)]
      /\ \A v \in Puller : v # w => todo'[v] = todo[v]
      /\ Len(todo'[w]) = Len(todo[w]) - 1 /\ Len(todo[w]) \in Nat
      /\ \A k \in 1 .. Len(todo[w]) - 1 : todo'[w][k] = todo[w][k + 1]
      /\ loop' \in {"down", "connect", "greet", "live", "poll"}
      /\ loop # "down" /\ loop' # "down"
      /\ loop' \in {"down", "connect"} => todo'["loop"] = <<>>
      /\ loop \in {"connect", "poll"} => loop' \in {"connect", "poll"}
  BY <1>1, ProceedFacts DEF IInv
<1>3. w = "boot" \/ w = "loop"
  BY DEF Puller
<1>4. refreshes' \in 0 .. FullRefreshEvery - 1
  <2>1. refreshes \in Nat /\ FullRefreshEvery \in Nat \ {0}
    BY PullAssumption DEF IInv, TypeOK
  <2>2. (refreshes + 1) % FullRefreshEvery \in 0 .. FullRefreshEvery - 1
    BY <2>1
  <2> QED
    BY <1>1, <2>2 DEF IInv, TypeOK, Counted
<1>5. TypeOK'
  BY <1>1, <1>2, <1>4 DEF IInv, TypeOK, storeVars
<1>6. ReplyInv'
  BY <1>1, <1>2 DEF IInv, ReplyInv
<1>7. CASE w = "boot"
  <2>1. todo'["loop"] = todo["loop"] /\ loop' = loop
    BY <1>1, <1>2, <1>7 DEF Puller, Proceed
  <2>2. UNCHANGED <<cloud, clock, watermark, notes, late, failed, known, reply>>
    BY <1>1, <1>7 DEF storeVars
  <2>3. clock' >= clock /\ \A r \in Record : known'[r] >= known[r]
    BY <2>2 DEF IInv, TypeOK
  <2>4. StampInv' /\ DownInv' /\ LackInv'
    BY <1>5, <2>1, <2>2, <2>3, Beside
  <2> QED
    BY <1>5, <1>6, <2>4 DEF IInv
<1>8. CASE w = "loop"
  <2>1. UNCHANGED <<cloud, clock, watermark, notes, known, reply, late>> /\ failed' = failed \cup {f}
    BY <1>1, <1>8 DEF storeVars
  <2>2. StampInv'
    BY <2>1 DEF IInv, StampInv
  <2>3. DownInv'
    BY <1>2, <2>1 DEF IInv, DownInv
  <2>4. LackInv'
    <3> SUFFICES ASSUME loop # "down", NEW r \in Record,
                        known[r] < cloud[r].version, ~Missable(r)'
                 PROVE  Ahead(r)' /\ (ToFetch(r)' \/ Announced(r)' \/ loop' \in {"connect", "poll"})
      BY <1>2, <2>1 DEF LackInv
    <3>1. ~Missable(r) /\ Family[r] # f
      BY <2>1 DEF Missable
    <3>2. ~Found(r)
      BY <1>1, <1>8 DEF Found
    <3>3. Ahead(r) /\ (ToFetch(r) \/ Announced(r) \/ loop \in {"connect", "poll"})
      BY <3>1, <3>2 DEF IInv, LackInv
    <3>4. Ahead(r)' /\ (Announced(r) => Announced(r)')
      BY <3>3, <2>1 DEF Ahead, Announced
    <3>5. ToFetch(r) => ToFetch(r)'
      <4> SUFFICES ASSUME NEW k \in 1 .. Len(todo["loop"]), todo["loop"][k] = Family[r]
                   PROVE  ToFetch(r)'
        BY DEF ToFetch
      <4>1. todo["loop"][1] = f
        BY <1>1, <1>8 DEF IInv, TypeOK, Puller
      <4>2. k - 1 \in 1 .. Len(todo["loop"]) - 1 /\ (k - 1) + 1 = k
        BY <4>1, <3>1, <1>2, <1>8
      <4>3. todo'["loop"][k - 1] = Family[r]
        BY <4>2, <1>2, <1>8
      <4> QED
        BY <4>2, <4>3, <1>1, <1>2, <1>8 DEF ToFetch
    <3> QED
      BY <3>3, <3>4, <3>5, <1>2
  <2> QED
    BY <1>5, <1>6, <2>2, <2>3, <2>4 DEF IInv
<1> QED
  BY <1>3, <1>7, <1>8

LEMMA ApplyKeeps ==
  ASSUME IInv, NEW w \in Puller, Apply(w)
  PROVE  IInv'
<1> DEFINE f == reply[w].family
           copies == reply[w].copies
<1>1. /\ reply[w] # NoReply /\ Merge(copies) /\ Proceed(w)
      /\ IF w = "loop" THEN Advance(f, copies) ELSE UNCHANGED watermark
      /\ reply' = [reply EXCEPT ![w] = NoReply]
      /\ UNCHANGED <<storeVars, refreshes, notes, history>>
  BY DEF Apply
<1>2. f \in FamilyName /\ copies \in SUBSET Copy
  BY <1>1, Replies DEF IInv
<1>3. todo[w] # <<>> /\ f = Head(todo[w])
  BY <1>1 DEF IInv, ReplyInv
<1>4. /\ todo' \in [Puller -> Seq(FamilyName)]
      /\ \A v \in Puller : v # w => todo'[v] = todo[v]
      /\ Len(todo'[w]) = Len(todo[w]) - 1 /\ Len(todo[w]) \in Nat
      /\ \A k \in 1 .. Len(todo[w]) - 1 : todo'[w][k] = todo[w][k + 1]
      /\ loop' \in {"down", "connect", "greet", "live", "poll"}
      /\ loop # "down" /\ loop' # "down"
      /\ loop' \in {"down", "connect"} => todo'["loop"] = <<>>
      /\ loop \in {"connect", "poll"} => loop' \in {"connect", "poll"}
  BY <1>1, <1>3, ProceedFacts DEF IInv
<1>5. w = "boot" \/ w = "loop"
  BY DEF Puller
<1> HIDE DEF f, copies
<1>6. /\ known' \in [Record -> 0 .. Versions + 1]
      /\ \A r \in Record : known'[r] >= known[r]
      /\ \A c \in copies : known'[c.record] >= c.version
  BY <1>1, <1>2, MergeFacts DEF IInv, TypeOK
<1>7. w = "loop" =>
        /\ watermark' \in [FamilyName -> 0 .. MaxClock]
        /\ \A g \in FamilyName : g # f => watermark'[g] = watermark[g]
        /\ \A b \in 0 .. MaxClock :
             watermark[f] <= b /\ (\A c \in copies : c.stamp <= b) => watermark'[f] <= b
  BY <1>1, <1>2, AdvanceFacts DEF IInv, TypeOK
<1>8. watermark' \in [FamilyName -> 0 .. MaxClock]
  BY <1>1, <1>5, <1>7 DEF IInv, TypeOK
<1>9. \A v \in Puller : reply'[v] = IF v = w THEN NoReply ELSE reply[v]
  BY <1>1 DEF IInv, TypeOK
<1>10. TypeOK'
  BY <1>1, <1>4, <1>6, <1>8 DEF IInv, TypeOK, storeVars, history
<1>11. ReplyInv'
  BY <1>4, <1>9 DEF IInv, ReplyInv
<1>12. CASE w = "boot"
  <2>1. todo'["loop"] = todo["loop"] /\ loop' = loop /\ reply'["loop"] = reply["loop"]
    BY <1>1, <1>4, <1>9, <1>12 DEF Puller, Proceed
  <2>2. UNCHANGED <<cloud, clock, watermark, notes, late, failed>> /\ clock' >= clock
    BY <1>1, <1>12 DEF storeVars, history, IInv, TypeOK
  <2>3. StampInv' /\ DownInv' /\ LackInv'
    BY <1>6, <1>10, <2>1, <2>2, Beside
  <2> QED
    BY <1>6, <1>10, <1>11, <2>3 DEF IInv
<1>13. CASE w = "loop"
  <2>1. UNCHANGED <<cloud, clock, notes, late, failed>> /\ reply'["loop"] = NoReply
    BY <1>1, <1>9, <1>13 DEF storeVars, history, Puller
  <2>2. /\ loop \notin {"down", "connect"}
        /\ todo["loop"][1] = f /\ reply["loop"] # NoReply
        /\ f = reply["loop"].family /\ copies = reply["loop"].copies
    BY <1>1, <1>3, <1>13 DEF IInv, ReplyInv, TypeOK, Puller, f, copies
  <2>3. StampInv'
    <3>1. \A g \in FamilyName : watermark'[g] <= clock
      <4>1. clock \in 0 .. MaxClock
        BY PullAssumption DEF IInv, TypeOK
      <4> QED
        BY <4>1, <1>7, <1>13, <2>2 DEF IInv, StampInv
    <3> QED
      BY <2>1, <3>1 DEF IInv, StampInv
  <2>4. DownInv'
    BY <1>4, <2>2 DEF DownInv
  <2>5. LackInv'
    <3> SUFFICES ASSUME NEW r \in Record, known'[r] < cloud[r].version, ~Missable(r)
                 PROVE  Ahead(r)' /\ (ToFetch(r)' \/ Announced(r)' \/ loop' \in {"connect", "poll"})
      BY <2>1 DEF LackInv, Missable
    <3>1. known[r] < cloud[r].version
      BY <1>6 DEF IInv, TypeOK
    <3>2. ~Found(r)
      <4>1. ASSUME CopyOf(r) \in copies
            PROVE  FALSE
        <5>1. CopyOf(r).record = r /\ CopyOf(r).version = cloud[r].version
          BY DEF CopyOf
        <5>2. known'[r] >= cloud[r].version
          BY <4>1, <5>1, <1>6
        <5> QED
          BY <5>2, <1>6 DEF IInv, TypeOK
      <4> QED
        BY <4>1, <2>2 DEF Found
    <3>3. Ahead(r) /\ (ToFetch(r) \/ Announced(r) \/ loop \in {"connect", "poll"})
      BY <3>1, <3>2, <2>2 DEF IInv, LackInv
    <3>4. Ahead(r)'
      <4>1. cloud[r].stamp \in 0 .. MaxClock /\ Family[r] \in FamilyName
        BY PullAssumption DEF IInv, TypeOK
      <4>2. cloud[r].stamp >= watermark'[Family[r]]
        <5>1. CASE Family[r] = f
          <6>1. watermark[f] <= cloud[r].stamp /\ \A c \in copies : c.stamp <= cloud[r].stamp
            BY <3>3, <5>1, <2>2 DEF Ahead
          <6>2. watermark'[f] <= cloud[r].stamp
            BY <6>1, <4>1, <1>7, <1>13
          <6> QED
            BY <6>2, <5>1
        <5>2. CASE Family[r] # f
          BY <3>3, <4>1, <5>2, <1>7, <1>13 DEF Ahead
        <5> QED
          BY <5>1, <5>2
      <4> QED
        BY <4>2, <2>1 DEF Ahead
    <3>5. Announced(r) => Announced(r)'
      BY <2>1 DEF Announced
    <3>6. ToFetch(r) => ToFetch(r)'
      <4> SUFFICES ASSUME NEW k \in 1 .. Len(todo["loop"]), todo["loop"][k] = Family[r], k > 1
                   PROVE  ToFetch(r)'
        BY <2>2 DEF ToFetch
      <4>2. k - 1 \in 1 .. Len(todo["loop"]) - 1 /\ (k - 1) + 1 = k
        BY <1>4, <1>13
      <4>3. todo'["loop"][k - 1] = Family[r]
        BY <4>2, <1>4, <1>13
      <4> QED
        BY <4>2, <4>3, <1>4, <2>1, <1>13 DEF ToFetch
    <3> QED
      BY <3>3, <3>4, <3>5, <3>6, <1>4
  <2> QED
    BY <1>6, <1>10, <1>11, <2>3, <2>4, <2>5 DEF IInv
<1> QED
  BY <1>5, <1>12, <1>13


LEMMA NoteKeeps ==
  ASSUME IInv, HandleNote
  PROVE  IInv'
<1> DEFINE copy == notes[1].copy
           f == Family[copy.record]
           n == Len(notes)
<1>1. /\ notes \in Seq(Note) /\ notes # <<>> /\ n \in Nat /\ n > 0 /\ Head(notes) = notes[1]
      /\ notes[1] \in Note
  BY DEF IInv, TypeOK, HandleNote
<1>2. /\ Tail(notes) \in Seq(Note) /\ Len(Tail(notes)) = n - 1
      /\ \A i \in 1 .. n - 1 : Tail(notes)[i] = notes[i + 1]
  BY <1>1, TailFacts
<1>3. copy \in Copy /\ copy.record \in Record /\ f \in FamilyName /\ {copy} \in SUBSET Copy
  BY <1>1, PullAssumption DEF Note, Copy
<1>4. /\ loop = "live" /\ todo["loop"] = <<>>
      /\ \/ todo' = [todo EXCEPT !["loop"] = <<f>>] /\ UNCHANGED <<known, watermark>>
            /\ notes[1].bare
         \/ Merge({copy}) /\ Advance(f, {copy}) /\ UNCHANGED todo
      /\ notes' = Tail(notes)
      /\ UNCHANGED <<storeVars, loop, reply, refreshes, history>>
  BY <1>1 DEF HandleNote
<1>5. reply["loop"] = NoReply
  BY <1>4 DEF IInv, ReplyInv, Puller
<1> HIDE DEF copy, f, n
<1>6. /\ known' \in [Record -> 0 .. Versions + 1]
      /\ \A r \in Record : known'[r] >= known[r]
      /\ watermark' \in [FamilyName -> 0 .. MaxClock]
      /\ \A g \in FamilyName : g # f => watermark'[g] = watermark[g]
      /\ \A b \in 0 .. MaxClock :
           watermark[f] <= b /\ copy.stamp <= b => watermark'[f] <= b
      /\ todo' \in [Puller -> Seq(FamilyName)] /\ todo'["boot"] = todo["boot"]
      /\ \/ /\ Len(todo'["loop"]) = 1 /\ todo'["loop"][1] = f
         \/ /\ todo' = todo /\ known'[copy.record] >= copy.version
  <2>1. CASE todo' = [todo EXCEPT !["loop"] = <<f>>] /\ UNCHANGED <<known, watermark>>
    <3>1. <<f>> \in Seq(FamilyName) /\ Len(<<f>>) = 1 /\ <<f>>[1] = f
      BY <1>3
    <3>2. todo'["loop"] = <<f>> /\ todo' \in [Puller -> Seq(FamilyName)]
            /\ todo'["boot"] = todo["boot"]
      BY <2>1, <3>1 DEF IInv, TypeOK, Puller
    <3>3. \A r \in Record : known'[r] >= known[r]
      BY <2>1 DEF IInv, TypeOK
    <3> QED
      BY <2>1, <3>1, <3>2, <3>3 DEF IInv, TypeOK
  <2>2. CASE Merge({copy}) /\ Advance(f, {copy}) /\ UNCHANGED todo
    <3>1. /\ known' \in [Record -> 0 .. Versions + 1]
          /\ \A r \in Record : known'[r] >= known[r]
          /\ known'[copy.record] >= copy.version
      BY <1>3, <2>2, MergeFacts DEF IInv, TypeOK
    <3>2. /\ watermark' \in [FamilyName -> 0 .. MaxClock]
          /\ \A g \in FamilyName : g # f => watermark'[g] = watermark[g]
          /\ \A b \in 0 .. MaxClock :
               watermark[f] <= b /\ (\A c \in {copy} : c.stamp <= b) => watermark'[f] <= b
      BY <1>3, <2>2, AdvanceFacts DEF IInv, TypeOK
    <3> QED
      BY <2>2, <3>1, <3>2 DEF IInv, TypeOK
  <2> QED
    BY <1>4, <2>1, <2>2
<1>7. UNCHANGED <<cloud, clock, loop, reply, refreshes, late, failed>>
  BY <1>4 DEF storeVars, history
<1>8. TypeOK'
  BY <1>2, <1>4, <1>6, <1>7 DEF IInv, TypeOK
<1>9. ReplyInv'
  BY <1>4, <1>5, <1>6, <1>7 DEF IInv, ReplyInv, Puller
<1>10. StampInv'
  <2>1. \A g \in FamilyName : watermark'[g] <= clock
    <3>1. clock \in 0 .. MaxClock /\ watermark[f] <= clock /\ copy.stamp <= clock
      <4>1. 1 \in 1 .. n
        BY <1>1
      <4> QED
        BY <4>1, <1>3, PullAssumption DEF IInv, TypeOK, StampInv, copy, n
    <3> QED
      BY <3>1, <1>6 DEF IInv, StampInv
  <2>2. \A i \in 1 .. Len(notes') : notes'[i].copy.stamp <= clock
    <3>1. \A i \in 1 .. n - 1 : i + 1 \in 1 .. n
      BY <1>1
    <3> QED
      BY <3>1, <1>2, <1>4 DEF IInv, StampInv, n
  <2> QED
    BY <2>1, <2>2, <1>5, <1>7 DEF IInv, StampInv
<1>11. DownInv'
  BY <1>4 DEF DownInv
<1>12. LackInv'
  <2> SUFFICES ASSUME NEW r \in Record, known'[r] < cloud[r].version, ~Missable(r)
               PROVE  Ahead(r)' /\ (ToFetch(r)' \/ Announced(r)')
    BY <1>7 DEF LackInv, Missable
  <2>1. known[r] < cloud[r].version
    BY <1>6 DEF IInv, TypeOK
  <2>2. Ahead(r) /\ Announced(r)
    <3>1. ~Found(r)
      BY <1>5 DEF Found
    <3>2. ~ToFetch(r)
      <4>1. Len(todo["loop"]) = 0
        BY <1>4
      <4> QED
        BY <4>1 DEF ToFetch
    <3> QED
      BY <2>1, <3>1, <3>2, <1>4 DEF IInv, LackInv
  <2>3. PICK i \in 1 .. n :
          /\ notes[i].copy.record = r /\ notes[i].copy.version = cloud[r].version
          /\ \A j \in 1 .. i - 1 :
               Family[notes[j].copy.record] = Family[r] => notes[j].copy.stamp <= cloud[r].stamp
    BY <2>2 DEF Announced, n
  <2>4. cloud[r].stamp \in 0 .. MaxClock /\ Family[r] \in FamilyName
    BY PullAssumption DEF IInv, TypeOK
  <2>5. CASE i = 1
    <3>1. Len(todo'["loop"]) = 1 /\ todo'["loop"][1] = f /\ f = Family[r]
      <4>1. copy.record = r /\ copy.version = cloud[r].version
        BY <2>3, <2>5 DEF copy
      <4>2. ~(known'[copy.record] >= copy.version)
        BY <4>1, <1>6 DEF IInv, TypeOK
      <4> QED
        BY <4>1, <4>2, <1>6 DEF f
    <3>2. ToFetch(r)'
      BY <3>1, <1>5, <1>7 DEF ToFetch
    <3>3. watermark' = watermark
      <4>1. todo' # todo
        BY <3>1, <1>4
      <4> QED
        BY <4>1, <1>4
    <3>4. Ahead(r)'
      BY <2>2, <3>3, <1>5, <1>7 DEF Ahead
    <3> QED
      BY <3>2, <3>4
  <2>6. CASE i # 1
    <3>1. i - 1 \in 1 .. n - 1 /\ (i - 1) + 1 = i /\ 1 \in 1 .. i - 1
      BY <1>1, <2>6
    <3>2. Family[r] = f => copy.stamp <= cloud[r].stamp
      BY <2>3, <3>1 DEF copy, f
    <3>3. Ahead(r)'
      <4>1. cloud[r].stamp >= watermark'[Family[r]]
        <5>1. CASE Family[r] = f
          BY <2>2, <2>4, <3>2, <5>1, <1>6 DEF Ahead
        <5>2. CASE Family[r] # f
          BY <2>2, <2>4, <5>2, <1>6 DEF Ahead
        <5> QED
          BY <5>1, <5>2
      <4> QED
        BY <4>1, <1>5, <1>7 DEF Ahead
    <3>4. Announced(r)'
      <4>1. notes'[i - 1] = notes[i] /\ Len(notes') = n - 1
        BY <3>1, <1>2, <1>4
      <4>2. \A j \in 1 .. (i - 1) - 1 : notes'[j] = notes[j + 1] /\ j + 1 \in 1 .. i - 1
        BY <3>1, <1>1, <1>2, <1>4
      <4>3. \A j \in 1 .. (i - 1) - 1 :
              Family[notes'[j].copy.record] = Family[r] => notes'[j].copy.stamp <= cloud[r].stamp
        BY <2>3, <4>2
      <4> QED
        BY <2>3, <3>1, <4>1, <4>3, <1>7 DEF Announced
    <3> QED
      BY <3>3, <3>4
  <2> QED
    BY <2>5, <2>6
<1> QED
  BY <1>6, <1>8, <1>9, <1>10, <1>11, <1>12 DEF IInv


LEMMA WriteKeeps ==
  ASSUME IInv, NEW r \in Record, Write(r)
  PROVE  IInv'
<1> DEFINE version == cloud[r].version + 1
           n == Len(notes)
<1>1. PICK stamp \in StampsOf(r), bare \in {FALSE, (r \in BareNotes)} :
        /\ cloud' = [cloud EXCEPT ![r] = [version |-> version, stamp |-> stamp]]
        /\ late' = IF stamp < clock /\ loop # "down" THEN late \cup {r} ELSE late \ {r}
        /\ IF Subscribed
           THEN notes' = Append(notes, [bare |-> bare,
                           copy |-> [record |-> r, version |-> version, stamp |-> stamp]])
           ELSE UNCHANGED notes
  BY DEF Write
<1> DEFINE copy == [record |-> r, version |-> version, stamp |-> stamp]
           note == [bare |-> bare, copy |-> copy]
<1>2. /\ UNCHANGED <<clock, known, loop, todo, reply, watermark, refreshes, failed>>
      /\ cloud[r].version < Versions
  BY DEF Write
<1>3. stamp \in 1 .. clock /\ clock \in 1 .. MaxClock
  BY DEF StampsOf, IInv, TypeOK
<1>4. stamp \in 1 .. MaxClock /\ version \in 1 .. Versions
  BY <1>2, <1>3, PullAssumption DEF IInv, TypeOK
<1> HIDE DEF version
<1>5. copy \in Copy
  BY <1>4 DEF Copy
<1>6. bare \in BOOLEAN
  <2>1. bare = FALSE \/ bare = (r \in BareNotes)
    OBVIOUS
  <2>2. (r \in BareNotes) \in BOOLEAN
    OBVIOUS
  <2> QED
    BY <2>1, <2>2, Zenon
<1>7. note \in Note
  <2> HIDE DEF copy
  <2> QED
    BY <1>5, <1>6 DEF Note
<1>8. copy.record = r /\ copy.version = version /\ copy.stamp = stamp /\ note.copy = copy
  OBVIOUS
<1> HIDE DEF copy, note
<1>9. IF Subscribed THEN notes' = Append(notes, note) ELSE notes' = notes
  BY <1>1 DEF copy, note
<1>10. /\ cloud' \in [Record -> [version : 0 .. Versions, stamp : 0 .. MaxClock]]
       /\ cloud'[r].version = version /\ cloud'[r].stamp = stamp
       /\ \A x \in Record : x # r => cloud'[x] = cloud[x]
  <2> DEFINE new == [version |-> version, stamp |-> stamp]
  <2>1. version \in 0 .. Versions /\ stamp \in 0 .. MaxClock
    BY <1>4
  <2>2. new \in [version : 0 .. Versions, stamp : 0 .. MaxClock]
          /\ new.version = version /\ new.stamp = stamp
    BY <2>1
  <2> HIDE DEF new
  <2>3. cloud' = [cloud EXCEPT ![r] = new]
    BY <1>1 DEF new
  <2> QED
    BY <2>2, <2>3 DEF IInv, TypeOK
<1>11. /\ notes \in Seq(Note) /\ n \in Nat
       /\ notes' \in Seq(Note)
       /\ \A i \in 1 .. n : notes'[i] = notes[i]
       /\ \/ notes' = notes /\ ~Subscribed
          \/ Len(notes') = n + 1 /\ notes'[n + 1] = note
  <2>1. notes \in Seq(Note)
    BY DEF IInv, TypeOK
  <2>2. CASE Subscribed
    BY <1>7, <1>9, <2>1, <2>2
  <2>3. CASE ~Subscribed
    BY <1>9, <2>1, <2>3
  <2> QED
    BY <2>2, <2>3
<1>12. TypeOK'
  BY <1>1, <1>2, <1>10, <1>11 DEF IInv, TypeOK
<1>13. ReplyInv'
  BY <1>2 DEF IInv, ReplyInv
<1>14. StampInv'
  <2>1. \A x \in Record : cloud'[x].stamp <= clock /\ (cloud'[x].version # 0 => cloud'[x].stamp > 0)
    BY <1>3, <1>10 DEF IInv, StampInv
  <2>2. \A i \in 1 .. Len(notes') : notes'[i].copy.stamp <= clock
    <3>1. \A i \in 1 .. n : notes'[i].copy.stamp <= clock
      BY <1>11 DEF IInv, StampInv
    <3>2. note.copy.stamp <= clock
      BY <1>3, <1>8
    <3> QED
      BY <3>1, <3>2, <1>11
  <2> QED
    BY <2>1, <2>2, <1>2 DEF IInv, StampInv
<1>15. DownInv'
  BY <1>2 DEF IInv, DownInv
<1>16. LackInv'
  <2> SUFFICES ASSUME loop # "down", NEW x \in Record,
                      known[x] < cloud'[x].version, ~Missable(x)'
               PROVE  \/ Found(x)'
                      \/ Ahead(x)' /\ (ToFetch(x)' \/ Announced(x)' \/ loop \in {"connect", "poll"})
    BY <1>2 DEF LackInv
  <2>1. CASE x # r
    <3>1. cloud'[x] = cloud[x] /\ ~Missable(x)
      BY <2>1, <1>1, <1>2, <1>10 DEF Missable
    <3>2. \/ Found(x)
          \/ Ahead(x) /\ (ToFetch(x) \/ Announced(x) \/ loop \in {"connect", "poll"})
      BY <3>1 DEF IInv, LackInv
    <3>3. Found(x) => Found(x)'
      BY <3>1, <1>2 DEF Found, CopyOf
    <3>4. Ahead(x) => Ahead(x)'
      BY <3>1, <1>2 DEF Ahead
    <3>5. ToFetch(x) => ToFetch(x)'
      BY <1>2 DEF ToFetch
    <3>6. Announced(x) => Announced(x)'
      <4> SUFFICES ASSUME Announced(x)
                   PROVE  Announced(x)'
        OBVIOUS
      <4>1. PICK i \in 1 .. n :
              /\ notes[i].copy.record = x /\ notes[i].copy.version = cloud[x].version
              /\ \A j \in 1 .. i - 1 :
                   Family[notes[j].copy.record] = Family[x] => notes[j].copy.stamp <= cloud[x].stamp
        BY DEF Announced
      <4>2. i \in 1 .. Len(notes') /\ \A j \in 1 .. i - 1 : j \in 1 .. n
        BY <1>11
      <4>3. notes'[i] = notes[i] /\ cloud'[x] = cloud[x]
        BY <4>1, <3>1, <1>11
      <4>4. \A j \in 1 .. i - 1 : notes'[j] = notes[j]
        BY <4>2, <1>11
      <4>5. \A j \in 1 .. i - 1 :
              Family[notes'[j].copy.record] = Family[x]
                => notes'[j].copy.stamp <= cloud'[x].stamp
        BY <4>1, <4>3, <4>4
      <4> QED
        BY <4>1, <4>2, <4>3, <4>5 DEF Announced
    <3> QED
      BY <3>2, <3>3, <3>4, <3>5, <3>6
  <2>2. CASE x = r
    <3>1. stamp = clock
      <4>1. r \notin late'
        BY <2>2 DEF Missable
      <4> QED
        BY <4>1, <1>1, <1>3
    <3>2. Ahead(r)'
      <4>1. cloud'[r].stamp >= watermark[Family[r]]
        BY <3>1, <1>10, PullAssumption DEF IInv, StampInv, TypeOK
      <4>2. reply["loop"] # NoReply => \A c \in reply["loop"].copies : c.stamp <= cloud'[r].stamp
        BY <3>1, <1>10 DEF IInv, StampInv
      <4> QED
        BY <4>1, <4>2, <1>2 DEF Ahead
    <3>3. CASE Subscribed
      <4>1. Len(notes') = n + 1 /\ notes'[n + 1] = note /\ n + 1 \in 1 .. n + 1
        BY <3>3, <1>11
      <4>2. \A j \in 1 .. n : notes'[j].copy.stamp <= cloud'[r].stamp
        BY <3>1, <1>10, <1>11 DEF IInv, StampInv
      <4>3. (n + 1) - 1 = n
        BY <1>11
      <4>4. Announced(r)'
        BY <4>1, <4>2, <4>3, <1>8, <1>10 DEF Announced
      <4> QED
        BY <2>2, <3>2, <4>4
    <3>4. CASE ~Subscribed
      BY <2>2, <3>2, <3>4 DEF Subscribed, IInv, TypeOK
    <3> QED
      BY <3>3, <3>4
  <2> QED
    BY <2>1, <2>2
<1> QED
  BY <1>12, <1>13, <1>14, <1>15, <1>16 DEF IInv

\* A refresh of everything is due to fetch whatever is lacking.
LEMMA RefreshKeeps ==
  ASSUME IInv, Connects \/ Polls
  PROVE  IInv'
<1>1. /\ loop = "connect" /\ loop' \in {"greet", "poll"}
      /\ todo' = [todo EXCEPT !["loop"] = Families]
      /\ UNCHANGED <<cloud, clock, known, reply, watermark, refreshes, notes, late, failed>>
  BY DEF Connects, Polls, RefreshAll, storeVars, history
<1>2. /\ todo' \in [Puller -> Seq(FamilyName)] /\ todo'["loop"] = Families
      /\ todo'["boot"] = todo["boot"]
  BY <1>1, AllFamilies DEF IInv, TypeOK, Puller
<1>3. reply["loop"] = NoReply
  BY <1>1 DEF IInv, ReplyInv, Puller
<1>4. TypeOK'
  BY <1>1, <1>2 DEF IInv, TypeOK
<1>5. ReplyInv'
  BY <1>1, <1>2, <1>3 DEF IInv, ReplyInv, Puller
<1>6. StampInv'
  BY <1>1 DEF IInv, StampInv
<1>7. DownInv'
  BY <1>1 DEF DownInv
<1>8. LackInv'
  <2> SUFFICES ASSUME NEW r \in Record, known[r] < cloud[r].version, ~Missable(r)
               PROVE  Ahead(r)' /\ ToFetch(r)'
    BY <1>1 DEF LackInv, Missable
  <2>1. Ahead(r)
    BY <1>1, <1>3 DEF IInv, LackInv, Found
  <2>2. Ahead(r)'
    BY <2>1, <1>1 DEF Ahead
  <2>3. Family[r] \in FamilyName
    BY PullAssumption
  <2>4. ToFetch(r)'
    BY <2>3, <1>1, <1>2, <1>3, AllFamilies DEF ToFetch
  <2> QED
    BY <2>2, <2>4
<1> QED
  BY <1>4, <1>5, <1>6, <1>7, <1>8 DEF IInv

LEMMA StreamClosesKeeps ==
  ASSUME IInv, StreamCloses
  PROVE  IInv'
<1>1. /\ loop = "live" /\ loop' = "connect" /\ todo["loop"] = <<>> /\ notes' = <<>>
      /\ UNCHANGED <<cloud, clock, known, todo, reply, watermark, refreshes, late, failed>>
  BY DEF StreamCloses, storeVars, history
<1>2. notes' \in Seq(Note) /\ 1 .. Len(notes') = {}
  BY <1>1
<1>3. TypeOK'
  BY <1>1, <1>2 DEF IInv, TypeOK
<1>4. ReplyInv'
  BY <1>1 DEF IInv, ReplyInv
<1>5. StampInv'
  BY <1>1, <1>2 DEF IInv, StampInv
<1>6. DownInv'
  BY <1>1 DEF DownInv
<1>7. LackInv'
  <2> SUFFICES ASSUME NEW r \in Record, known[r] < cloud[r].version, ~Missable(r)
               PROVE  Found(r)' \/ Ahead(r)'
    BY <1>1 DEF LackInv, Missable
  <2>1. Found(r) \/ Ahead(r)
    BY <1>1 DEF IInv, LackInv
  <2> QED
    BY <2>1, <1>1 DEF Ahead, Found, CopyOf
<1> QED
  BY <1>3, <1>4, <1>5, <1>6, <1>7 DEF IInv

LEMMA BootKeeps ==
  ASSUME IInv, Boot
  PROVE  IInv'
<1>1. /\ loop = "down" /\ loop' = "connect"
      /\ todo' = [todo EXCEPT !["boot"] = Families]
      /\ UNCHANGED <<cloud, clock, known, reply, watermark, refreshes, notes, late, failed>>
  BY DEF Boot, storeVars, history
<1>2. /\ todo' \in [Puller -> Seq(FamilyName)] /\ todo'["boot"] = Families
      /\ todo'["loop"] = todo["loop"] /\ todo["loop"] = <<>>
  BY <1>1, AllFamilies DEF IInv, TypeOK, ReplyInv, Puller
<1>3. reply["loop"] = NoReply
  BY <1>2 DEF IInv, ReplyInv, Puller
<1>4. TypeOK'
  BY <1>1, <1>2 DEF IInv, TypeOK
<1>5. ReplyInv'
  <2>1. \A w \in Puller : reply[w] = NoReply
    BY <1>1 DEF IInv, ReplyInv, Puller
  <2> QED
    BY <2>1, <1>1, <1>2 DEF ReplyInv, Puller
<1>6. StampInv'
  BY <1>1 DEF IInv, StampInv
<1>7. DownInv'
  BY <1>1 DEF DownInv
<1>8. LackInv'
  <2> SUFFICES ASSUME NEW r \in Record
               PROVE  Ahead(r)'
    BY <1>1 DEF LackInv
  <2>1. watermark[Family[r]] = 0 /\ cloud[r].stamp >= 0
    BY <1>1, PullAssumption DEF IInv, DownInv, TypeOK
  <2> QED
    BY <2>1, <1>1, <1>3 DEF Ahead
<1> QED
  BY <1>4, <1>5, <1>6, <1>7, <1>8 DEF IInv

LEMMA CrashKeeps ==
  ASSUME IInv, Crash
  PROVE  IInv'
<1>1. /\ loop' = "down" /\ notes' = <<>>
      /\ todo' = [w \in Puller |-> <<>>] /\ reply' = [w \in Puller |-> NoReply]
      /\ watermark' = [f \in FamilyName |-> 0] /\ refreshes' = 0
      /\ late' = {} /\ failed' = {}
      /\ UNCHANGED <<cloud, clock, known>>
  BY DEF Crash, storeVars
<1>2. \A w \in Puller : todo'[w] = <<>> /\ reply'[w] = NoReply
  BY <1>1
<1>3. "loop" \in Puller /\ "boot" \in Puller
  BY DEF Puller
<1>4. notes' \in Seq(Note) /\ 1 .. Len(notes') = {} /\ <<>> \in Seq(FamilyName)
  BY <1>1
<1>5. TypeOK'
  BY <1>1, <1>4, PullAssumption DEF IInv, TypeOK
<1>6. ReplyInv'
  BY <1>1, <1>2, <1>3 DEF ReplyInv
<1>7. StampInv'
  <2>1. \A f \in FamilyName : watermark'[f] <= clock
    BY <1>1 DEF IInv, TypeOK
  <2> QED
    BY <2>1, <1>1, <1>2, <1>3, <1>4 DEF IInv, StampInv
<1>8. DownInv' /\ LackInv'
  BY <1>1 DEF DownInv, LackInv
<1> QED
  BY <1>5, <1>6, <1>7, <1>8 DEF IInv

LEMMA InitIInv ==
  ASSUME Init
  PROVE  IInv
<1>1. \A w \in Puller : todo[w] = <<>> /\ reply[w] = NoReply
  BY DEF Init
<1>2. "loop" \in Puller /\ "boot" \in Puller
  BY DEF Puller
<1>3. notes \in Seq(Note) /\ 1 .. Len(notes) = {} /\ <<>> \in Seq(FamilyName)
  BY DEF Init
<1>4. TypeOK
  <2>1. cloud \in [Record -> [version : 0 .. Versions, stamp : 0 .. MaxClock]]
    <3> DEFINE none == [version |-> 0, stamp |-> 0]
    <3>1. none \in [version : 0 .. Versions, stamp : 0 .. MaxClock]
      BY PullAssumption
    <3> HIDE DEF none
    <3>2. cloud = [r \in Record |-> none]
      BY DEF Init, none
    <3> QED
      BY <3>1, <3>2
  <2> QED
    BY <2>1, <1>3, PullAssumption DEF Init, TypeOK
<1>5. ReplyInv
  BY <1>1, <1>2 DEF ReplyInv
<1>6. StampInv
  <2>1. \A r \in Record : cloud[r].stamp = 0 /\ cloud[r].version = 0
    BY DEF Init
  <2>2. clock = 1 /\ \A f \in FamilyName : watermark[f] = 0
    BY DEF Init
  <2> QED
    BY <2>1, <2>2, <1>1, <1>2, <1>3 DEF StampInv
<1>7. DownInv /\ LackInv
  BY DEF Init, DownInv, LackInv
<1> QED
  BY <1>4, <1>5, <1>6, <1>7 DEF IInv

LEMMA StutterKeeps ==
  ASSUME IInv, UNCHANGED vars
  PROVE  IInv'
<1>1. UNCHANGED <<cloud, clock, known, loop, todo, reply, watermark, refreshes, notes,
                  late, failed>>
  BY DEF vars, storeVars, loopVars, history
<1>2. TypeOK'
  BY <1>1 DEF IInv, TypeOK
<1>3. ReplyInv'
  BY <1>1 DEF IInv, ReplyInv
<1>4. \A r \in Record : known'[r] >= known[r]
  BY <1>1 DEF IInv, TypeOK
<1>5. clock' >= clock
  BY <1>1 DEF IInv, TypeOK
<1>6. StampInv' /\ DownInv' /\ LackInv'
  BY <1>1, <1>2, <1>4, <1>5, Beside
<1> QED
  BY <1>2, <1>3, <1>4, <1>6 DEF IInv

\* So does every step.
LEMMA StepKeeps ==
  ASSUME IInv, [Next]_vars
  PROVE  IInv'
<1>1. ASSUME NEW r \in Record, Write(r) PROVE IInv'
  BY <1>1, WriteKeeps
<1>2. ASSUME NEW r \in Record, LocalEdit(r) PROVE IInv'
  BY <1>2, EditKeeps
<1>3. CASE TimePasses
  BY <1>3, TimeKeeps
<1>4. ASSUME NEW w \in Puller, Apply(w) PROVE IInv'
  BY <1>4, ApplyKeeps
<1>5. ASSUME NEW w \in Puller, NEW f \in FamilyName, Fetch(w, f) PROVE IInv'
  BY <1>5, FetchKeeps
<1>6. ASSUME NEW w \in Puller, NEW f \in FamilyName, FetchFails(w, f) PROVE IInv'
  BY <1>6, FetchFailsKeeps
<1>7. CASE HandleNote
  BY <1>7, NoteKeeps
<1>8. CASE Connects \/ Polls
  BY <1>8, RefreshKeeps
<1>9. CASE StreamCloses
  BY <1>9, StreamClosesKeeps
<1>10. CASE Boot
  BY <1>10, BootKeeps
<1>11. CASE Crash
  BY <1>11, CrashKeeps
<1>12. CASE UNCHANGED vars
  BY <1>12, StutterKeeps
<1> QED
  BY <1>1, <1>2, <1>3, <1>4, <1>5, <1>6, <1>7, <1>8, <1>9, <1>10, <1>11, <1>12 DEF Next

-----------------------------------------------------------------------------
(* The theorems.                                                            *)

\* The inductive invariant holds in every reachable state.
THEOREM Invariance == Spec => []IInv
<1>1. Init => IInv
  BY InitIInv
<1>2. IInv /\ [Next]_vars => IInv'
  BY StepKeeps
<1> QED
  BY <1>1, <1>2, PTL DEF Spec

\* Every variable keeps its type (cloud/pull.rs, cloud/events.rs).
THEOREM TypeCorrect == Spec => []TypeOK
<1>1. IInv => TypeOK
  BY DEF IInv
<1> QED
  BY <1>1, Invariance, PTL

\* A listening server that has read its notifications lacks only what entered the
\* store below the clock, or was in a fetch that failed (cloud/events.rs).
THEOREM MissesNothingElse == Spec => []NothingElseIsMissed
<1>1. IInv => NothingElseIsMissed
  <2> SUFFICES ASSUME IInv, loop = "live", todo["loop"] = <<>>, notes = <<>>,
                      NEW r \in Record, known[r] < cloud[r].version, ~Missable(r)
               PROVE  FALSE
    BY DEF NothingElseIsMissed
  <2>1. reply["loop"] = NoReply
    BY DEF IInv, ReplyInv, Puller
  <2>2. ~Found(r)
    BY <2>1 DEF Found
  <2>3. 1 .. Len(todo["loop"]) = {} /\ 1 .. Len(notes) = {}
    OBVIOUS
  <2>4. ~ToFetch(r) /\ ~Announced(r)
    BY <2>3 DEF ToFetch, Announced
  <2> QED
    BY <2>2, <2>4 DEF IInv, LackInv
<1> QED
  BY <1>1, Invariance, PTL
=============================================================================
