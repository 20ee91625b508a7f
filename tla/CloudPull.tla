------------------------------ MODULE CloudPull ------------------------------
(***************************************************************************)
(* How a server learns of what other machines pushed (cloud/pull.rs,       *)
(* cloud/events.rs): a full pull at boot, a refresh of every family at     *)
(* each connect and poll of the event loop, from a watermark but for every *)
(* FullRefreshEvery-th fetch, and while a stream is open one notification  *)
(* per record, which carries the record or only names its family.          *)
(*                                                                         *)
(* One server; the store and the other machines are external.  What is     *)
(* asked here is which records reach the server.  What its merges make of  *)
(* them is not: they are taken to order the versions of a record, which    *)
(* RoadmapStore and SignalStore show of theirs, and a think step, which    *)
(* ThinkStore's never replaces, has one version.  When the event loop      *)
(* polls is CloudPush's matter: here it may after any failure.  Saves are  *)
(* taken to succeed, so a restart finds what was known.                    *)
(***************************************************************************)
EXTENDS Integers, FiniteSetsExt, SequencesExt

CONSTANTS Record,            \* records of the workspace
          Family,            \* Family[r]: the family of record r
          Versions,          \* bound on the versions of a record at the store
          FullRefreshEvery,  \* FULL_REFRESH_EVERY
          LateBirths,        \* records whose first push may come long after their creation
          BareNotes,         \* records whose notifications may come without them
          MaxClock,          \* bound on the store's clock
          MaxNotes           \* bound on unread notifications

VARIABLES cloud,      \* cloud[r]: version and stamp of r at the store
          clock,      \* the store's clock
          known,      \* known[r]: the version the server holds, 0 for none
          loop,       \* where the event loop stands, "down" if the server is
          todo,       \* todo[w]: families that w, "boot" or "loop", has yet to pull
          reply,      \* reply[w]: the answer w has got and not applied
          watermark,  \* watermark[f]: the newest stamp of f the loop has seen
          refreshes,  \* the loop's fetches, modulo FullRefreshEvery
          notes,      \* notifications of the open stream, unread
          late,       \* history: records that entered below the clock, see Missable
          failed      \* history: families whose fetch failed, see Missable

storeVars == <<cloud, clock>>
loopVars == <<loop, watermark, refreshes, notes>>
history == <<late, failed>>
vars == <<storeVars, known, todo, reply, loopVars, history>>

\* In the order in which a refresh of everything takes them.
Families == <<"think", "roadmap", "signal">>
FamilyName == Range(Families)
Puller == {"boot", "loop"}

Copy == [record : Record, version : 1 .. Versions, stamp : 1 .. MaxClock]
Note == [copy : Copy, bare : BOOLEAN]
NoReply == [family |-> "none"]
Reply == [family : FamilyName, copies : SUBSET Copy]

ASSUME PullAssumption ==
  /\ Family \in [Record -> FamilyName]
  /\ Versions \in Nat
  /\ FullRefreshEvery \in Nat \ {0}
  /\ MaxClock \in Nat \ {0}

Init ==
  /\ cloud = [r \in Record |-> [version |-> 0, stamp |-> 0]]
  /\ clock = 1
  /\ known = [r \in Record |-> 0]
  /\ loop = "down"
  /\ todo = [w \in Puller |-> <<>>]
  /\ reply = [w \in Puller |-> NoReply]
  /\ watermark = [f \in FamilyName |-> 0]
  /\ refreshes = 0
  /\ notes = <<>>
  /\ late = {}
  /\ failed = {}

-----------------------------------------------------------------------------
(* The store and the other machines.                                        *)

CopyOf(r) == [record |-> r, version |-> cloud[r].version, stamp |-> cloud[r].stamp]

\* The store stamps each write but a record's first: that keeps the `created` of
\* the machine that made it.
StampsOf(r) == IF cloud[r].version = 0 /\ r \in LateBirths THEN 1 .. clock ELSE {clock}

Subscribed == loop \in {"greet", "live"}

\* A push of another machine arrives and is announced on the open stream.
Write(r) ==
  /\ cloud[r].version < Versions
  /\ \E stamp \in StampsOf(r), bare \in {FALSE, (r \in BareNotes)} :
       LET new == cloud[r].version + 1 IN
       /\ cloud' = [cloud EXCEPT ![r] = [version |-> new, stamp |-> stamp]]
       /\ late' = IF stamp < clock /\ loop # "down" THEN late \cup {r} ELSE late \ {r}
       /\ IF Subscribed
          THEN Len(notes) < MaxNotes /\
               notes' = Append(notes, [bare |-> bare,
                          copy |-> [record |-> r, version |-> new, stamp |-> stamp]])
          ELSE UNCHANGED notes
  /\ UNCHANGED <<clock, known, loop, todo, reply, watermark, refreshes, failed>>

TimePasses ==
  /\ clock < MaxClock
  /\ clock' = clock + 1
  /\ UNCHANGED <<cloud, known, todo, reply, loopVars, history>>

-----------------------------------------------------------------------------
(* Merging what came.                                                       *)

\* What the three families' merges promise: a record newer than the server's is taken,
\* and no other.
Merge(copies) ==
  known' = [r \in Record |->
              Max({known[r]} \cup {c.version : c \in {x \in copies : x.record = r}})]

\* The watermark rises to the newest stamp seen.
Advance(f, copies) ==
  watermark' = [watermark EXCEPT ![f] = Max({@} \cup {c.stamp : c \in copies})]

-----------------------------------------------------------------------------
(* Pulls.                                                                   *)

\* Mutant of Cursor: there is no safety net.
CursorAlways(f) == watermark[f]

\* Where the loop's next fetch of f begins, 0 for a full pull: before anything
\* was seen, and at every FullRefreshEvery-th fetch, whatever its family.
Cursor(f) == IF refreshes = 0 THEN 0 ELSE watermark[f]

\* Mutant of Since: the boundary is left out.
SinceExclusive(f, cursor) ==
  {CopyOf(r) : r \in {x \in Record : Family[x] = f /\ cloud[x].version # 0
                                     /\ cloud[x].stamp > cursor}}

Since(f, cursor) ==
  {CopyOf(r) : r \in {x \in Record : Family[x] = f /\ cloud[x].version # 0
                                     /\ cloud[x].stamp >= cursor}}

Counted == refreshes' = (refreshes + 1) % FullRefreshEvery

Wants(w, f) == todo[w] # <<>> /\ reply[w] = NoReply /\ f = Head(todo[w])

\* The boot pulls everything; the loop goes by its cursor.  A full fetch finds
\* whatever could have been missed.
Fetch(w, f) ==
  LET cursor == IF w = "boot" THEN 0 ELSE Cursor(f) IN
  /\ Wants(w, f)
  /\ reply' = [reply EXCEPT ![w] = [family |-> f, copies |-> Since(f, cursor)]]
  /\ IF w = "loop" THEN Counted ELSE UNCHANGED refreshes
  /\ IF w = "loop" /\ cursor = 0
     THEN late' = {r \in late : Family[r] # f} /\ failed' = failed \ {f}
     ELSE UNCHANGED history
  /\ UNCHANGED <<storeVars, known, loop, todo, watermark, notes>>

\* The loop that has refreshed everything listens, or tries to connect again.
Proceed(w) ==
  /\ todo' = [todo EXCEPT ![w] = Tail(@)]
  /\ loop' = IF w = "boot" \/ Len(todo[w]) > 1 THEN loop
             ELSE IF loop = "poll" THEN "connect" ELSE "live"

\* Any fetch may fail: it counts, and is left at that.
FetchFails(w, f) ==
  /\ Wants(w, f)
  /\ Proceed(w)
  /\ IF w = "loop" THEN Counted /\ failed' = failed \cup {f} ELSE UNCHANGED <<refreshes, failed>>
  /\ UNCHANGED <<storeVars, known, reply, watermark, notes, late>>

\* The answer is merged, which may be long after it was given.
Apply(w) ==
  /\ reply[w] # NoReply
  /\ Merge(reply[w].copies)
  /\ IF w = "loop" THEN Advance(reply[w].family, reply[w].copies) ELSE UNCHANGED watermark
  /\ reply' = [reply EXCEPT ![w] = NoReply]
  /\ Proceed(w)
  /\ UNCHANGED <<storeVars, refreshes, notes, history>>

\* A record that comes with its notification is merged and moves the watermark;
\* a notification without one has its family fetched.
HandleNote ==
  /\ loop = "live"
  /\ todo["loop"] = <<>>
  /\ notes # <<>>
  /\ LET copy == Head(notes).copy
         f == Family[copy.record]
     IN IF Head(notes).bare
        THEN todo' = [todo EXCEPT !["loop"] = <<f>>] /\ UNCHANGED <<known, watermark>>
        ELSE Merge({copy}) /\ Advance(f, {copy}) /\ UNCHANGED todo
  /\ notes' = Tail(notes)
  /\ UNCHANGED <<storeVars, loop, reply, refreshes, history>>

-----------------------------------------------------------------------------
(* The event loop, the server and its own edits.                            *)

RefreshAll(at) == loop' = at /\ todo' = [todo EXCEPT !["loop"] = Families]

Connects ==
  /\ loop = "connect"
  /\ RefreshAll("greet")
  /\ UNCHANGED <<storeVars, known, reply, watermark, refreshes, notes, history>>

Polls ==
  /\ loop = "connect"
  /\ RefreshAll("poll")
  /\ UNCHANGED <<storeVars, known, reply, watermark, refreshes, notes, history>>

\* What the stream had not delivered is lost.
StreamCloses ==
  /\ loop = "live" /\ todo["loop"] = <<>>
  /\ loop' = "connect"
  /\ notes' = <<>>
  /\ UNCHANGED <<storeVars, known, todo, reply, watermark, refreshes, history>>

\* An edit of a record the server has, newer than anything at the store; its push
\* may never arrive there.
LocalEdit(r) ==
  /\ loop # "down"
  /\ known[r] \in 1 .. Versions
  /\ known' = [known EXCEPT ![r] = @ + 1]
  /\ UNCHANGED <<storeVars, todo, reply, loopVars, history>>

Boot ==
  /\ loop = "down"
  /\ loop' = "connect"
  /\ todo' = [todo EXCEPT !["boot"] = Families]
  /\ UNCHANGED <<storeVars, known, reply, watermark, refreshes, notes, history>>

\* The watermarks and the counter live in memory, so the next fetches are full.
Crash ==
  /\ loop # "down"
  /\ loop' = "down"
  /\ todo' = [w \in Puller |-> <<>>]
  /\ reply' = [w \in Puller |-> NoReply]
  /\ watermark' = [f \in FamilyName |-> 0]
  /\ refreshes' = 0
  /\ notes' = <<>>
  /\ late' = {}
  /\ failed' = {}
  /\ UNCHANGED <<storeVars, known>>

Next ==
  \/ \E r \in Record : Write(r) \/ LocalEdit(r)
  \/ TimePasses
  \/ \E w \in Puller : Apply(w) \/ \E f \in FamilyName : Fetch(w, f) \/ FetchFails(w, f)
  \/ HandleNote
  \/ Connects \/ Polls \/ StreamCloses
  \/ Boot \/ Crash

Spec == Init /\ [][Next]_vars

\* What the event loop, one task, does next on its own: a fetch is answered or
\* fails, an answer is merged, a notification is read, and it tries to connect.
LoopStep ==
  \/ \E f \in FamilyName : Fetch("loop", f) \/ FetchFails("loop", f)
  \/ Apply("loop")
  \/ HandleNote
  \/ Connects \/ Polls

\* Nothing makes a fetch succeed, a stream close or the server boot.
FairSpec == Spec /\ WF_vars(LoopStep)

-----------------------------------------------------------------------------
(* Properties.                                                              *)

\* The types of the variables.
TypeOK ==
  /\ cloud \in [Record -> [version : 0 .. Versions, stamp : 0 .. MaxClock]]
  /\ clock \in 1 .. MaxClock
  /\ known \in [Record -> 0 .. Versions + 1]
  /\ loop \in {"down", "connect", "greet", "live", "poll"}
  /\ todo \in [Puller -> Seq(FamilyName)]
  /\ reply \in [Puller -> Reply \cup {NoReply}]
  /\ watermark \in [FamilyName -> 0 .. MaxClock]
  /\ refreshes \in 0 .. FullRefreshEvery - 1
  /\ notes \in Seq(Note)
  /\ late \subseteq Record
  /\ failed \subseteq FamilyName

\* What a listening server may lack once it has read its notifications: records
\* that entered the store below the clock and families whose fetch failed, until
\* their next full fetch.
Missable(r) == r \in late \/ Family[r] \in failed

\* Nothing else is missed, whatever was pushed while the server was away
\* (run_events_loop: "notifications missed while disconnected are never lost").
NothingElseIsMissed ==
  loop = "live" /\ todo["loop"] = <<>> /\ notes = <<>>
    => \A r \in Record : known[r] < cloud[r].version => Missable(r)

\* And those too come in time: a server that no longer crashes, whose fetches have
\* ceased to fail and which keeps refreshing everything knows what the store has.
Converges ==
  <>[][~ (Crash \/ \E f \in FamilyName : FetchFails("loop", f))]_vars
  /\ []<>(loop \in {"greet", "poll"})
    => <>[](\A r \in Record : known[r] >= cloud[r].version)
=============================================================================
