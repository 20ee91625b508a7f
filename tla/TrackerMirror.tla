--------------------------- MODULE TrackerMirror ---------------------------
(***************************************************************************)
(* A chunk of the roadmap and its work item in an external tracker:        *)
(* projection with replay of what failed (push_once in cli/mod.rs,         *)
(* tracker/project.rs, tracker/ownership.rs, tracker/outbox.rs), and the   *)
(* sweep that looks for what people changed over there (tracker/sweep.rs,  *)
(* tracker/echo.rs, tracker/concern.rs).                                   *)
(*                                                                         *)
(* A push and a sweep each load a copy of the roadmap of their own, talk   *)
(* to the tracker with no lock held, and save that copy when they have     *)
(* something to record; the server edits and saves its own.  The tracker   *)
(* and the people who use it are external; the calls are those of the      *)
(* adapters (tracker/github.rs, tracker/linear.rs).                        *)
(*                                                                         *)
(* Abstracted: one opted-in chunk, one provider, the default ownership     *)
(* table.  A work item is its title, which is contested, and its body,     *)
(* which is the plan's; the fields the team owns, containers, relations    *)
(* and the companion lane are left out.  A hash is what it is the hash of. *)
(* No two changes of items have one stamp, and a sweep reads the tracker's *)
(* clock where the code reads its own.                                     *)
(* A save is one step and does not fail (RoadmapStore has its steps and    *)
(* errors), nor does a change of the queue's file (CloudPush has the       *)
(* queue's) or the watermark's, except with the sweep that makes it.       *)
(***************************************************************************)
EXTENDS Integers, Sequences, FiniteSetsExt, SequencesExt

CONSTANTS Pusher,     \* processes that push: servers' cadences, the command line
          Sweeper,    \* processes that sweep: servers' doorbells, the command line
          Proposer,   \* those that may propose: a doorbell only does where that is switched on
          Inclusive,  \* whether what changed at the stamp asked for is in an answer
          Crowded,    \* whether more may have changed than one page has rows for
          Title,
          None,       \* no title proposal, nothing fetched, nothing queued
          MaxEdits,   \* bound on what people do, in the plan and in the tracker
          MaxFaults,  \* bound on failed calls and crashes
          MaxEvents   \* bound on both together

ASSUME MirrorAssumption ==
  /\ None \notin Title /\ Proposer \subseteq Sweeper
  /\ {Inclusive, Crowded} \subseteq BOOLEAN
  /\ {MaxEdits, MaxFaults, MaxEvents} \subseteq Nat

VARIABLES mem,     \* the server's copy of the roadmap
          file,    \* the roadmap's file
          run,     \* run[p]: the push of p under way
          sweep,   \* sweep[w]: the sweep of w under way
          items,   \* the tracker's items, an item's index being its id
          queue,   \* the queued projection of the chunk, or None
          mark,    \* the watermark
          now,     \* our clock: the last stamp given to the plan
          tick,    \* the tracker's: the last stamp given to an item
          edits, faults

vars == <<mem, file, run, sweep, items, queue, mark, now, tick, edits, faults>>

Max2(a, b) == IF a > b THEN a ELSE b

Content == [title : Title, body : Nat]

\* from and over are the reason's, which tells proposals of one title apart.
Proposal == [title : Title, over : Title, from : {"push", "sweep"}]
Chunk == [content : Content, proposal : Proposal \cup {None}, stamp : Nat]

\* The link's content and version are those of our last write; item 0 is no link.
NoLink == [item |-> 0, stamp |-> 0]
Link == {NoLink} \cup [item : Nat \ {0}, content : Content, version : Nat, stamp : Nat]
Roadmap == [chunk : Chunk, link : Link]

\* asked is history: whether a completed sweep asked for the item as it is.
Item == [content : Content, version : Nat, at : Nat, asked : BOOLEAN]
Entry == [item : Nat, content : Content]

IdleRun == [at |-> "idle"]
IdleSweep == [at |-> "idle"]

Init ==
  /\ \E t \in Title :
       mem = [chunk |-> [content |-> [title |-> t, body |-> 0], proposal |-> None,
                         stamp |-> 0],
              link |-> NoLink]
  /\ file = mem
  /\ run = [p \in Pusher |-> IdleRun]
  /\ sweep = [w \in Sweeper |-> IdleSweep]
  /\ items = <<>>
  /\ queue = None
  /\ mark = 0 /\ now = 0 /\ tick = 0 /\ edits = 0 /\ faults = 0

Stamped == now' = now + 1
Ticked == tick' = tick + 1
Room == edits + faults < MaxEvents
Fault == faults < MaxFaults /\ Room /\ faults' = faults + 1

-----------------------------------------------------------------------------
(* The roadmap's file.                                                      *)

\* The newer of two copies; a tie keeps memory's.
Newer(mine, onFile) == IF onFile.stamp > mine.stamp THEN onFile ELSE mine

Merge(mine, onFile) ==
  [chunk |-> Newer(mine.chunk, onFile.chunk), link |-> Newer(mine.link, onFile.link)]

\* The merged roadmap goes to the file only: memory does not learn from it.
Save(copy) == file' = Merge(copy, file)

\* propose_title: the same suggestion for the same reason changes nothing.
Proposed(copy, title, from) ==
  LET open == copy.chunk.proposal
      new == [title |-> title, over |-> copy.chunk.content.title, from |-> from]
  IN  IF open = new
      THEN copy
      ELSE [copy EXCEPT !.chunk.proposal = new, !.chunk.stamp = now + 1]

-----------------------------------------------------------------------------
(* The server: its tools edit its own copy.                                 *)

Edit(chunk) ==
  /\ edits < MaxEdits /\ Room /\ edits' = edits + 1
  /\ mem' = [mem EXCEPT !.chunk = [chunk EXCEPT !.stamp = now + 1]]
  /\ Save(mem')
  /\ Stamped
  /\ UNCHANGED <<run, sweep, items, queue, mark, tick, faults>>

\* A differing title disposes of the proposal.
Retitle(title) ==
  /\ title # mem.chunk.content.title
  /\ Edit([mem.chunk EXCEPT !.content.title = title, !.proposal = None])

Rewrite == Edit([mem.chunk EXCEPT !.content.body = @ + 1])

Resolve(accept) ==
  /\ mem.chunk.proposal # None
  /\ Edit([mem.chunk EXCEPT !.proposal = None,
                            !.content.title = IF accept THEN mem.chunk.proposal.title ELSE @])

\* A server starts on what is on file.
Restart ==
  /\ mem # file
  /\ mem' = file
  /\ UNCHANGED <<file, run, sweep, items, queue, mark, now, tick, edits, faults>>

-----------------------------------------------------------------------------
(* The tracker, external: one call each.                                    *)

\* upsert_item: an id patches that item, no id creates one.
Upserted(entry) ==
  IF entry.item = 0
  THEN Append(items, [content |-> entry.content, version |-> 1, at |-> tick + 1,
                      asked |-> FALSE])
  ELSE [items EXCEPT ![entry.item] =
          [content |-> entry.content, version |-> @.version + 1, at |-> tick + 1,
           asked |-> FALSE]]

\* What fetch_since means to ask for, and what the tracker takes that to be.
ChangedSince(since) == {i \in DOMAIN items : items[i].at >= since}
Window(since) == {i \in ChangedSince(since) : Inclusive \/ items[i].at # since}

\* What it gets: one page, never the next.  Pull requests and tickets that are not ours
\* take up rows too.
Page(page, since) == page = Window(since) \/ (Crowded /\ page \subseteq Window(since))

Touched(i, item) ==
  /\ edits < MaxEdits /\ Room /\ edits' = edits + 1
  /\ items' = [items EXCEPT ![i] = [item EXCEPT !.version = @ + 1, !.at = tick + 1,
                                                  !.asked = FALSE]]
  /\ Ticked
  /\ UNCHANGED <<mem, file, run, sweep, queue, mark, now, faults>>

HumanRetitles(i, title) ==
  /\ title # items[i].content.title
  /\ Touched(i, [items[i] EXCEPT !.content.title = title])

\* A comment, an assignee, a column: the version moves and the content does not.
HumanComments(i) == Touched(i, items[i])

-----------------------------------------------------------------------------
(* A push.                                                                  *)

To(p, next) == run' = [run EXCEPT ![p] = next]
Done(p) == To(p, IdleRun)

Linked(copy) == copy.link # NoLink
Unchanged(copy, content) == Linked(copy) /\ copy.link.content = content

\* load_roadmap_engine and the queue; what is queued is replayed first.  A push with
\* nothing to replay or to send changes nothing and is left out.
StartPush(p) ==
  /\ run[p].at = "idle"
  /\ queue # None \/ ~Unchanged(file, file.chunk.content)
  /\ To(p, [at |-> IF queue = None THEN "project" ELSE "replay", copy |-> file,
            since |-> tick, entry |-> queue])
  /\ UNCHANGED <<mem, file, sweep, items, queue, mark, now, tick, edits, faults>>

\* Only the entry that was sent leaves the queue; what came of it is not recorded.
Replay(p) ==
  /\ run[p].at = "replay"
  /\ items' = Upserted(run[p].entry)
  /\ queue' = IF queue = run[p].entry THEN None ELSE queue
  /\ To(p, [run[p] EXCEPT !.at = "project"])
  /\ Ticked
  /\ UNCHANGED <<mem, file, sweep, mark, now, edits, faults>>

\* No answer, whether or not the tracker took it: the entry stays.
ReplayFails(p) ==
  /\ run[p].at = "replay"
  /\ Fault
  /\ \/ UNCHANGED <<items, tick>>
     \/ items' = Upserted(run[p].entry) /\ Ticked
  /\ To(p, [run[p] EXCEPT !.at = "project"])
  /\ UNCHANGED <<mem, file, sweep, queue, mark, now, edits>>

\* A rejected entry is dropped.
ReplayRejected(p) ==
  /\ run[p].at = "replay"
  /\ Fault
  /\ queue' = IF queue = run[p].entry THEN None ELSE queue
  /\ To(p, [run[p] EXCEPT !.at = "project"])
  /\ UNCHANGED <<mem, file, sweep, items, mark, now, tick, edits>>

Concession(copy) ==
  IF copy.chunk.proposal = None THEN None ELSE copy.chunk.proposal.title

\* Mutant of ReconciledTitle: the concession is not read back.
TitleUnconceded(copy, seen) ==
  IF seen # None /\ seen.version # copy.link.version THEN seen.content.title
  ELSE copy.chunk.content.title

\* reconcile_fields on the title, the body being the plan's; seen is None on a create
\* and when the item could not be fetched.
ReconciledTitle(copy, seen) ==
  IF seen # None /\ seen.version # copy.link.version THEN seen.content.title
  ELSE IF Concession(copy) # None THEN Concession(copy)
  ELSE copy.chunk.content.title

Reconciled(copy, seen) == [copy.chunk.content EXCEPT !.title = ReconciledTitle(copy, seen)]

\* Nothing local changed since our last write: no call is made.
Skip(p) ==
  /\ run[p].at = "project"
  /\ Unchanged(run[p].copy, run[p].copy.chunk.content)
  /\ Done(p)
  /\ UNCHANGED <<mem, file, sweep, items, queue, mark, now, tick, edits, faults>>

Diverged(copy, seen) ==
  /\ seen # None /\ seen.version # copy.link.version
  /\ seen.content.title # copy.chunk.content.title

\* A contested title that moved away becomes a proposal on the chunk before it is sent.
Deliver(p, seen) ==
  LET copy == run[p].copy
      kept == IF Diverged(copy, seen) THEN Proposed(copy, seen.content.title, "push") ELSE copy
  IN  /\ To(p, [at |-> "send", copy |-> kept, since |-> run[p].since,
                entry |-> [item |-> copy.link.item, content |-> Reconciled(copy, seen)]])
      /\ IF kept = copy THEN UNCHANGED <<file, now>> ELSE Save(kept) /\ Stamped

\* Mutant of Decide: the second skip is missing.
DecideToSend(p, seen) == Deliver(p, seen)

\* What the policy decided is sent unless it is what we last wrote.
Decide(p, seen) ==
  IF Unchanged(run[p].copy, Reconciled(run[p].copy, seen))
  THEN Done(p) /\ UNCHANGED <<file, now>>
  ELSE Deliver(p, seen)

\* A chunk without a link is created.
ProjectNew(p) ==
  /\ run[p].at = "project" /\ ~Linked(run[p].copy)
  /\ Decide(p, None)
  /\ UNCHANGED <<mem, sweep, items, queue, mark, tick, edits, faults>>

\* fetch_one looks for the item in a page of all there are.
Fetch(p) ==
  /\ run[p].at = "project" /\ Linked(run[p].copy)
  /\ ~Unchanged(run[p].copy, run[p].copy.chunk.content)
  /\ \/ Decide(p, items[run[p].copy.link.item])
     \/ Crowded /\ Decide(p, None)
  /\ UNCHANGED <<mem, sweep, items, queue, mark, tick, edits, faults>>

\* unwrap_or(None): an item that cannot be read is taken to be absent.
FetchFails(p) ==
  /\ run[p].at = "project" /\ Linked(run[p].copy)
  /\ ~Unchanged(run[p].copy, run[p].copy.chunk.content)
  /\ Fault
  /\ Decide(p, None)
  /\ UNCHANGED <<mem, sweep, items, queue, mark, tick, edits>>

Send(p) ==
  LET entry == run[p].entry IN
  /\ run[p].at = "send"
  /\ items' = Upserted(entry)
  /\ To(p, [at |-> "sent", copy |-> run[p].copy,
            link |-> [item |-> IF entry.item = 0 THEN Len(items') ELSE entry.item,
                      content |-> entry.content,
                      version |-> IF entry.item = 0 THEN 1 ELSE items[entry.item].version + 1]])
  /\ Ticked
  /\ UNCHANGED <<mem, file, sweep, queue, mark, now, edits, faults>>

\* No answer: queued, in the place of an older entry of the chunk.
SendFails(p) ==
  /\ run[p].at = "send"
  /\ Fault
  /\ \/ UNCHANGED <<items, tick>>
     \/ items' = Upserted(run[p].entry) /\ Ticked
  /\ queue' = run[p].entry
  /\ Done(p)
  /\ UNCHANGED <<mem, file, sweep, mark, now, edits>>

SendRejected(p) ==
  /\ run[p].at = "send"
  /\ Fault
  /\ Done(p)
  /\ UNCHANGED <<mem, file, sweep, items, queue, mark, now, tick, edits>>

\* record_tracker_link stamps the link and the chunk and saves.
Record(p) ==
  LET link == run[p].link
      copy == [chunk |-> [run[p].copy.chunk EXCEPT !.stamp = now + 1],
               link |-> [item |-> link.item, content |-> link.content,
                         version |-> link.version, stamp |-> now + 1]]
  IN  /\ run[p].at = "sent"
      /\ Save(copy)
      /\ Done(p)
      /\ Stamped
      /\ UNCHANGED <<mem, sweep, items, queue, mark, tick, edits, faults>>

PushDies(p) ==
  /\ run[p].at # "idle"
  /\ Fault
  /\ Done(p)
  /\ UNCHANGED <<mem, file, sweep, items, queue, mark, now, tick, edits>>

-----------------------------------------------------------------------------
(* A sweep.                                                                 *)

SweepTo(w, next) == sweep' = [sweep EXCEPT ![w] = next]

\* The copy is read by those that may propose.  A change that is made from now on may
\* bear the stamp of the start.
StartSweep(w) ==
  /\ sweep[w].at = "idle"
  /\ SweepTo(w, [at |-> "fetch", copy |-> IF w \in Proposer THEN file ELSE None, start |-> tick + 1])
  /\ UNCHANGED <<mem, file, run, items, queue, mark, now, tick, edits, faults>>

\* classify: our own write by its version, or by its content.
Echo(copy, i) ==
  /\ Linked(copy) /\ copy.link.item = i
  /\ \/ items[i].version = copy.link.version
     \/ items[i].content = copy.link.content

\* propose_titles_from_sweep: the title for the chunk that somebody gave its item.
Retitled(copy, page) ==
  {items[i].content.title :
     i \in {j \in page : Linked(copy) /\ copy.link.item = j /\ ~Echo(copy, j)}}
  \ {copy.chunk.content.title}

\* The watermark is read right before the call.
FetchSince(w) ==
  LET new == {i \in ChangedSince(mark) : ~items[i].asked} IN
  /\ sweep[w].at = "fetch"
  /\ \E page \in SUBSET Window(mark) :
       LET titles == IF w \in Proposer THEN Retitled(sweep[w].copy, page) ELSE {} IN
       /\ Page(page, mark)
       /\ SweepTo(w, [at |-> "record", start |-> sweep[w].start, titles |-> titles,
                      copy |-> IF titles = {} THEN None ELSE sweep[w].copy,
                      asked |-> {<<i, items[i].version>> : i \in new}])
  /\ UNCHANGED <<mem, file, run, items, queue, mark, now, tick, edits, faults>>

Complete(w) ==
  /\ sweep[w].at = "record"
  /\ items' = [i \in DOMAIN items |->
                 [items[i] EXCEPT !.asked = @ \/ <<i, items[i].version>> \in sweep[w].asked]]
  /\ SweepTo(w, IF sweep[w].titles = {} THEN IdleSweep
                ELSE [at |-> "propose", copy |-> sweep[w].copy, titles |-> sweep[w].titles])
  /\ UNCHANGED <<mem, file, run, queue, now, tick, edits, faults>>

\* Mutant of Advance: the watermark moves to the end of the sweep.
AdvanceToNow(w) == Complete(w) /\ mark' = tick

\* The watermark moves to the start of the sweep, never back.
Advance(w) == Complete(w) /\ mark' = Max2(mark, sweep[w].start)

Propose(w) ==
  /\ sweep[w].at = "propose"
  /\ \E title \in sweep[w].titles :
       LET kept == Proposed(sweep[w].copy, title, "sweep") IN
       IF kept = sweep[w].copy THEN UNCHANGED <<file, now>> ELSE Save(kept) /\ Stamped
  /\ SweepTo(w, IdleSweep)
  /\ UNCHANGED <<mem, run, items, queue, mark, tick, edits, faults>>

\* A failed fetch or save, a crash, a doorbell's sweep that may not propose.
SweepEnds(w) ==
  /\ sweep[w].at # "idle"
  /\ SweepTo(w, IdleSweep)
  /\ UNCHANGED <<mem, file, run, items, queue, mark, now, tick, edits, faults>>

-----------------------------------------------------------------------------

ServerNext ==
  \/ \E t \in Title : Retitle(t)
  \/ Rewrite
  \/ \E accept \in BOOLEAN : Resolve(accept)
  \/ Restart

HumanNext ==
  \E i \in DOMAIN items :
    \/ \E t \in Title : HumanRetitles(i, t)
    \/ HumanComments(i)

PushNext ==
  \E p \in Pusher :
    \/ StartPush(p) \/ Replay(p) \/ ReplayFails(p) \/ ReplayRejected(p)
    \/ Skip(p) \/ ProjectNew(p) \/ Fetch(p) \/ FetchFails(p)
    \/ Send(p) \/ SendFails(p) \/ SendRejected(p) \/ Record(p) \/ PushDies(p)

SweepNext ==
  \E w \in Sweeper :
    StartSweep(w) \/ FetchSince(w) \/ Advance(w) \/ Propose(w) \/ SweepEnds(w)

Next == ServerNext \/ HumanNext \/ PushNext \/ SweepNext

Spec == Init /\ [][Next]_vars

-----------------------------------------------------------------------------
(* Properties.                                                              *)

\* The types of the variables.
TypeOK ==
  /\ mem \in Roadmap /\ file \in Roadmap
  /\ \A p \in Pusher :
       /\ run[p].at \in {"idle", "replay", "project", "send", "sent"}
       /\ run[p].at # "idle" => run[p].copy \in Roadmap
       /\ run[p].at \in {"replay", "send"} => run[p].entry \in Entry
  /\ \A w \in Sweeper :
       /\ sweep[w].at \in {"idle", "fetch", "record", "propose"}
       /\ sweep[w].at # "idle" => sweep[w].copy \in Roadmap \cup {None}
  /\ items \in Seq(Item)
  /\ queue \in Entry \cup {None}
  /\ {mark, now, tick, edits, faults} \subseteq Nat
  /\ \A c \in {mem, file} : Linked(c) => c.link.item \in DOMAIN items

\* The watermark never passes a change that was not asked for: whatever sweeps overlap or
\* die, the last change of an item is what the next sweep asks for, or a completed one
\* has asked for it (sweep.rs: "a crash does not skip unprocessed items").  Asked for is
\* not answered: a full page or a window without its own instant may have left it out.
EveryChangeIsAskedFor ==
  \A i \in DOMAIN items : items[i].at >= mark \/ items[i].asked

\* Every write to the tracker has a cause: somebody's change, a failed call or the
\* first projection.  Otherwise our own writes would come back and be answered for
\* ever (echo.rs: "We read it as a remote change and write again. Forever.").
NoEchoLoop ==
  MapThenSumSet(LAMBDA i : items[i].version, DOMAIN items)
    <= Cardinality(Pusher) * (1 + 2 * edits + 2 * faults)

\* A push sends no title over the one that the chunk it loaded concedes, whether or not
\* it can fetch the item and however many pushes there have been since the title was
\* conceded, unless somebody touches the item while it is under way (ownership.rs:
\* "The concession is DURABLE for the title").
ConcededTitleStands ==
  [][\A p \in Pusher :
       LET item == run[p].entry.item IN
       /\ Send(p) /\ item # 0 /\ items[item].at <= run[p].since
       /\ Concession(run[p].copy) = items[item].content.title
       => items'[item].content.title = items[item].content.title]_vars

\* As documented, not kept: "one chunk has at most one twin per provider" (record_tracker_link).
OneTwin == Len(items) <= 1

\* As documented, not kept: a detached engine that writes "cannot clobber either side"
\* (push_once): a save of a push or a sweep leaves what the plan says alone.
DetachedSavesKeepEdits ==
  [][PushNext \/ SweepNext => file'.chunk.content = file.chunk.content]_vars

\* As documented, not kept: "an ordinary local rename" is pushed (ownership.rs): a push that
\* sends nothing leaves a title that agrees, or a proposal.
RenamesAreSent ==
  [][\A p \in Pusher :
       Fetch(p) /\ run'[p] = IdleRun
       => \/ items[run[p].copy.link.item].content.title = run[p].copy.chunk.content.title
          \/ run[p].copy.chunk.proposal # None]_vars
=============================================================================
