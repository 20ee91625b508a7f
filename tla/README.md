# think-and-ship, specified

TLA+ models of the parts of think-and-ship that keep state when several
processes, a network and crashes are involved, the TLC runs that check them on
small instances, and TLAPS proofs of what matters most for every instance.
Paths below are relative to `crates/think-and-ship/src/`.

## The system

A think-and-ship server is one process per MCP client. All servers of a project
share a data directory, and, when a workspace is connected, a cloud backend.
Inside a server every tool family is an *engine* behind a mutex; a tool call
locks it, changes memory, saves, and spawns a push. Nothing tells one server
what another has saved: a server reads a family's file when it boots, and under
the lock while saving, when the merged result goes to the file and *not* back
into its memory. Servers therefore work on memories that grow stale, and all
consistency lies in the merges.

| Part | State | Operations | Interacts through |
|---|---|---|---|
| store discipline (`infra/persistence.rs`) | a file and its lock file | locked read-merge-rename, load, clear | every family saves by it |
| ship (`ship/engine`, `ship/persistence`) | one objective, its plan, an action counter | set objective, add/remove/reorder/start/complete/block, record action and check, finalize, reset | file; cloud push |
| roadmap (`roadmap/engine`, `roadmap/domain`) | chunks, tracker links, opt-ins, containers, focus | about thirty edits, each stamped and saved, some twice | file; cloud push and pull; tracker |
| think (`think/engine`, `think/persistence`) | numbered steps, branches, sessions | record, revise, branch, renumber, adopt, wipe | files; cloud push and pull |
| signal (`signal/engine`, `signal/domain`) | signals with a lifecycle | capture, research, surface, promote, snooze, link | file; cloud push and pull |
| cloud push and queue (`cloud/client`, `cloud/outbox`) | queued envelopes, tombstones, a flush guard | push, enqueue, flush, remove | file; backend |
| cloud pull and event loop (`cloud/pull`, `cloud/events`) | watermarks, a failure count | connect, refresh, apply a delta, poll | engines; queue |
| approval gates (`ship/gate`) | a gate record in the cloud | open, wait, resolve | backend; queue |
| check commands and tasks (`ship/mcp`, `mcp/tasks`) | a running command, a task handle | run, cancel, time out | ship engine |
| tracker (`tracker/`) | bindings, a queue, receipts | project, sweep, replay | roadmap engine; GitHub, Linear |
| broadcast (`infra/broadcast`) | clients, a subscriber count | accept, fan out | viewer |
| the rest | – | MCP dispatch, command line, sign-in, telemetry, reports, viewer | – |

What is hard is the same everywhere: stale memories saved over fresh files,
a save cut in two by a crash, calls that save twice, pushes that fail and
overtake one another, and records that come back from where they were kept.
`PROJECT.json` lists each hazard at its line with the properties against it.

What makes each part correct:

- *store*: a file is replaced only by something merged from what it held, unless it
  could not be read.
- *ship*: acknowledged tasks stay while their cycle does; a finished cycle leaves
  nothing to the next; older cycles never return; action ids are fresh; a reset is
  undone by nobody but who still had the cycle. (One active task, and a reset that is
  final, are promised and not kept: see the divergences.)
- *roadmap*: nothing acknowledged is erased but by something newer; no record goes
  back; equal stamps mean equal records; minting is remembered; opt-ins are not
  inherited over a refusal; a released focus is released.
- *queue*: a queued record stays until it is answered; what was flushed does not
  come back; fresher entries survive a flush; the queue drains.
- *pull*: whatever the watermark has passed and the server lacks comes with the next
  full fetch. (That nothing pulled regresses a record is a matter of the families'
  merges: `MemoryNeverRegresses` of the roadmap, `ProgressNeverRegresses` of signals.)
- *signal*: no progress is undone, terminal states are final in a server's memory, a
  promoted signal has its chunk unless an I/O error took it.
- *think*: a step leaves the file only in the ways the merge is known to have, is
  not cloned by renumbering, and stays wiped; a number is looked up where its step is.
- *gate*: whoever was answered, or looked after the expiry, takes the gate to mean
  the same for good; every session goes on in the end.
- *check*: a cancelled check is in no plan, an answered one is on file.
- *tracker*: the watermark passes no change that was not asked for; no write answers our
  own; a title conceded to a person stays conceded.

## Modules

| Module | Models | Lines of thought |
|---|---|---|
| `MergeSave` | the store discipline, with the family's merge as a parameter | a save is two steps, read under the lock and rename, because `clear` takes no lock and a process can die between them |
| `AtomicSave` | what a locked save promises: one file that takes in a server's memory at once or not at all, or is written over when it cannot be read | the abstract specification `RoadmapStore` and `SignalStore` implement; no lock, no copy of the file |
| `ShipStore` | the ship family over `MergeSave` | one action per `ShipEngine` method |
| `RoadmapStore` | the roadmap family over `MergeSave`, with the wire | a roadmap is a function from slots to stamped entries |
| `SignalStore` | the signal family over `MergeSave`, with promotion | a copy is its progress; the three locks of a promotion are three actions |
| `Outbox` | the durable queue | changes and the saves of their snapshots are separate steps |
| `CloudPush` | pushes, flushes, event loop, backend over `Outbox` | one action per await point |
| `CloudPull` | boot pull, watermark refreshes, notifications | a fetch, its answer's merge and each notification are separate steps |
| `ThinkStore` | the reasoning trace: numbering, window, merge, start-up repairs, adoption, wipe | memory is a window over the file; the lock is the lock *file* a save opened, which a wipe replaces |
| `CheckTask` | check commands as tasks, over `ShipStore` | what a command is credited to is resolved when it ends |
| `GateState`, `ApprovalGate` | one gate, sessions, backend, human, clocks: its state and what may be relied on, and its steps | an outcome is derived by each session and stored by none |
| `TrackerMirror` | a chunk and its ticket: push, replay, sweeps, people, the adapters' page and window | pushes and sweeps work on copies of the roadmap of their own |
| `Subsequence` | what filtering leaves of a vector | `Kept(s, keep)` is `SelectSeq` without its recursion, which no prover unfolds; `Picked(s, I)` is what is at the places in `I`, for merges |
| `SubsequenceProofs`, `RoadmapStoreProofs`, `SignalStoreProofs`, `ShipProofs`, `CloudPushProofs`, `CloudPullProofs`, `ThinkStoreProofs`, `TrackerMirrorProofs` | theorems about the modules of their names; `ShipProofs` is about `ShipStore`, `CheckTask` and `ApprovalGate` | checked by TLAPS |
| the `MC` modules | symmetry and constants of small instances | |

### MergeSave

`mem[p]` is the engine of server `p`, `disk` the file, `read[p]` what `p` re-read
under the lock, `pc[p]` where `p` stands. The advisory lock is held exactly at
`pc[p] = "locked"`, as the operating system drops it with its holder.
`LockAndRead` and `RenameAndUnlock` are the two halves of
`locked_merge_write`; `SaveFails` is an I/O error of the lock or the write, which
engines log and drop. An error of the re-read is no error of the save: it is swallowed
(`infra/persistence.rs:265-269`), the file counts as missing (`ReadFails`, `Unread`), and
the rename then writes over it (`Overwrites`). `Clear` is the bare `remove_file`; `Boot`
is `with_persistence`; `Crash` may strike anywhere. A boot whose load fails is left out. A tool call that is saving keeps its engine mutex,
so `Mutate` needs `"idle"`. A rename is atomic, and what it leaves is durable.

### AtomicSave

The same servers and file without the lock and without `read`: `Change` leaves a server
anything to save, `Save` merges it with the file as it is at that moment; or the server
goes blind (`GoBlind`) and writes over the file (`Overwrite`). `Atomic`, in `RoadmapStore`
and in `SignalStore`, instantiates it with the family's merge and with a server at
`"locked"` seen as still `"saving"`, or as `"blind"` when its re-read failed, so that
`LockAndRead` is no step, `ReadFails` is `GoBlind`, `RenameAndUnlock` is `Save` or
`Overwrite`, and every tool call is a `Change`. What the abstraction says is that nothing
but the swallowed error lets a save miss another. `SavesAreAtomic` says that
the family's specification implements this. `ShipStore` does not: a reset removes the file
under a save that has read it, which then puts it back. For the same reason `ThinkStore`
does not, once there was a wipe. `Outbox`, whose file nothing removes, takes its saves
as one step.

### ShipStore

The identity of a cycle is `objective.created_at`; here it is the clock, which
ticks at every tool call, so two cycles never get the same stamp. `MergeStates`
is `merge_states`: same stamp, union of tasks by id with memory's first; else the
newer cycle outright. History variables: `acked` (the tasks saved replies have
listed and nobody asked to remove; a save that could not re-read the file starts it
anew), `resetAt`, `spared` (the cycles that others had in memory or had read when the
last reset came: a reset cannot reach them, and `OnlyHoldersUndoAReset` says that no other
comes back), and, inside records, the `line` of an objective and the `born` of a task. `ReorderTaskFails` is the error path of
`reorder_task`, which changes memory.

### RoadmapStore

Chunks, links, opt-ins, containers and focuses are merged by the same rule, the
newer `updated_at` wins and a tie keeps memory's, so a roadmap is one function
from slots to entries, an absent record having stamp 0; containers add the sticky
`created_by_us`. `job[p]` is what the call under way has left after its save: a
push, or a second write that saves and pushes again. `wire` holds every envelope
ever pushed; a pull may deliver any of them, late, again or in another order,
which covers what the backend may do. `Status`, `Inherits`, `CloudOn` and
`IOErrors` choose what an instance lets happen.

### SignalStore

`SignalStore` has the shape of `RoadmapStore`, but a signal has no stamp: `Wins` is
`signal_wins`, by lifecycle rank and length of the trail. `Behind` says the same for
the properties, so that a mistake in the one is seen by the other. A promotion holds
the signal engine's mutex, the roadmap's and the signal engine's again: `promoting[p]`
keeps what the tool call knows in between. Of the roadmap only the chunks are kept, in
its file (`chunks`) and in the engine of each server (`road[p]`). Its save is one step
(`SaveRoadmap`) that may fail, or write over a file it could not read, without anybody
being told (`roadmap/engine/mod.rs:342-355`): the promotion goes on to mark the signal.
`OtherRoadmapCall` is any later save of the roadmap, which may bring the chunk back, or
erase it in the same way. `lost` is the history of chunks such an error keeps off the
file, so that `PromotedHasItsChunk` says nothing else does. `acked` is the furthest copy
of each signal that a save wrote.

### ThinkStore

A step is its identity, one number standing for record id and content key, and its
step number, which start-ups rewrite. `Record`, `Revise` and `Resave` are
`process_step` and the calls that change what is abstracted; `Boot` is the load with
its adoption of the legacy file, the dropping of clones and the renumbering, each of
which saves, so a call leaves a list of `saves`, some of which replace the file.
`Adopt` is `adopt_steps` on any part of what was pushed, clones included: of the pulled
steps that neither the file nor memory knows it takes each once, the copy that comes
first (`Singled`, in any order of the answer). A save is three steps, since
`Wipe` removes the lock file too: `OpenLock` takes hold of the one there is, and
`LockAndRead` waits only for those who hold the same. `wiped` keeps the steps that
nobody held when the last wipe's tombstone reached the file. A save may fail, which is
logged while the call goes on to push (`SaveFails`), and its re-read may, in which case it
writes over the file (`ReadFails`). Sessions and branches are left out.

### CheckTask

`job[j]` is one call of `ship_check` with a command. The command touches nothing;
`EndCheck` records and begins to save in one step, because nothing between the end of
the command and the answer awaits, so `Cancel` needs it still running. `Answer` is the
end of the save. The other operations of `ShipStore` may come in between, but for
reordering. The deadline of a command is one more way for it to end.

### ApprovalGate

`record` is the gate in the workspace, `reply[s]` the copy a session has fetched,
`outcome[s]` what it took the gate to mean. The backend's clock is `now`; a session's
is ahead by `Skew[s]`. `Fetch` and `Resolve` are apart, since the copy ages on its way
to `gate::resolve`, which looks for an answer first and then at the clock, in whole
seconds. `OpenFails` leaves the envelope in the queue, which `Flush` replays. The
backend takes one answer, before the expiry by its own clock, as
`docs/UNIFIED_CONTRACT.md` says of its route. A stored state `expired` is honoured by
the code and written by nothing (`ship/gate.rs:20-21`), so it is left out.

### TrackerMirror

`mem` is the server's roadmap, `file` the one on disk, and a push or a sweep carries
`copy`, loaded when it began: they share no memory with the server. `StartPush`,
`Replay`, `Fetch`, `Send` and `Record` are one action per call of the tracker or save;
`Decide` is what comes between a fetch and a send, the second skip included, and
`Deliver` the concession with its own save. An item has a content, a version and the
time of its last change; what changes it is `upsert_item` of the adapters, a patch where
an id is known and a creation where not (`tracker/github.rs:347-416`,
`tracker/linear.rs`). A failed call may or may not have reached the tracker.

What a sweep asks for is `ChangedSince(mark)`, at or after the watermark. What it gets is
less: `Window` leaves out the instant itself where the adapter asks for `gt`
(`Inclusive` FALSE, Linear), and `Page` is any part of that where more has changed than
one page of 100 has rows for (`Crowded`), as neither adapter asks for the next page; rows
go to pull requests and foreign tickets too. `fetch_one` looks for its item in such a
page and may find nothing (`Fetch`). So the history `asked` says of an item that a
completed sweep *asked* for it as it is, and `EveryChangeIsAskedFor` claims no more;
what is asked for and not answered is a divergence, below.

Any number of sweeps overlap (`Sweeper`); a doorbell's proposes titles where that is
switched on, the command line's always (`Proposer`). There are two clocks: `now` stamps
the plan, `tick` the tracker's items. A sweep takes the tracker's clock for the watermark
it will set, where the code takes its own, in whole seconds: how far the two differ is
not modelled. One save is one step here, as `RoadmapStore` has its steps, and so is the
queue's, whose own are in `Outbox`.

### Outbox and CloudPush

`Outbox` is `cloud/outbox.rs`: entries oldest first and tombstones, changed under
a mutex and saved after it is released, so `saving[p]` holds snapshots that may
reach the file in any order. Tombstones are capped at `StoneCap`, and `Capped` cuts where
the code does, at the front, where a merge has put memory's own: `CutStones` are the
digests a save so forgets, and the history `pruned` those whose return is no surprise. An
error of the queue's save, or of its re-read, is left out. `CloudPush` adds who uses it: pushes are tasks of
their own (`inflight`), the boot's task and the event loop flush (`flusher`,
`replay`), the loop connects, streams, fails and polls. The backend is external:
up, it answers 2xx or 4xx; down, it fails retryably. `PushAgain` is a record whose
envelope comes back byte for byte, such as a task removed and planned again.
The histories `queued`, `answered` and `gone` say what must still be, or never be
again, on file; an answer to any envelope of a record ends what `queued` claims of it.

### CloudPull

One server against a store that others write. A record is a version and the stamp
the store gave it; the families' merges are taken to order the versions, here a
number, which is what `RoadmapStore` and `SignalStore` check of theirs; what this module
is about is which version reaches a merge at all. `todo` is what is left of a refresh of everything, `reply` an answer on its
way into the engine, so edits and notifications come in between. `late` and `failed`
are histories of what the cursor may have passed: a record whose first push came
long after its creation carries its `created` stamp (`updated` is "absent on a
freshly-created record", `contract/unified-record-envelope.schema.json`), and a
family whose fetch failed may have its watermark moved by a notification. The event
loop of `CloudPush` decides when to poll; here it may poll whenever it connects.

## Runs

| Run | Instance | Shows |
|---|---|---|
| `ship_two` | 2 servers, 2 task ids, 5 calls, I/O errors | what the union merge keeps under stale memories, crashes, failed saves and re-reads, and who can undo a reset |
| `check_task` | 1 server, 2 tasks, 6 calls, one check command | the unique action ids and the kept plan that are promised and hold only for a server alone on its store; what a client is told of its check |
| `road_two` | 2 servers, one chunk, container and lane, cloud, inheritance, I/O errors, 3 writes | but for a file that could not be read, no acknowledged write and no minting is lost and memory and file only advance; a stamp names one version; a save is one step to the others |
| `signal_two` | 2 servers, one signal, 4 calls, I/O errors, cloud | but for a file that could not be read, no progress on file or in memory is undone; terminal is final in memory; a promotion has its chunk unless an I/O error of the roadmap took it; a save is one step to the others |
| `outbox_two` | 2 servers, one record in 2 versions, a queue of 1, 1 tombstone | a safely queued record stays on file, nothing flushed comes back while its tombstone is remembered, a flush takes only what it sent |
| `outbox_live` | 1 server, 2 records, a queue of 1, the real 3 failures | the queue drains; an eviction from memory is no loss on file |
| `pull_live` | 1 server, 2 records of a family, clock 2, full fetch every 2nd | a listening server lacks only what may be missed, and gets that too |
| `think_two` | 2 servers, clones in the legacy file and in the cloud, a window of 2, 1 step recorded, 1 wipe, I/O errors | steps leave the file only in known ways, are not cloned, stay wiped, and are found |
| `gate_live` | 2 sessions half a second apart, 3 options, expiry after 2 s | late readers agree, sessions go on |
| `mirror_one` | one push and two sweeps beside the server, of which one proposes, 2 titles, 2 changes by people or faults, full pages, an exclusive window | the watermark passes nothing that was not asked for, no loop of our own echoes, concessions stand |
| `think_erased` | 2 servers, a trace that starts empty | refutes that a save never erases what another server persisted |
| `mirror_twins` | one push and one sweep, answers complete, 3 changes or faults | refutes that a chunk has one twin |

**Bounds.** `MaxClock` bounds tool calls or writes, and with it every history;
`MaxTasks`, `MaxAction`, `Versions`, `Cap` and `StoneCap` bound a plan, the counter, the
versions of a record, the queue and its tombstones; with `StoneCap = 1` the second flush
already cuts one off. Merges are record by record and every
property relates at most two records and two servers' memories, so one chunk, two
tasks and two servers are enough for two stale memories to meet on a file; four
or five calls suffice for both to write, one to crash and boot, and each to save
again. `road_two` has everything at once and three writes. What the properties of
`road_two`, `ship_two`, `signal_two`, `outbox_two` and `think_two` say is proved without these bounds. Servers and task ids are symmetric, except where liveness is checked. Runs
over a bounded clock switch off the deadlock check, since calls run out; the queue
and pull runs keep it on. `FullRefreshEvery` is 2 for the code's 20: both have no
factor in common with the three families a refresh takes in turn, so that each
family gets its full fetch; with 3, `Converges` fails. Two records of one family are
enough there: families share only the counter, and one record's stamp moves the
watermark past the other's. Each property is also checked to fail when a plausible mistake is
made in the code it guards; `PROJECT.json` names the mistakes, and the mutated
definitions stand beside the real ones.

`think_two` starts without a file, beside a legacy file that holds a step twice and a
cloud that holds another twice, so that the start-up repairs and `Singled` have work, and
a window of two steps is trimmed by the first recorded; one step and one wipe suffice,
as both servers may record, adopt or save before and after them.
In `gate_live` a second is two ticks, so that a clock may be ahead by less than one,
and time goes on past the expiry on every clock. In `mirror_one` the two events may
be any of a retitle, a rewrite, a resolution, a person's retitle and a comment, or any
failed call, answered or not, or a death; a sweep that ends early is free. `TypeOK` is checked in `ship_two`
only, and proved of every module.

**Fairness.** Only `outbox_live`, `pull_live` and `gate_live` assume any: `FairSpec` of `CloudPush` says that a spawned push
or a replay is answered one way or another (the HTTP client errs or returns), that
a due flush, a pending save and a connect attempt are eventually run by the tokio
runtime. Nothing is assumed of the backend, of streams or of boots; `QueueDrains`
states its own conditions: the backend stays up, the server keeps running, and no
stream stays open for ever, because nothing flushes inside an open stream. `FairSpec` of `CloudPull` says that the event
loop, one task, takes its next step: a fetch ends, an answer is merged, a notification
is read, it connects again. `Converges` adds that in the end no fetch fails, the server
does not crash and refreshes of everything recur: an
open stream brings none, so a record missed under it may stay missing as long as the
stream stays open. `FairSpec` of `ApprovalGate` says that time goes on, that the push
of a gate is answered or fails, and that a session told to wait calls again, as the
reply asks it to; nothing is assumed of the human, nor that the workspace comes back.

## Proofs

TLAPS proves every safety property of `road_two`, `ship_two`, `signal_two`, `outbox_two`,
`pull_live`, `think_two`, `gate_live` and `check_task`, and two of the three of
`mirror_one`: for
any number of servers (of one, where the table says so), records, tasks, calls, sessions
and pushes, and for any value of what the runs bound.

| Module | Theorem | States |
|---|---|---|
| `RoadmapStoreProofs` | `StoreImplementsAtomicSave` | `SavesAreAtomic`: `RoadmapStore` implements `AtomicSave` |
| | `TypeCorrect`, `NothingAckedIsErased`, `MintingIsSticky`, `StampsAreVersions` | `TypeOK`, `AckedWritesSurvive`, `MintingIsRemembered`, `StampsIdentifyVersions` are invariant |
| | `FileOnlyAdvances`, `MemoryOnlyAdvances` | `FileNeverRegresses`, `MemoryNeverRegresses` |
| `ShipProofs` | `TypeCorrect`, `AckedTasksStay`, `FreshCyclesAreFresh`, `ActionIdsAreFresh` | `TypeOK`, `AckedTasksSurvive`, `FreshCycleInheritsNothing`, `ActionCounterIsFresh` |
| | `OlderCyclesStayAway` | `CycleNeverRegresses` |
| | `CancelledStaysOut` | `CancelledIsNeverRecorded` of `CheckTask` |
| | `OnlyHoldersResurrect` | `OnlyHoldersUndoAReset` |
| | `AloneActionIdsAreUnique`, `AloneOverwriteKeepsTasks`, `AloneAnsweredIsOnFile` | `ActionIdsAreUnique`, `InFlightOverwriteKeepsTasks`, `AnsweredIsOnFile` of `CheckTask`, with one server |
| | `LateReadersAlwaysAgree` | `LateReadersAgree` of `ApprovalGate` |
| `SignalStoreProofs` | `StoreImplementsAtomicSave` | `SavesAreAtomic`: `SignalStore` implements `AtomicSave` |
| | `TypeCorrect`, `SavedProgressStays`, `PromotionHasSpawned` | `TypeOK`, `AckedProgressSurvives`, `PromotedHasItsChunk` |
| | `ProgressIsKept`, `EndsAreFinal` | `ProgressNeverRegresses`, `TerminalIsFinal` |
| `CloudPushProofs` | `TypeCorrect`, `QueuedNeverLost`, `OneEntryEach` | `TypeOK`, `QueuedRecordsSurvive`, `OneEntryPerRecord` |
| | `FlushedForGood`, `NothingJustLeaves` | `FlushedStaysFlushed`, `NothingLeavesUnanswered` |
| `CloudPullProofs` | `TypeCorrect`, `MissesNothingElse` | `TypeOK`, `NothingElseIsMissed` |
| `ThinkStoreProofs` | `TypeCorrect`, `StepsAreNeverCloned`, `AWipeIsFinal`, `StepsAreFound` | `TypeOK`, `NoNewClones`, `WipedStaysWiped`, `IndexIsRight` |
| | `ErasuresAreKnown` | `OnlyKnownErasures` |
| `TrackerMirrorProofs` | `TypeCorrect`, `NothingIsPassedUnasked` | `TypeOK`, `EveryChangeIsAskedFor` |
| | `ConcededForGood` | `ConcededTitleStands` |
| `SubsequenceProofs` | `KeptIsSubsequence` | what `Kept` returns, in what order |

Assumed are the assumptions on constants in the modules: `RoadmapAssumption`,
`SignalAssumption`, `PullAssumption`, `ThinkAssumption`, `GateAssumption`,
`MirrorAssumption`, `JobAssumption`, and those of
`ShipStore`, `Outbox` and `CloudPush`. They give bounds their type and say that tokens
(no file, no task, nobody) are none of what they stand beside; that there is one server
at least, a capacity above 0, and a second longer than 0 ticks; of the trace, that what
is on file, in the legacy file and in the cloud at first are steps with numbers, finitely
many in the cloud, and that a recorded step is new to all of them; of the tracker, that
who may propose is one who sweeps. TLC evaluates all of
them for the constants of the runs.

Each module has an inductive invariant, `IInv`, the conjunction of the parts below. Each
action preserves each part, one step per action, and the theorem `Invariance` puts them
together; what an action leaves alone is one lemma for all that leave it alone. TLC
checked the parts on the runs' instances before they were proved. The lemmas at the head
of each module are about its operators: what a merge, an edit, a filter returns,
keeps and never makes older.

*A file under its lock* (`RoadmapStore`, `ShipStore`, `SignalStore`).

- `LockInv`: at most one server is at `"locked"`, and what it read is what the file
  still holds, or nothing when the re-read failed; in `ShipStore`, unless a reset has
  removed the file since. Nothing that is
  said of the file is inductive without it: the rename writes what was merged with
  `read[p]`, and only the lock makes that the file, not an older copy of it.
- `DownInv` (roadmap and signal): a server that is down has an empty memory, so that a
  boot takes nothing back to an older state.
- `AckedInv`: whatever was acknowledged is on file or something newer is. In `ShipStore`
  it adds that nothing was acknowledged in a newer cycle than the file's, or a later save
  could bring that cycle to the file without the task.

*Saves are atomic* (`RoadmapStore`, `SignalStore`). `StoreImplementsAtomicSave` maps each
step to one of `AtomicSave`, or to none (`StepIsAtomic`): the types say that a tool call
leaves a memory there may be, and `LockInv` that what the rename merged with is the file
still, whoever saved or died since the read, or else that the save went blind.

*Roadmap.* `JobInv` says that the steps a call has left concern a chunk the server has,
so that a second write never makes an entry of an absent record. `StampsIdentifyVersions`
needs `VInv` beside it: no stamp is ahead of the clock (`ClockInv`); two copies of a
record with one stamp are equal, in any memory, on file or on the wire (`VersionInv`);
what is about to be adopted from a pull came from the wire (`AdoptInv`). A write takes a
stamp nobody has yet; everything else copies, from places `LockInv` and `DownInv` tie to
those three.

*Ship.* `SoundInv` says of every plan, wherever it is, that it has its type, that its
tasks were born in its own line of objectives or before there was any, and that its
counter is above its actions. `StampInv` says that no stamp is ahead of the clock, and
that plans with one stamp are of one line: the union of their tasks is sound only
because of that. The invariant has the kinds of check a plan may hold as a parameter.
`ResetInv` says that a cycle older than the last reset, wherever it is, in a save's hands
included, is one of `spared`: a merge, a boot and a blind save only copy what is there,
and a new objective has a stamp of its own time, so that `OnlyHoldersUndoAReset` follows of
any number of servers. `CallInv`, of `CheckTask`, has the invariant once for all kinds, and
for every call that has not recorded its check once for all kinds but that check; so what
is known of plans serves `CancelledStaysOut` too.

*Ship, one server.* The last three theorems have the premise `Alone` (any two servers are
the same one) and are about `SpecC`, where saves do not fail. With a second server
unique actions and the kept plan are false (see the divergences), and with failed saves
the answer of a call promises nothing of the file. `AloneInv` adds
to `CallInv`: of memory and of the file, that they have one active task, actions of their
own, and all that was acknowledged or answered of their line (`GoodInv`); of the two
together, that the file is memory's cycle or an older one, and that what it has beyond memory's plan is inactive and shares no
action with it (`Follows`). A save merges exactly that back in, which is why a removed
task returns harmlessly. It is kept by a removal because between calls the file is memory
followed by such left-overs (`Agrees`), so that the task removed is the file's task of
that id too. `RecordInv` says of a check whose save is under way that memory has it.

*Signal.* The merge of two stores is no further back than either of them, because
`Wins` is an order of progress (`MergeIsAhead`). `JobInv` says that what a promotion has
chosen is still there. `ChunkInv` is `PromotedHasItsChunk` said of everything a later
save could write or a pull deliver, and of promotions that have made their chunk and not
yet marked their signal. That a chunk, once on file, is there or in `lost` is what each
save of the roadmap keeps, failed or not.

*Queue.* `HeldInv` says of every queue, in memory or in an unsaved snapshot, that it has
one entry for a record at most and tombstones of answered envelopes only; `FileInv` says
so of the file. `ChangeInv` relates a snapshot to the change that made it: what was queued
is in it, what was removed has its tombstone there. `GoneInv` says that what was flushed for good has
its tombstone on file, or is in `pruned`. `QueuedInv` says of every record that `queued` counts that it has
an entry on file, and that no queue, snapshot or file holds an answered envelope of it.
Without the second half it is not inductive: the next save of such a queue puts the dead
envelope in the place of the live one. The attempt to prove it showed that it did not
hold when `queued` counted more (see the divergences).

*Pull.* `LackInv` says of every record the server lacks and cannot have missed where its
newest version comes from: the answer the loop has fetched, or else, with no watermark
past it nor about to pass it, a fetch still to come or a notification that nothing newer
of its family precedes. `ReplyInv` ties an answer to what is left of its refresh,
`StampInv` says that no stamp and no watermark is ahead of the store's clock, `DownInv`
that a server that is down has no watermarks.

*Think.* A merge joins the file's steps to memory's and sorts them by number. Of the
sort the proof needs only that it is a permutation (`SortedFacts`, `Drawn`): what the
merge returns is drawn from its two arguments, without taking anything twice that it did
not find twice (`JoinedFacts`). `SoundInv` says of every copy of the trace (the file, a
memory, what a server has left to save or has read) that its steps are known ones, that
none is in `wiped`, and that it holds a step twice only where an old file did.
`WipedStaysWiped` is not inductive without it: a wiped step comes back from any copy, not
from the file alone. `MarkInv` is about the legacy file, which a wipe leaves in place:
whoever runs has taken note that it was adopted, and so has the file once anything was
wiped; or else the next boot would adopt the wiped steps anew. `SentInv` says that what
was pushed is known and not wiped. It may hold clones; a pull brings none,
since `Adopt` takes each step once. `LockInv`
says that among servers that hold the *same* lock file one at most is merging, and that,
while nothing has replaced the lock file, what it read is the file or nothing; a wipe
removes the lock file, and with it this. `OnlyKnownErasures` says which steps may
then be missing. `IndexIsRight` is inductive with the type invariant: what
changes a memory extends its index by the step appended or builds it anew, but for an
adoption, after which nothing is claimed.

*Gate.* `GateOpened` says that the workspace has the gate a session has got past opening,
`RepliesStand` that an answer once fetched is the answer, and that none fetched after the
expiry means none for good; `OutcomesFollow` ties an outcome to the copy it was judged by.

*Tracker.* `TypeInv` says that links and queued entries, in every copy of the roadmap, are
of items there are. `SlipInv` says of every sweep that what changed before it began,
and no completed one has asked for, it has asked for as it is; so it may move the
watermark to its start, whatever other sweeps have done to it meanwhile. With `TimeInv`,
that no stamp is ahead of the tracker's clock, a change made after that start is not
behind the watermark.
`ConcedeInv` says of a push that is about to send what `ConcededTitleStands` says of the
send; of the title that is proposed on file it would be false, as TLC finds with four
changes by people (see *Tracker* below).

Some of the code's promises are proved of steps, not states: `FileOnlyAdvances`,
`MemoryOnlyAdvances`, `OlderCyclesStayAway`, `ProgressIsKept`, `EndsAreFinal`,
`FlushedForGood`, `NothingJustLeaves`, `ErasuresAreKnown` and `ConcededForGood` are
about one step taken in a state where the invariant holds.

*Model-checked only.* Liveness (`QueueDrains`, `Converges`, `EverySessionCompletes`) is
out of the prover's reach, as `ENABLED` is. `NoEchoLoop` is a sum over all items, a fold:
what it computes takes an induction over data, which no installed prover can do. The two
runs that refute a claim have nothing to prove.


## Divergences from what the code says

Two are runs (above), quoted in `PROJECT.json`: two servers give their next steps one
number and the later save erases the earlier step (`think_erased`), and a replayed
creation leaves its chunk unlinked, so that it is created again (`mirror_twins`).

The next ones are stated in their modules, marked "as documented, not kept"; TLC
refutes each when it takes the place of a run's properties.

- `OneActiveTask` (`ship_two`): "Only one task can be active at a time"
  (`ship/mcp/handlers.rs:376`). Two servers both start a task, and the union keeps both.
  With one server (no I/O errors): `reorder_task` takes the task out before it looks
  `after` up, so an unknown `after` is an error with the task gone from memory; another
  is started, the save brings the lost one back, and two are active. With one server and
  no `after` (I/O errors, `MaxClock = 7`): when the saves that block and remove the active
  task fail, which is logged and dropped (`ship/engine/mod.rs:274`), the next save that
  succeeds finds the task on file, still active, beside the one started since.
- `ResetIsFinal` (`ship_two`, with or without I/O errors): a save that read the file
  before `clear` removed it renames the old plan back (`ship/persistence.rs:181`), and a
  server that has the plan in memory saves it anew, though newest-cycle-wins "is exactly
  what keeps `reset` resurrection-proof against stale writers"
  (`ship/persistence.rs:26`). `OnlyHoldersUndoAReset` says how far it goes.
- `FocusReleaseIsSaved` (`road_two`, one server, no I/O errors): `focus_clear` leaves no tombstone, and
  the merge of its own save takes the record still on file for another server's, though
  it says "Drop `lane`'s focus" (`roadmap/engine/mod.rs:937`).
- `InheritanceIsNotRetroactive` (`road_two`, no container, no I/O errors, `MaxClock = 5`): a chunk that
  another server has created and opted out is a newborn to one that has not seen it, and
  the opt-in it inherits is newer than the refusal; being reachable only by a chunk
  coming into existence "is what makes "never a retroactive sweep" structural"
  (`roadmap/engine/mod.rs:531-534`).
- `RequeuedIsLive` (`outbox_live`): `enqueue` drops the envelope's tombstone in memory,
  the merge of its save takes it back from the file, and the next boot drops the entry;
  "its tombstone must not kill it" (`cloud/outbox.rs:131`).
- `ReadersAgree` (`gate_live`): a session whose clock is ahead resolves the default, and
  the backend, whose clock has not reached the expiry, then takes an answer that others
  see; "readers with skewed clocks cannot disagree" (`docs/UNIFIED_CONTRACT.md`, approval
  gates; likewise `ship/gate.rs:9-11`). Whole seconds, rounded down, make it a second
  worse on equal clocks (`ship/gate.rs:144`).
- `DetachedSavesKeepEdits` (`mirror_one`): recording a link stamps the chunk, so a push
  puts the chunk as it was loaded over what the server saved while the tracker was
  being talked to, though it "cannot clobber either side" (`cli/mod.rs:4001`).
- `RenamesAreSent` (`mirror_one`): after a comment has moved the version, a rename in
  the plan defers to the tracker's title, which is what we last wrote, so nothing is
  sent and nobody told, now or later, though this must not be, "or an ordinary local
  rename could never be pushed at all" (`tracker/ownership.rs:36-37`).

Others appear when a run's constants or properties are changed:

- `ship_two` with two properties of `check_task`: `ActionIdsAreUnique` (counters are
  never read back from a merge) and `InFlightOverwriteKeepsTasks` (the overwriter has not
  seen the other server's tasks, and its newer cycle wins outright).
- a removed task is back on file after the very save that removes it: the union
  takes it for another server's (`ship/persistence.rs:47`). `acked` leaves such
  tasks out, and the model has the behaviour.
- `road_two`: two servers that both add one chunk id end with the newer one's
  chunk, though "Errors on a duplicate id" (`roadmap/engine/mod.rs:402`).
- `outbox_two` without `Overtaken` in `Settles`: a server (or another one) that
  saves its older snapshot last puts the older envelope of a record in the place of
  the newer one on file. If the older one is flushed meanwhile, what is on file is
  dead, and a crash loses the newer failure, though the queue is "**Durable**"
  (`cloud/outbox.rs:21`): the snapshot is saved after the mutex is released
  (`cloud/outbox.rs:144`). So `queued` counts an envelope only when no snapshot on
  its way holds another of its record. Nor does it count one while another server
  holds an older envelope of the record in its memory (`outbox_two` with two records
  and `Cap = 2`): that server keeps entries that have been answered since, because
  `merge_outboxes` looks at tombstones for the file's entries only
  (`cloud/outbox.rs:80`), and its next save, of whatever record, puts the dead one in
  the place of the live one.
- the queue keeps the envelope of a record whose push failed last, not the newest:
  pushes are tasks of their own (`roadmap/engine/mod.rs:242`), so when the push of
  version 1 times out after that of version 2 has failed, version 2 is never sent,
  though "a newer failed push replaces the older" (`cloud/outbox.rs:15`). `Enqueued`
  has the behaviour.
- `pull_live` with `NothingElseIsMissed` without `Missable`: "notifications missed
  while disconnected are never lost" (`cloud/events.rs:325`) holds only until the next
  full fetch, see `late` and `failed`. That fetch is the twentieth of all families
  together, not "Every FULL_REFRESH_EVERY-th refresh per family"
  (`cloud/events.rs:513`).

- `signal_two`: a promotion pushes the promoted signal before it is given its reference
  to the chunk (`signal/mcp/handlers.rs:338-341`). A server that pulls that copy keeps it
  for good, the complete one being no further along, and its next save puts it in the
  place of the complete one on file, though promotion "Writes bidirectional cross-refs"
  (`signal/mcp/handlers.rs:246`). Promoting again, there or after a crash between the two
  saves, is an error and not the existing chunk. And a signal dismissed while it is being
  promoted leaves a chunk on the roadmap.

The models have the following behaviours too, or leave out what they rest on.

*Every file.* A re-read that fails under the lock is swallowed, and the save writes over
what others were told is saved (`infra/persistence.rs:265-269`). The comment admits it
(`:244-247`); the promise that "a stale writer can never erase mutations a concurrent
process already persisted" does not. The properties of stores except it by name
(`Overwrites`, `Unread`, `Blind`).

*Signals.* When the roadmap's save fails the promotion goes on, and a signal is promoted
whose chunk only the memory of one server has (`roadmap/engine/mod.rs:342-355`,
`signal/mcp/handlers.rs:316-332`). By a merge a signal goes from dismissed to promoted on
file, since "terminal" is a rank there. A lead in rank may come with a shorter trail, and
the longer one is dropped.

*Queue.* At 1024 tombstones the one in front is cut off, "oldest pruned beyond this"
(`cloud/outbox.rs:59-60`). A merge puts memory's before those it has only from the file,
so what it cuts is memory's own, the one just flushed included
(`cloud/outbox.rs:85-87`), and the flushed envelope can come back from another server.

*Think.* A pin or a revision of the file's copy is lost to the save of a server whose
memory has the step without it, though these "must stick" (`think/persistence.rs:443`).
A step that is given the number of one trimmed from memory replaces it on file. A
trim frees a number that a revision still bears. `adopt_steps` leaves the look-up table
and the numbers taken as they were (hence `adopted`). The saves of a start-up replace
the file, with what others saved since the load. A wipe is undone by the next save of
another server, or by a pull; one that strikes while others save leaves them with two
lock files; one that dies before its tombstone lets the legacy steps in again.

*Checks.* A check is credited to whichever task is active when its command ends, in
whichever cycle (`ship/mcp/handlers.rs:532`). Of two servers each knows its own checks
only, so that the final review may miss a failed one (`ship/engine/mod.rs:560`), and the
save of either loses the other's: the union takes whole tasks.

*Gates.* A gate reported unopened is queued all the same, and may open, and be answered,
when nobody waits on it (`OpenFails`, `Flush`).

*Tracker.* Changes do slip by the sweep. Neither adapter asks for a page beyond the first
100 (`tracker/github.rs:426`, `tracker/linear.rs:871`), pull requests and other people's
tickets count (`tracker/github.rs:437`), and Linear is asked for what is strictly later
than the watermark (`tracker/linear.rs:870`) where the port says "at or after"
(`tracker/port.rs:119`); then the watermark moves all the same (`tracker/sweep.rs:207`),
past what was left out, although a sync must not be one that "diverges silently and never
notices" (`tracker/sweep.rs:7-8`). An item beyond the first page is taken to be absent by
`fetch_one` too (`tracker/port.rs:152-158`), with no error. A replay sends what was
queued past the ownership table, over a person's title (`tracker/outbox.rs:136`), though "skipping the policy is a compile error"
(`tracker/ownership.rs:281-283`). What it sent is not recorded, so that our own write
looks like a person's and the plan's rename is conceded to it. A server that does not
have a proposal drops it with any edit of the chunk, and the next push overwrites the
title that was conceded; such a server can also bring back an older proposal. A title
that a person changes between the fetch and the send of a push is overwritten, whatever
is proposed, as nothing makes the two one step (`tracker/project.rs:642`, `:739`):
`ConcededTitleStands` is about what the push has loaded, and items that nobody touches
meanwhile. An item that cannot be fetched is taken to be absent, and a title not yet
conceded is overwritten (`tracker/project.rs:644`). A doorbell's sweep moves the
watermark past a retitle it may not propose, so that the `tracker pull` after it does
not see it, though "the next `tracker pull` will still find it" of a sweep that failed
(`cli/mod.rs:3943`).

## Plan

1. `Broadcast`: registration, fan-out, published counts.
2. The think family's branches and sessions; the tracker's containers, relations and
   status proposals; several checks at a time.
3. An abstract queue, which `CloudPush` implements, and an abstract gate, and the proofs
   that they do.

## Not modelled

- Clocks that disagree: recency is one clock here. With skewed clocks newest-wins
  keeps nothing the code could be held to.
- Network file systems whose locks or renames are weaker than advisory locks and
  atomic renames on a local disk.
- The contents of text, reports, envelopes and documents, and all formatting.
- Of the trace, sessions and branches; of the tracker, containers, relations, the second
  lane, the fields the team owns, status proposals, and how far our clock is from the
  tracker's; of the queue, failed saves and re-reads; of checks, progress notices and
  failed saves.
- A boot whose load fails, which starts from an empty memory.
- The broadcast socket: the published number of clients may be out of order
  (`infra/broadcast.rs:223`), which a viewer shows and nothing relies on.
- Of the tracker providers all but which items a call changes or returns; sign-in,
  telemetry, MCP dispatch, reports, the viewer and the npm wrapper: transport, or no state that outlives a call.
