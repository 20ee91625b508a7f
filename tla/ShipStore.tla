------------------------------ MODULE ShipStore ------------------------------
(***************************************************************************)
(* The ship family: the execution cycle (one objective and its plan) as    *)
(* several server processes on one project keep it, each in memory and     *)
(* all in one file (ship/engine/mod.rs, ship/persistence.rs).              *)
(*                                                                         *)
(* Abstracted: descriptions, artifacts and times of day.  created_at, the  *)
(* identity of a cycle, is the value of a clock that ticks at every tool   *)
(* call; 0 is the absent stamp of a state with no objective.               *)
(***************************************************************************)
EXTENDS Subsequence, SequencesExt

CONSTANTS Proc,       \* server processes
          NoFile,     \* the store file does not exist
          TaskId,     \* task ids a caller uses
          AfterId,    \* task ids a caller of reorder names as `after`
          CheckKind,  \* kinds of required check: "failed" matters below
          IOErrors,   \* whether a save, or its re-read, may fail
          MaxClock,   \* bound on the number of tool calls
          MaxAction,  \* bound on next_action_id
          MaxTasks    \* bound on the length of one plan

VARIABLES mem, pc, read, disk,  \* as in MergeSave
          clock,  \* the time: the number of tool calls so far
          resetAt, \* history: when the last reset was
          spared, \* history: the cycles, by their stamps, that other servers
                  \* had in memory or had read when it came
          acked   \* history: <<cycle stamp, line, id>> of every task a saved
                  \* reply listed, the cycle being current, and nobody asked
                  \* to remove since; a reset empties it, and so does a save
                  \* that could not re-read the file

resets == <<resetAt, spared>>
vars == <<mem, pc, read, disk, clock, resets, acked>>

InFlight == {"defined", "active"}
ObjectiveStatus == InFlight \cup {"none", "completed"}
TaskStatus == {"planned", "active", "blocked", "completed"}

\* `line` is history: the stamp the objective had when it was fresh, which
\* overwriting it in flight does not change.  `born` is the line a task was
\* added in.
TaskWith(kinds) == [id : TaskId, status : TaskStatus, actions : SUBSET Nat,
                    checks : SUBSET kinds, born : Nat]

CycleWith(kinds) == [stamp : Nat, line : Nat, status : ObjectiveStatus,
                     tasks : Seq(TaskWith(kinds)), nextAction : Nat]

Cycle == CycleWith(CheckKind)

ASSUME NoFileAssumption == NoFile \notin Cycle

Fresh == [stamp |-> 0, line |-> 0, status |-> "none", tasks |-> <<>>,
          nextAction |-> 1]

Ids(tasks) == {tasks[i].id : i \in DOMAIN tasks}
Active(tasks) == {i \in DOMAIN tasks : tasks[i].status = "active"}

\* The first task of that id, as `position` finds it; 0 when there is none.
TaskIndex(tasks, id) == SelectInSeq(tasks, LAMBDA t : t.id = id)

-----------------------------------------------------------------------------
(* The merge of a save.                                                     *)

\* The loop over the disk's tasks: each is appended unless its id is there.
UnionById(tasks, more) ==
  tasks \o Picked(more, {i \in DOMAIN more :
                          more[i].id \notin Ids(tasks) \cup Ids(SubSeq(more, 1, i - 1))})

\* Mutants of MergeStates: the file's own tasks are dropped, a stale server
\* wins, the action counter is not folded.
MergeDropsDiskTasks(memory, onDisk) ==
  IF onDisk.stamp > memory.stamp THEN onDisk ELSE memory

MergeKeepsStaleCycle(memory, onDisk) ==
  IF memory.stamp = onDisk.stamp THEN MergeDropsDiskTasks(memory, onDisk) ELSE memory

MergeKeepsCounter(memory, onDisk) ==
  IF memory.stamp = onDisk.stamp
  THEN [memory EXCEPT !.tasks = UnionById(@, onDisk.tasks)]
  ELSE MergeDropsDiskTasks(memory, onDisk)

\* Same cycle: memory's tasks, then those only the disk knows.  Different
\* cycles: the newer one outright.
MergeStates(memory, onDisk) ==
  IF memory.stamp = onDisk.stamp
  THEN [memory EXCEPT
          !.tasks = UnionById(@, onDisk.tasks),
          !.nextAction = IF @ >= onDisk.nextAction THEN @ ELSE onDisk.nextAction]
  ELSE IF onDisk.stamp > memory.stamp THEN onDisk ELSE memory

Store == INSTANCE MergeSave WITH Merge <- MergeStates

-----------------------------------------------------------------------------
(* The operations of ShipEngine.                                            *)

Init ==
  /\ mem = [p \in Proc |-> Fresh]
  /\ pc = [p \in Proc |-> "down"]
  /\ read = [p \in Proc |-> NoFile]
  /\ disk = NoFile
  /\ clock = 0
  /\ resetAt = 0
  /\ spared = {}
  /\ acked = {}

Tick == clock < MaxClock /\ clock' = clock + 1

\* Every mutation keeps the rest and ends in `persist`.
Update(p, memory) == Store!Mutate(p, memory) /\ Tick /\ UNCHANGED <<resets, acked>>

\* Mutants of SetObjective: the plan is always kept, or always cleared.
SetObjectiveKeeping(p, tasks) ==
  Update(p, [stamp |-> clock + 1, status |-> "defined", tasks |-> tasks,
             line |-> IF mem[p].status \in InFlight THEN mem[p].line ELSE clock + 1,
             nextAction |-> mem[p].nextAction])

SetObjectiveKeepsAll(p) == SetObjectiveKeeping(p, mem[p].tasks)

SetObjectiveClearsAll(p) == SetObjectiveKeeping(p, <<>>)

SetObjective(p) ==
  LET m == mem[p]
      finished == m.status = "completed"
  IN Update(p,
       [stamp      |-> clock + 1,
        line       |-> IF m.status \in InFlight THEN m.line ELSE clock + 1,
        status     |-> "defined",
        tasks      |-> IF finished THEN <<>> ELSE m.tasks,
        nextAction |-> IF finished THEN 1 ELSE m.nextAction])

\* Nothing refuses an id the plan already has.
AddTask(p, id) ==
  /\ Len(mem[p].tasks) < MaxTasks
  /\ Update(p, [mem[p] EXCEPT
                  !.status = IF @ = "defined" THEN "active" ELSE @,
                  !.tasks = Append(@, [id |-> id, status |-> "planned",
                                       actions |-> {}, checks |-> {},
                                       born |-> mem[p].line])])

\* The edit of task i of p's plan.
SetTask(p, i, task) == Update(p, [mem[p] EXCEPT !.tasks[i] = task])

RemoveTask(p, id) ==
  LET i == TaskIndex(mem[p].tasks, id) IN
  /\ i # 0
  /\ mem[p].tasks[i].status \notin {"active", "completed"}
  /\ Store!Mutate(p, [mem[p] EXCEPT !.tasks = RemoveAt(@, i)])
  /\ Tick
  /\ acked' = {a \in acked : a[2] # mem[p].line \/ a[3] # id}
  /\ UNCHANGED resets

\* Moves a task behind `after`, or to the front when no `after` is given.
ReorderTask(p, id, after) ==
  LET i == TaskIndex(mem[p].tasks, id)
      rest == RemoveAt(mem[p].tasks, i)
      at == TaskIndex(rest, after)
  IN /\ i # 0
     /\ at # 0
     /\ Update(p, [mem[p] EXCEPT
                     !.tasks = InsertAt(rest, at + 1, mem[p].tasks[i])])

ReorderTaskFirst(p, id) ==
  LET i == TaskIndex(mem[p].tasks, id) IN
  /\ i # 0
  /\ Update(p, [mem[p] EXCEPT
                  !.tasks = <<@[i]>> \o RemoveAt(@, i)])

\* The task is taken out before `after` is looked up: when the look-up fails
\* the call returns an error, nothing is saved, and memory has lost the task.
ReorderTaskFails(p, id, after) ==
  LET i == TaskIndex(mem[p].tasks, id)
      rest == RemoveAt(mem[p].tasks, i)
  IN /\ pc[p] = "idle"
     /\ i # 0
     /\ TaskIndex(rest, after) = 0
     /\ mem' = [mem EXCEPT ![p].tasks = rest]
     /\ Tick
     /\ UNCHANGED <<pc, read, disk, resets, acked>>

StartTask(p, id) ==
  LET i == TaskIndex(mem[p].tasks, id) IN
  /\ Active(mem[p].tasks) = {}
  /\ i # 0
  /\ mem[p].tasks[i].status \in {"planned", "blocked"}
  /\ SetTask(p, i, [mem[p].tasks[i] EXCEPT !.status = "active"])

CompleteTask(p, id) ==
  LET i == TaskIndex(mem[p].tasks, id) IN
  /\ i # 0
  /\ mem[p].tasks[i].status \in {"active", "blocked"}
  /\ SetTask(p, i, [mem[p].tasks[i] EXCEPT !.status = "completed"])

BlockTask(p, id) ==
  LET i == TaskIndex(mem[p].tasks, id) IN
  /\ i # 0
  /\ mem[p].tasks[i].status = "active"
  /\ SetTask(p, i, [mem[p].tasks[i] EXCEPT !.status = "blocked"])

\* Mutant of RecordAction: the counter stays where it is.
RecordActionReusesId(p, id) ==
  LET i == TaskIndex(mem[p].tasks, id) IN
  /\ i # 0
  /\ SetTask(p, i, [mem[p].tasks[i] EXCEPT !.actions = @ \cup {mem[p].nextAction}])

\* A call without task_id goes to the active task, which is one of the ids.
RecordAction(p, id) ==
  LET i == TaskIndex(mem[p].tasks, id)
      n == mem[p].nextAction
  IN /\ n < MaxAction
     /\ i # 0
     /\ Update(p, [mem[p] EXCEPT !.nextAction = n + 1,
                                 !.tasks[i].actions = @ \cup {n}])

RecordCheck(p, id, kind) ==
  LET i == TaskIndex(mem[p].tasks, id) IN
  /\ i # 0
  /\ SetTask(p, i, [mem[p].tasks[i] EXCEPT !.checks = @ \cup {kind}])

\* ship(): completes the objective, whatever it warns about.
Finalize(p) ==
  /\ Update(p, [mem[p] EXCEPT
                  !.status = IF @ = "none" THEN @ ELSE "completed"])

\* The cycles a reset by p does not reach.
Elsewhere(p) == ({mem[q] : q \in Proc \ {p}} \cup {read[q] : q \in Proc}) \ {NoFile}

Reset(p) ==
  /\ Store!Clear(p, Fresh)
  /\ acked' = {}
  /\ Tick
  /\ resetAt' = clock'
  /\ spared' = {m.stamp : m \in Elsewhere(p)}

\* The steps that are no tool call.
Quiet == UNCHANGED <<clock, resets>>

\* with_persistence: a process joins the cycle the file holds.
Boot(p) == Store!Boot(p, Fresh) /\ Quiet /\ UNCHANGED acked

Crash(p) == Store!Crash(p, Fresh) /\ Quiet /\ UNCHANGED acked

LockAndRead(p) == Store!LockAndRead(p) /\ Quiet /\ UNCHANGED acked

ReadFails(p) == IOErrors /\ Store!ReadFails(p) /\ Quiet /\ UNCHANGED acked

\* What was acknowledged, but for what an unread save writes over.
Promised(p) == IF Store!Unread(p) THEN {} ELSE acked

\* The reply that follows a completed save lists the plan in memory.  A save
\* into a cycle that was replaced meanwhile promises nothing.
RenameAndUnlock(p) ==
  /\ Store!RenameAndUnlock(p)
  /\ acked' = IF disk'.stamp # mem[p].stamp THEN acked
              ELSE Promised(p) \cup {<<mem[p].stamp, mem[p].line, id>> :
                                       id \in Ids(mem[p].tasks)}
  /\ Quiet

SaveFails(p) == IOErrors /\ Store!SaveFails(p) /\ Quiet /\ UNCHANGED acked

Next ==
  \E p \in Proc :
    \/ SetObjective(p)
    \/ \E id \in TaskId :
         \/ AddTask(p, id)
         \/ RemoveTask(p, id)
         \/ \E after \in AfterId : ReorderTask(p, id, after)
         \/ \E after \in AfterId : ReorderTaskFails(p, id, after)
         \/ ReorderTaskFirst(p, id)
         \/ StartTask(p, id)
         \/ CompleteTask(p, id)
         \/ BlockTask(p, id)
         \/ RecordAction(p, id)
         \/ \E kind \in CheckKind : RecordCheck(p, id, kind)
    \/ Finalize(p)
    \/ Reset(p)
    \/ Boot(p)
    \/ Crash(p)
    \/ LockAndRead(p)
    \/ ReadFails(p)
    \/ RenameAndUnlock(p)
    \/ SaveFails(p)

Spec == Init /\ [][Next]_vars

-----------------------------------------------------------------------------
(* Properties.                                                              *)

TypeOK ==
  /\ mem \in [Proc -> Cycle]
  /\ pc \in [Proc -> Store!PC]
  /\ read \in [Proc -> Cycle \cup {NoFile}]
  /\ disk \in Cycle \cup {NoFile}
  /\ clock \in Nat
  /\ resetAt \in Nat
  /\ spared \subseteq Nat
  /\ acked \subseteq Nat \X Nat \X TaskId

\* Every plan there is: the engines' and the file's.
Plans == {mem[p] : p \in Proc} \cup ({disk} \ {NoFile})

\* A task some server was told is in the plan stays in the file for as long as
\* the file holds that cycle, whatever stale servers save (merge_states:
\* "disk-only tasks another process acked survive"), unless a save that could not
\* re-read the file writes over it.
AckedTasksSurvive ==
  \A a \in acked :
    /\ disk # NoFile
    /\ a[1] = disk.stamp => a[3] \in Ids(disk.tasks)

\* Short of a reset and of an unread save, the file never goes back to an older cycle:
\* a server still working in a cycle that was replaced cannot bring it back.
CycleNeverRegresses ==
  [][disk # NoFile /\ disk' # NoFile => disk'.stamp >= disk.stamp \/ Store!Overwrites]_vars

\* A cycle that a reset removed comes back only by a server, or a save under way, that
\* had it when the reset came, and never by the server that was reset, through merges,
\* failed re-reads, crashes and restarts.  (merge_states promises that none brings it
\* back: ResetIsFinal.)
OnlyHoldersUndoAReset ==
  disk # NoFile /\ disk.stamp \in 1 .. resetAt => disk.stamp \in spared

\* A cycle begun after another was finished holds none of its tasks, in memory
\* or on file, even when servers of both cycles save in turn (set_objective:
\* "a fresh objective never inherits the prior cycle's tasks").  Tasks planned
\* before any objective was set carry over.
FreshCycleInheritsNothing ==
  \A m \in Plans : \A i \in DOMAIN m.tasks : m.tasks[i].born \in {0, m.line}

\* The next action id of any plan is above every action the plan holds, so the
\* id a server hands out is new to what that server knows, after every merge,
\* reload and fresh cycle.
ActionCounterIsFresh ==
  \A m \in Plans : \A i \in DOMAIN m.tasks :
    \A n \in m.tasks[i].actions : n < m.nextAction

\* No action id is used twice in the plan on file (merge_states: "so action ids
\* never regress").
ActionIdsAreUnique ==
  disk # NoFile =>
    \A i, j \in DOMAIN disk.tasks :
      i # j => disk.tasks[i].actions \cap disk.tasks[j].actions = {}

\* As documented, not kept between servers or after a failed reorder: at most one task
\* of the plan on file is active (ship_start: "Only one task can be active at a time").
OneActiveTask == disk # NoFile => Cardinality(Active(disk.tasks)) <= 1

\* As documented, not kept between servers: the file never holds a cycle that was set
\* before the last reset (merge_states: "`reset` resurrection-proof against stale
\* writers").
ResetIsFinal ==
  disk # NoFile => disk.stamp = 0 \/ disk.stamp > resetAt

\* Overwriting an objective in flight keeps the tasks acknowledged for it
\* (ship_set_objective: "overwriting an IN-FLIGHT objective preserves its
\* tasks").
InFlightOverwriteKeepsTasks ==
  disk # NoFile =>
    \A a \in acked : a[2] = disk.line => a[3] \in Ids(disk.tasks)
=============================================================================
