----------------------------- MODULE CheckTask -----------------------------
(***************************************************************************)
(* ship_check with a command, as a task the client polls and may cancel    *)
(* (ship/mcp/handlers.rs, mcp/tasks.rs), beside every other operation of   *)
(* the ship family.  The command runs under no lock; what the check is     *)
(* credited to is resolved when it ends, and the record is made and saved  *)
(* in one turn that a cancellation cannot split.                           *)
(*                                                                         *)
(* A job is one such call.  Its check is recorded under the job's name.    *)
(* I/O errors are left out: the answer of a call does not tell whether its *)
(* save failed, so that nothing could be promised of a check's file.       *)
(* Time is left out: the task's deadline is the command's own plus a       *)
(* minute, so the sweep of expired tasks never meets a running command.    *)
(* The external task manager is modelled by the outcomes it reports.       *)
(***************************************************************************)
EXTENDS ShipStore

CONSTANTS Job,      \* calls of ship_check with a command
          NoTask    \* the caller names no task

VARIABLE job        \* job[j]: the call as its client could learn of it

varsC == <<vars, job>>

\* "recorded" is a call whose save is under way.  A call that is answered has its
\* `line`, the cycle its check went to, and the task.
Stage == {"new", "running", "recorded", "completed", "refused", "cancelled", "lost"}
NoJob == [stage |-> "new", id |-> NoTask, line |-> 0, proc |-> CHOOSE p \in Proc : TRUE]

ASSUME JobAssumption ==
  /\ Proc # {} /\ NoTask \notin TaskId /\ Job \cap CheckKind = {}
  /\ NoFile \notin CycleWith(CheckKind \cup Job)

InitC == Init /\ job = [j \in Job |-> NoJob]

Ours(p, stage) == {j \in Job : job[j].stage = stage /\ job[j].proc = p}

Settle(j, stage) == job' = [job EXCEPT ![j].stage = stage]

\* The call starts its command and touches no state.
StartCheck(p, j, id) ==
  /\ pc[p] # "down" /\ job[j].stage = "new"
  /\ job' = [job EXCEPT ![j] = [stage |-> "running", id |-> id, line |-> 0, proc |-> p]]
  /\ UNCHANGED vars

\* The task a check goes to: the one named, or else the active one.
Target(p, id) ==
  IF id # NoTask THEN id
  ELSE LET active == Active(mem[p].tasks)
       IN IF active = {} THEN NoTask ELSE mem[p].tasks[CHOOSE i \in active : \A k \in active : i <= k].id

\* Mutant of EndCheck: the call is answered before its save.
EndCheckEarly(j) ==
  LET p == job[j].proc
      id == Target(p, job[j].id)
  IN /\ job[j].stage = "running"
     /\ id # NoTask /\ RecordCheck(p, id, j)
     /\ job' = [job EXCEPT ![j] = [@ EXCEPT !.stage = "completed", !.id = id, !.line = mem[p].line]]

\* The command has ended, whatever its result: the check is recorded on the plan as
\* it is now.
EndCheck(j) ==
  LET p == job[j].proc
      id == Target(p, job[j].id)
  IN /\ job[j].stage = "running"
     /\ id # NoTask /\ RecordCheck(p, id, j)
     /\ job' = [job EXCEPT ![j] = [@ EXCEPT !.stage = "recorded", !.id = id, !.line = mem[p].line]]

\* No such task, or none is active: an error, and nothing changes.
EndCheckRefused(j) ==
  LET p == job[j].proc
  IN /\ job[j].stage = "running" /\ pc[p] = "idle"
     /\ TaskIndex(mem[p].tasks, Target(p, job[j].id)) = 0
     /\ Settle(j, "refused")
     /\ UNCHANGED vars

\* Mutant of Cancel: the record that is being made is not waited for.
CancelAnytime(j) ==
  job[j].stage \in {"running", "recorded"} /\ Settle(j, "cancelled") /\ UNCHANGED vars

\* The call is dropped, which kills its command.
Cancel(j) == job[j].stage = "running" /\ Settle(j, "cancelled") /\ UNCHANGED vars

\* The save of a record ends, and with it the call.
Answer(p) ==
  /\ RenameAndUnlock(p)
  /\ job' = [j \in Job |-> IF j \in Ours(p, "recorded") THEN [job[j] EXCEPT !.stage = "completed"]
                           ELSE job[j]]

\* Tasks are kept in the server's memory.
Die(p) ==
  /\ Crash(p)
  /\ job' = [j \in Job |-> IF j \in Ours(p, "running") \cup Ours(p, "recorded")
                           THEN [job[j] EXCEPT !.stage = "lost"] ELSE job[j]]

\* What was recorded on a task that is taken out of the plan is gone with it.
Gone(ids) == job' = [j \in Job |-> IF job[j].stage = "completed" /\ job[j].id \in ids
                                   THEN [job[j] EXCEPT !.line = -1] ELSE job[j]]

Plan(p) ==
  \/ SetObjective(p)
  \/ \E id \in TaskId : AddTask(p, id) \/ StartTask(p, id) \/ CompleteTask(p, id)
                        \/ BlockTask(p, id) \/ RecordAction(p, id)
                        \/ \E kind \in CheckKind : RecordCheck(p, id, kind)
  \/ Finalize(p)
  \/ Boot(p)
  \/ LockAndRead(p)

NextC ==
  \/ \E p \in Proc :
       \/ Plan(p) /\ UNCHANGED job
       \/ \E id \in TaskId : RemoveTask(p, id) /\ Gone({id})
       \/ Reset(p) /\ Gone(TaskId)
       \/ Answer(p)
       \/ Die(p)
  \/ \E j \in Job : \/ \E p \in Proc, id \in TaskId \cup {NoTask} : StartCheck(p, j, id)
                    \/ EndCheck(j)
                    \/ EndCheckRefused(j)
                    \/ Cancel(j)

SpecC == InitC /\ [][NextC]_varsC

-----------------------------------------------------------------------------
(* Properties.                                                              *)

\* A check whose task was cancelled or refused is in no plan, however the
\* cancellation and the end of its command fall (mcp/tasks: "neither passed nor
\* silently missing").
CancelledIsNeverRecorded ==
  \A j \in Job : job[j].stage \in {"cancelled", "refused"} =>
    \A m \in Plans : \A i \in DOMAIN m.tasks : j \notin m.tasks[i].checks

\* A check the client was told is recorded is on file, for as long as the cycle is
\* and the task is in its plan, across crashes and restarts of the server.
AnsweredIsOnFile ==
  \A j \in Job : job[j].stage = "completed" /\ disk # NoFile /\ disk.line = job[j].line =>
    LET i == TaskIndex(disk.tasks, job[j].id) IN i = 0 \/ j \in disk.tasks[i].checks
=============================================================================
