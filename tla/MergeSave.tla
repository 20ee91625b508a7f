------------------------------ MODULE MergeSave ------------------------------
(***************************************************************************)
(* The store discipline every family shares (infra/persistence.rs): each   *)
(* server process keeps the whole family state in memory, and every save   *)
(* takes an exclusive advisory lock on a sibling lock file, re-reads the   *)
(* file, folds it into a copy of memory through the family's own Merge,    *)
(* and renames the result into place.                                      *)
(*                                                                         *)
(* A save is two steps here, the read under the lock and the rename,       *)
(* because `clear` removes the file without taking the lock and a process  *)
(* can die in between.  A re-read that fails does not fail the save, which *)
(* then writes over the file.  The merged state lands on disk only: it is  *)
(* never folded back into the saver's memory.                              *)
(***************************************************************************)
CONSTANTS Proc,        \* server processes sharing one project's store
          NoFile,      \* the file does not exist
          Merge(_, _)  \* the family's merge: Merge(memory, disk)

VARIABLES mem,   \* mem[p]: the engine state of process p
          pc,    \* pc[p]: where process p stands
          read,  \* read[p]: the file as p re-read it under the lock
          disk   \* the file

\* "down": not running.  "idle": between tool calls.  "saving": memory is
\* mutated, the engine mutex is held, the save has not got the lock yet.
\* "locked": the lock is held and the file has been re-read.
PC == {"down", "idle", "saving", "locked"}

\* The OS drops an advisory lock when its holder exits, so holding it is being
\* at "locked" and nothing else.
LockFree == \A p \in Proc : pc[p] # "locked"

\* A missing file, or one that could not be read, falls back to writing memory
\* outright.
Saved(memory, onDisk) == IF onDisk = NoFile THEN memory ELSE Merge(memory, onDisk)

\* A tool call mutates the engine under its mutex and starts the save.
Mutate(p, memory) ==
  /\ pc[p] = "idle"
  /\ mem' = [mem EXCEPT ![p] = memory]
  /\ pc' = [pc EXCEPT ![p] = "saving"]
  /\ UNCHANGED <<read, disk>>

\* Mutant of LockAndRead: nobody waits for the lock.
LockAndReadUnlocked(p) ==
  /\ pc[p] = "saving"
  /\ read' = [read EXCEPT ![p] = disk]
  /\ pc' = [pc EXCEPT ![p] = "locked"]
  /\ UNCHANGED <<mem, disk>>

LockAndRead(p) ==
  /\ pc[p] = "saving"
  /\ LockFree
  /\ read' = [read EXCEPT ![p] = disk]
  /\ pc' = [pc EXCEPT ![p] = "locked"]
  /\ UNCHANGED <<mem, disk>>

\* The re-read fails, or the file cannot be parsed: the error is swallowed, and the
\* file is taken to be missing.
ReadFails(p) ==
  /\ pc[p] = "saving"
  /\ LockFree
  /\ disk # NoFile
  /\ read' = [read EXCEPT ![p] = NoFile]
  /\ pc' = [pc EXCEPT ![p] = "locked"]
  /\ UNCHANGED <<mem, disk>>

\* The save under way has not read the file that is there.
Unread(p) == pc[p] = "locked" /\ read[p] = NoFile /\ disk # NoFile

RenameAndUnlock(p) ==
  /\ pc[p] = "locked"
  /\ disk' = Saved(mem[p], read[p])
  /\ read' = [read EXCEPT ![p] = NoFile]
  /\ pc' = [pc EXCEPT ![p] = "idle"]
  /\ UNCHANGED mem

\* An unread save writes over the file, merging nothing.
Overwrites == \E p \in Proc : Unread(p) /\ RenameAndUnlock(p)

\* An I/O error of the lock or the write is logged and dropped: the tool call still
\* succeeds.
SaveFails(p) ==
  /\ pc[p] \in {"saving", "locked"}
  /\ read' = [read EXCEPT ![p] = NoFile]
  /\ pc' = [pc EXCEPT ![p] = "idle"]
  /\ UNCHANGED <<mem, disk>>

\* Mutant of Clear: the engine keeps its state.
ClearKeepsMemory(p, empty) ==
  pc[p] = "idle" /\ disk' = NoFile /\ UNCHANGED <<mem, pc, read>>

\* `clear` is a bare remove_file, whoever holds the lock.
Clear(p, empty) ==
  /\ pc[p] = "idle"
  /\ disk' = NoFile
  /\ mem' = [mem EXCEPT ![p] = empty]
  /\ UNCHANGED <<pc, read>>

\* Mutant of Boot: a missing file is not told from an empty one.
BootUnchecked(p, empty) ==
  /\ pc[p] = "down"
  /\ mem' = [mem EXCEPT ![p] = disk]
  /\ pc' = [pc EXCEPT ![p] = "idle"]
  /\ UNCHANGED <<read, disk>>

\* A process boots from the file, or from an empty engine when there is none.
Boot(p, empty) ==
  /\ pc[p] = "down"
  /\ mem' = [mem EXCEPT ![p] = IF disk = NoFile THEN empty ELSE disk]
  /\ pc' = [pc EXCEPT ![p] = "idle"]
  /\ UNCHANGED <<read, disk>>

\* A process dies anywhere, between the steps of a save included.
Crash(p, empty) ==
  /\ pc[p] # "down"
  /\ mem' = [mem EXCEPT ![p] = empty]
  /\ read' = [read EXCEPT ![p] = NoFile]
  /\ pc' = [pc EXCEPT ![p] = "down"]
  /\ UNCHANGED disk
=============================================================================
