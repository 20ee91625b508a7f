----------------------------- MODULE AtomicSave -----------------------------
(***************************************************************************)
(* What a save under the lock promises, with no lock in it: servers that   *)
(* each work on a memory of their own, and one file that takes a server's  *)
(* memory in all at once, merged with what the file holds at that moment,  *)
(* or not at all, or, when the file could not be read, written over by it. *)
(* MergeSave is how the code does it, in two steps and with crashes        *)
(* between them; the families that save by it and never remove their file  *)
(* are to implement this.                                                  *)
(***************************************************************************)
CONSTANTS Proc,        \* server processes
          NoFile,      \* the file does not exist
          State,       \* what a memory or a file may hold
          Empty,       \* what a server starts from when there is no file
          Merge(_, _)  \* the family's merge: Merge(memory, disk)

VARIABLES mem,   \* mem[p]: the memory of p
          busy,  \* busy[p]: "down", "idle", "saving" a change, or doing so "blind"
          disk   \* the file

vars == <<mem, busy, disk>>

Init ==
  /\ mem = [p \in Proc |-> Empty]
  /\ busy = [p \in Proc |-> "down"]
  /\ disk = NoFile

Turn(p, from, to) == busy[p] = from /\ busy' = [busy EXCEPT ![p] = to]

OthersKeep(p) == \A q \in Proc \ {p} : mem'[q] = mem[q]

\* p changes its memory, in whatever way, and has that to save.
Change(p) ==
  /\ Turn(p, "idle", "saving")
  /\ mem' \in [Proc -> State] /\ OthersKeep(p)
  /\ UNCHANGED disk

\* The change is saved on top of all that was saved before it.
Save(p) ==
  /\ Turn(p, "saving", "idle")
  /\ disk' = IF disk = NoFile THEN mem[p] ELSE Merge(mem[p], disk)
  /\ UNCHANGED mem

\* The file is there and could not be read, so the change will be written over it.
GoBlind(p) == disk # NoFile /\ Turn(p, "saving", "blind") /\ UNCHANGED <<mem, disk>>

Overwrite(p) ==
  /\ Turn(p, "blind", "idle")
  /\ disk' = mem[p]
  /\ UNCHANGED mem

\* The change is not saved, and the server goes on with it in memory.
Fail(p) ==
  /\ \E from \in {"saving", "blind"} : Turn(p, from, "idle")
  /\ UNCHANGED <<mem, disk>>

Boot(p) ==
  /\ Turn(p, "down", "idle")
  /\ mem' = [mem EXCEPT ![p] = IF disk = NoFile THEN Empty ELSE disk]
  /\ UNCHANGED disk

Crash(p) ==
  /\ \E from \in {"idle", "saving", "blind"} : Turn(p, from, "down")
  /\ mem' = [mem EXCEPT ![p] = Empty]
  /\ UNCHANGED disk

Next ==
  \E p \in Proc :
    Change(p) \/ Save(p) \/ GoBlind(p) \/ Overwrite(p) \/ Fail(p) \/ Boot(p) \/ Crash(p)

Spec == Init /\ [][Next]_vars
=============================================================================
