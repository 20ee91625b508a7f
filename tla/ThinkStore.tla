----------------------------- MODULE ThinkStore -----------------------------
(***************************************************************************)
(* The think family: the reasoning trace of one project as several server  *)
(* processes keep it in memory and in one file (think/engine,              *)
(* think/persistence).  Sessions are off, as they are by default.          *)
(*                                                                         *)
(* Memory is a window over the file: old steps are trimmed from memory and *)
(* stay on file.  A step is its identity (record id and content key, which *)
(* never change) and its number (which a start-up may rewrite).  What a    *)
(* step says, pins, references between steps and branches are abstracted.  *)
(*                                                                         *)
(* Saves follow MergeSave, failures included, with two differences that    *)
(* matter here: some replace the file outright, and a wipe removes the     *)
(* lock file with the history, so that "the" lock is the one a save opened. *)
(***************************************************************************)
EXTENDS Integers, Sequences, FiniteSets, SequencesExt, Subsequence

CONSTANTS Proc,       \* server processes
          NoFile,     \* no history: the file does not exist, the server is down
          Legacy,     \* this project's steps in the legacy global file
          OldFile,    \* the history on file at first
          Elsewhere,  \* steps other machines pushed to the cloud
          Asked,      \* numbers callers give explicitly
          Window,     \* max_history_size
          IOErrors,   \* whether saves may fail, and their reads of the file
          MaxMinted,  \* bound on the steps recorded
          MaxWipes    \* bound on the wipes

VARIABLES mem,      \* mem[p]: the loaded history, NoFile when p is down
          taken,    \* taken[p]: the numbers p holds for taken (step_numbers)
          index,    \* index[p]: where p looks a number up (step_index)
          saves,    \* saves[p]: the saves left in the call p is in
          stage,    \* stage[p]: how far the first of them is
          lock,     \* lock[p]: the lock file that save opened
          read,     \* read[p]: the file as read under that lock
          disk,     \* the file
          lockFile, \* the lock file that is on disk, or would be created
          cloud,    \* the steps pushed so far
          minted,   \* the number of steps recorded
          adopted,  \* history: servers that adopted pulled steps since their start
          wiped     \* history: steps the last wipe left in no server and on no wire

vars == <<mem, taken, index, saves, stage, lock, read, disk, lockFile, cloud, minted,
          adopted, wiped>>

Ids(steps) == {steps[i].id : i \in DOMAIN steps}
Numbers(steps) == {steps[i].n : i \in DOMAIN steps}
StepsOf(history) == IF history = NoFile THEN <<>> ELSE history.steps
Greatest(S) == CHOOSE n \in S : \A k \in S : k <= n

\* The steps that are there more than once.
Clones(steps) ==
  {steps[i].id : i \in {j \in DOMAIN steps : \E k \in DOMAIN steps \ {j} : steps[k].id = steps[j].id}}

Step == [id : Int, n : Nat \ {0}]
History == [steps : Seq(Step), migrated : BOOLEAN, stamped : BOOLEAN]
Fresh == [steps |-> <<>>, migrated |-> FALSE, stamped |-> FALSE]
Tombstone == [Fresh EXCEPT !.migrated = TRUE]

\* A save: what it writes, whether it folds the file in, and the step the call
\* pushes when the save is over.
Save(replace, history, pushed) == [replace |-> replace, history |-> history, pushed |-> pushed]

\* A step that is recorded is a new one.  The cloud may hold several clones of a step.
ASSUME ThinkAssumption ==
  /\ NoFile \notin History
  /\ Legacy \in Seq(Step)
  /\ OldFile \in History \cup {NoFile}
  /\ Elsewhere \subseteq Step /\ IsFiniteSet(Elsewhere)
  /\ Asked \subseteq Nat \ {0} /\ Window \in Nat \ {0} /\ IOErrors \in BOOLEAN
  /\ MaxMinted \in Nat /\ MaxWipes \in Nat
  /\ \A id \in Ids(Legacy) \cup Ids(StepsOf(OldFile)) \cup {s.id : s \in Elsewhere} :
       id \notin 1 .. MaxMinted

-----------------------------------------------------------------------------
(* The pure parts: merge, trim, dedupe, renumber.                           *)

\* A stable sort by number.
Sorted(steps) ==
  LET Before(i, k) == steps[i].n < steps[k].n \/ (steps[i].n = steps[k].n /\ i < k)
      Rank(k) == 1 + Cardinality({i \in DOMAIN steps : Before(i, k)})
  IN [r \in DOMAIN steps |-> steps[CHOOSE k \in DOMAIN steps : Rank(k) = r]]

\* Mutant of MergeHistories: a step is known by its number alone.
MergeByNumber(memory, onDisk) ==
  LET new == Picked(onDisk.steps,
                    {i \in DOMAIN onDisk.steps : onDisk.steps[i].n \notin Numbers(memory.steps)})
  IN [memory EXCEPT !.steps = IF new = <<>> THEN @ ELSE Sorted(@ \o new)]

\* merge_histories: memory wins, a step of the file comes in unless memory knows it
\* by number or by identity; metadata are memory's.
MergeHistories(memory, onDisk) ==
  LET new == Picked(onDisk.steps,
                    {i \in DOMAIN onDisk.steps : /\ onDisk.steps[i].n \notin Numbers(memory.steps)
                                                 /\ onDisk.steps[i].id \notin Ids(memory.steps)})
  IN [memory EXCEPT !.steps = IF new = <<>> THEN @ ELSE Sorted(@ \o new)]

Trimmed(steps) == IF Len(steps) <= Window THEN steps
                  ELSE SubSeq(steps, Len(steps) - Window + 1, Len(steps))

\* A number is looked up at the last step that bears it.
IndexOf(steps) ==
  [n \in Numbers(steps) |-> Greatest({i \in DOMAIN steps : steps[i].n = n})]

\* Of the copies of a step only the first with the lowest number stays.
Keeper(steps, i) ==
  \A k \in DOMAIN steps \ {i} : steps[k].id = steps[i].id =>
     steps[i].n < steps[k].n \/ (steps[i].n = steps[k].n /\ i < k)

Dedupe(history) ==
  IF ~history.stamped THEN history
  ELSE [history EXCEPT !.steps = Picked(@, {i \in DOMAIN @ : Keeper(@, i)})]

Renumber(history) ==
  IF history.stamped /\ Cardinality(Numbers(history.steps)) # Len(history.steps)
  THEN [history EXCEPT !.steps = [i \in DOMAIN @ |-> [@[i] EXCEPT !.n = i]]]
  ELSE history

-----------------------------------------------------------------------------
Init ==
  /\ mem = [p \in Proc |-> NoFile]
  /\ taken = [p \in Proc |-> {}]
  /\ index = [p \in Proc |-> <<>>]
  /\ saves = [p \in Proc |-> <<>>]
  /\ stage = [p \in Proc |-> "none"]
  /\ lock = [p \in Proc |-> 0]
  /\ read = [p \in Proc |-> NoFile]
  /\ disk = OldFile
  /\ lockFile = 0
  /\ cloud = Elsewhere
  /\ minted = 0
  /\ adopted = {}
  /\ wiped = {}

saving == <<stage, lock, read>>

\* Calls run one at a time, under the engine mutex, saves included.
Free(p) == mem[p] # NoFile /\ saves[p] = <<>>
Become(p, history) == mem' = [mem EXCEPT ![p] = history]
ToSave(p, list) == saves' = [saves EXCEPT ![p] = list]

\* Mutant of Reindexed: the table keeps its positions when steps are trimmed.
ReindexedNever(table, n, all, kept) ==
  [k \in DOMAIN table \cup {n} |-> IF k = n THEN Len(all) ELSE table[k]]

Reindexed(table, n, all, kept) ==
  IF kept # all THEN IndexOf(kept)
  ELSE [k \in DOMAIN table \cup {n} |-> IF k = n THEN Len(all) ELSE table[k]]

\* process_step: append, trim, save, push.
Recorded(p, n) ==
  LET step == [id |-> minted + 1, n |-> n]
      all == Append(mem[p].steps, step)
      kept == Trimmed(all)
      history == [mem[p] EXCEPT !.steps = kept, !.stamped = TRUE]
      dropped == Numbers(SubSeq(all, 1, Len(all) - Len(kept)))
  IN /\ Free(p) /\ minted < MaxMinted
     /\ Become(p, history)
     /\ taken' = [taken EXCEPT ![p] = (@ \cup {n}) \ dropped]
     /\ index' = [index EXCEPT ![p] = Reindexed(@, n, all, kept)]
     /\ ToSave(p, <<Save(FALSE, history, {step})>>)
     /\ minted' = minted + 1
     /\ UNCHANGED <<saving, disk, lockFile, cloud, adopted, wiped>>

NextNumber(p) == IF taken[p] = {} THEN 1 ELSE Greatest(taken[p]) + 1

\* A new step gets the next number when it brings none (0) or one that is taken.
Record(p, n) == Recorded(p, IF n = 0 \/ n \in taken[p] THEN NextNumber(p) ELSE n)

\* A revision, or a step of a branch, keeps its number, taken or not.
Revise(p, n) == n > 0 /\ Recorded(p, n)

\* revise_estimate, pin_step and set_branch_status change what is abstracted.
Resave(p) ==
  /\ Free(p) /\ mem[p].steps # <<>>
  /\ ToSave(p, <<Save(FALSE, mem[p], {})>>)
  /\ UNCHANGED <<mem, taken, index, saving, disk, lockFile, cloud, minted, adopted, wiped>>

-----------------------------------------------------------------------------
(* Start-up, pulls and wipes.                                               *)

\* load_default: the project's steps in the legacy file are adopted once.
Load(onDisk) ==
  LET base == IF onDisk = NoFile THEN Fresh ELSE onDisk
      merged == [MergeHistories(base, [Fresh EXCEPT !.steps = Legacy]) EXCEPT !.migrated = TRUE]
  IN IF base.migrated \/ Legacy = <<>> THEN [history |-> base, saves |-> <<>>]
     ELSE [history |-> merged, saves |-> <<Save(FALSE, merged, {})>>]

\* Clones are dropped, then numbers made unique; each that changes something
\* replaces the file.
Boot(p) ==
  LET loaded == Load(disk)
      deduped == Dedupe(loaded.history)
      numbered == Renumber(deduped)
      Rewrite(from, to) == IF from = to THEN <<>> ELSE <<Save(TRUE, to, {})>>
  IN /\ mem[p] = NoFile
     /\ Become(p, numbered)
     /\ taken' = [taken EXCEPT ![p] = Numbers(numbered.steps)]
     /\ index' = [index EXCEPT ![p] = IndexOf(numbered.steps)]
     /\ ToSave(p, loaded.saves \o Rewrite(loaded.history, deduped) \o Rewrite(deduped, numbered))
     /\ UNCHANGED <<saving, disk, lockFile, cloud, minted, adopted, wiped>>

\* Mutant of Singled: the pulled steps are not checked against each other.
NotSingled(steps) == {steps}

\* The ways to keep one copy of each step: the copy that is first, in any order.
Singled(steps) ==
  {kept \in SUBSET steps : /\ \A s, t \in kept : s.id = t.id => s = t
                           /\ \A s \in steps : \E t \in kept : t.id = s.id}

\* adopt_steps: of the pulled steps those the file and memory do not know, each once.
\* The numbers taken and the look-up table stay as they were.
Adopt(p, pulled) ==
  LET archive == Load(disk)
      new == {s \in pulled : /\ s.n \notin Numbers(archive.history.steps)
                             /\ s.id \notin Ids(archive.history.steps) \cup Ids(mem[p].steps)}
  IN /\ Free(p)
     /\ \E kept \in Singled(new) :
          LET merged == MergeHistories(mem[p], [Fresh EXCEPT !.steps = SetToSeq(kept)])
          IN /\ merged # mem[p]
             /\ Become(p, merged)
             /\ ToSave(p, Append(archive.saves, Save(FALSE, merged, {})))
     /\ adopted' = adopted \cup {p}
     /\ UNCHANGED <<taken, index, saving, disk, lockFile, cloud, minted, wiped>>

Cleared(p, history) ==
  /\ Free(p) /\ lockFile < MaxWipes
  /\ Become(p, history)
  /\ taken' = [taken EXCEPT ![p] = {}]
  /\ index' = [index EXCEPT ![p] = <<>>]
  /\ disk' = NoFile
  /\ lockFile' = lockFile + 1
  /\ ToSave(p, <<Save(TRUE, Tombstone, {})>>)
  /\ adopted' = adopted \ {p}
  /\ wiped' = {}
  /\ UNCHANGED <<saving, cloud, minted>>

\* Mutant of Wipe: memory does not carry the marker on.
WipeUnmarked(p) == Cleared(p, Fresh)

\* clear_history: the file and its lock file are removed, under no lock; then an
\* empty history that is marked as migrated is saved, which memory goes on from.
Wipe(p) == Cleared(p, Tombstone)

-----------------------------------------------------------------------------
(* A save: open the lock file, wait for the lock and read, rename.          *)

OpenLock(p) ==
  /\ saves[p] # <<>> /\ stage[p] = "none"
  /\ stage' = [stage EXCEPT ![p] = "opened"]
  /\ lock' = [lock EXCEPT ![p] = lockFile]
  /\ UNCHANGED <<mem, taken, index, saves, read, disk, lockFile, cloud, minted, adopted, wiped>>

\* Mutant of MayLock: nobody waits.
MayLockAnytime(p) == stage[p] = "opened"

MayLock(p) == stage[p] = "opened" /\ \A q \in Proc : stage[q] = "locked" => lock[q] # lock[p]

Locked(p, found) ==
  /\ MayLock(p)
  /\ stage' = [stage EXCEPT ![p] = "locked"]
  /\ read' = [read EXCEPT ![p] = found]
  /\ UNCHANGED <<mem, taken, index, saves, lock, disk, lockFile, cloud, minted, adopted, wiped>>

LockAndRead(p) == Locked(p, disk)

\* A file that cannot be read counts as none.
ReadFails(p) == IOErrors /\ Locked(p, NoFile)

Written(p) ==
  LET save == Head(saves[p])
  IN IF save.replace \/ read[p] = NoFile THEN save.history
     ELSE MergeHistories(save.history, read[p])

Unlocked(p) ==
  /\ stage' = [stage EXCEPT ![p] = "none"]
  /\ lock' = [lock EXCEPT ![p] = 0]
  /\ read' = [read EXCEPT ![p] = NoFile]

\* The steps somebody still holds: servers, saves under way, the cloud.
Held ==
  {s.id : s \in cloud}
  \cup UNION {Ids(StepsOf(mem[q])) \cup Ids(StepsOf(read[q]))
                \cup UNION {Ids(saves[q][i].history.steps) : i \in DOMAIN saves[q]} : q \in Proc}

EverSeen == 1 .. minted \cup Ids(Legacy) \cup Ids(StepsOf(OldFile))

Rename(p) ==
  /\ stage[p] = "locked"
  /\ disk' = Written(p)
  /\ cloud' = cloud \cup Head(saves[p]).pushed
  /\ ToSave(p, Tail(saves[p]))
  /\ Unlocked(p)
  /\ UNCHANGED <<mem, taken, index, lockFile, minted, adopted>>
  /\ wiped' = IF disk' = Tombstone THEN (wiped \cup EverSeen) \ Held' ELSE wiped

\* An error of the lock file, the write or the rename is logged; the call goes on.
SaveFails(p) ==
  /\ IOErrors /\ saves[p] # <<>>
  /\ cloud' = cloud \cup Head(saves[p]).pushed
  /\ ToSave(p, Tail(saves[p]))
  /\ Unlocked(p)
  /\ UNCHANGED <<mem, taken, index, disk, lockFile, minted, adopted, wiped>>

\* The system drops the lock of a server that dies.
Crash(p) ==
  /\ mem[p] # NoFile
  /\ Become(p, NoFile)
  /\ taken' = [taken EXCEPT ![p] = {}]
  /\ index' = [index EXCEPT ![p] = <<>>]
  /\ ToSave(p, <<>>)
  /\ Unlocked(p)
  /\ adopted' = adopted \ {p}
  /\ UNCHANGED <<disk, lockFile, cloud, minted, wiped>>

Next ==
  \E p \in Proc :
    \/ \E n \in Asked \cup {0} : Record(p, n) \/ Revise(p, n)
    \/ Resave(p)
    \/ \E pulled \in SUBSET cloud : Adopt(p, pulled)
    \/ Wipe(p)
    \/ Boot(p)
    \/ Crash(p)
    \/ OpenLock(p)
    \/ LockAndRead(p)
    \/ ReadFails(p)
    \/ Rename(p)
    \/ SaveFails(p)

Spec == Init /\ [][Next]_vars

-----------------------------------------------------------------------------
(* Properties.                                                              *)

\* The types of the variables.
TypeOK ==
  /\ mem \in [Proc -> History \cup {NoFile}]
  /\ \A p \in Proc : /\ taken[p] \subseteq Nat
                     /\ DOMAIN index[p] \subseteq Nat /\ Range(index[p]) \subseteq Nat
                     /\ saves[p] \in Seq([replace : BOOLEAN, history : History, pushed : SUBSET Step])
  /\ stage \in [Proc -> {"none", "opened", "locked"}]
  /\ lock \in [Proc -> 0 .. MaxWipes]
  /\ read \in [Proc -> History \cup {NoFile}]
  /\ disk \in History \cup {NoFile}
  /\ lockFile \in 0 .. MaxWipes
  /\ cloud \subseteq Step
  /\ minted \in 0 .. MaxMinted
  /\ adopted \subseteq Proc
  /\ wiped \subseteq EverSeen

\* p writes the file in this step.
Writing(p) == stage[p] = "locked" /\ stage'[p] = "none" /\ mem'[p] # NoFile

\* What p's save read is no longer, or never was, what the file holds: there was a wipe,
\* after which saves may share no lock, or the file could not be read.
Blind(p) == read[p] # disk /\ (lockFile > 0 \/ (IOErrors /\ read[p] = NoFile))

\* Only a wipe removes a step from the file, or a save that gives the step's number
\* to another, or one that a start-up replaces the file with; also one that shared no
\* lock with the save before it, after a wipe, or that could not read the file
\* (merge_histories: the file is "a durable archive that outlives the in-memory
\* max_history_size trim window").
OnlyKnownErasures ==
  [][\A i \in DOMAIN StepsOf(disk) :
       LET step == StepsOf(disk)[i]
       IN \/ step.id \in Ids(StepsOf(disk'))
          \/ disk' = NoFile
          \/ \E p \in Proc :
               /\ Writing(p)
               /\ \/ Head(saves[p]).replace
                  \/ step.n \in Numbers(Head(saves[p]).history.steps)
                  \/ Blind(p)]_vars

\* No step comes to be in a memory or on file twice, however start-ups renumber what
\* other servers still hold under the old numbers ("otherwise every renumber+merge
\* round duplicates the trace"), and whatever clones the cloud holds.
NoNewClones ==
  \A h \in {disk} \cup {mem[p] : p \in Proc} :
    Clones(StepsOf(h)) \subseteq Clones(StepsOf(OldFile)) \cup Clones(Legacy)

\* Once a wipe's tombstone is on file, a wiped step comes back only from a server,
\* a save under way or the cloud, never from the legacy file ("so a later restart
\* can't re-adopt steps").
WipedStaysWiped ==
  \A h \in {disk} \cup {mem[p] : p \in Proc} : Ids(StepsOf(h)) \cap wiped = {}

\* Until it adopts pulled steps, a server finds each step it holds under its number,
\* the last one of several, through trims, revisions, renumberings and wipes.
IndexIsRight ==
  \A p \in Proc : mem[p] # NoFile /\ p \notin adopted => index[p] = IndexOf(mem[p].steps)

\* As documented: "a stale process can never erase steps a concurrent process already
\* persisted"; only a wipe takes a step off the file.
NothingIsErased ==
  [][disk' # NoFile => Ids(StepsOf(disk)) \subseteq Ids(StepsOf(disk'))]_vars
=============================================================================
