-------------------------- MODULE StoreDurability --------------------------
(***************************************************************************)
(* The two-copy store file of src/daemon/src/store.ts: a generation is     *)
(* written to the recovery copy and then to the primary one, each by       *)
(* write-temporary, rename, directory fsync; a load picks the higher       *)
(* generation, quarantines a corrupt copy and heals the other one.         *)
(*                                                                         *)
(* A rename is seen by every later read at once (files) but survives a     *)
(* power loss only once the directory is synced (disk).  Every step can    *)
(* throw, the process can be killed between any two of them, the power can *)
(* fail, and a copy can rot.  One fault at a time (an operation that ends  *)
(* with an unsynced rename, or a rotten copy) is survived, and the next    *)
(* one may come as soon as both copies are again equal and synced; after   *)
(* two at a time the code can only refuse an unreadable store.             *)
(***************************************************************************)
EXTENDS Naturals

CONSTANTS
  Missing,      \* no file at the path
  Corrupt,      \* a file that does not parse as a store
  NoData,       \* the in-memory copy is absent (data = null)
  MaxCommits    \* bound: values ever handed to the store

ASSUME MaxCommitsAssumption == MaxCommits \in Nat \ {0}

Files == {"primary", "recovery"}
Other(f) == CHOOSE g \in Files : g # f

(* A parsed store.  Values are numbered in the order in which they were    *)
(* handed to the store; 0 is the empty store.  old marks a schema version  *)
(* that load still has to migrate.                                         *)
Store == [generation : Nat, value : Nat, old : BOOLEAN]
EmptyStore == [generation |-> 0, value |-> 0, old |-> FALSE]

ASSUME MarkersAssumption == Missing # Corrupt /\ \A x \in {Missing, Corrupt, NoData} : x \notin Store

Kinds == {"load", "save", "snapshot", "replace", "remove"}
Renames == {"heal", "writeRecovery", "writePrimary"}
Syncs == {"quarantineSync", "healSync", "recoverySync", "primarySync", "removeSync"}
Steps == Renames \cup Syncs \cup
         {"selected", "quarantine", "committed", "removePrimary", "removeRecovery"}

VARIABLES
  files,    \* what a read of each copy returns
  disk,     \* what each copy holds after a power loss
  data,     \* the cached store of the running process
  pc,       \* "down", "ready" between operations, or the next step of one
  op,       \* the operation under way: its kind, value, and contents to write
  removing, \* a restore that removes the store is journalled as unfinished
  commits,  \* values handed to the store so far
  latest,   \* the value last returned by a load or acknowledged by a commit
  tried,    \* values handed to a commit since then
  faults    \* faults since both copies were last whole; 2 is for good

vars == <<files, disk, data, pc, op, removing, commits, latest, tried, faults>>
durable == <<files, disk>>
history == <<commits, latest, tried>>

NoOp == [kind |-> "load", value |-> 0, contents |-> EmptyStore, target |-> "primary"]

TypeOK ==
  /\ files \in [Files -> Store \cup {Missing, Corrupt}]
  /\ disk \in [Files -> Store \cup {Missing, Corrupt}]
  /\ data \in Store \cup {NoData}
  /\ pc \in Steps \cup {"down", "ready"}
  /\ op \in [kind : Kinds, value : Nat, contents : Store, target : Files]
  /\ removing \in BOOLEAN
  /\ commits \in 0..MaxCommits /\ latest \in 0..MaxCommits /\ tried \subseteq 0..MaxCommits
  /\ faults \in 0..2

---------------------------------------------------------------------------
(* committedStoreLocked: which contents the two copies stand for.          *)

Valid == {f \in Files : files[f] \in Store}
AllMissing == \A f \in Files : files[f] = Missing

Ambiguous ==
  /\ Valid = Files
  /\ files["primary"].generation = files["recovery"].generation
  /\ files["primary"] # files["recovery"]

Unreadable == Ambiguous \/ (Valid = {} /\ ~AllMissing)

Newest ==
  CHOOSE f \in Valid : \A g \in Valid : files[f].generation >= files[g].generation

(* Mutant: a store that was never written is handed on as it was read.     *)
SelectedAsRead == IF AllMissing THEN Missing ELSE files[Newest]

Selected == IF AllMissing THEN EmptyStore ELSE files[Newest]

(* Mutant: only a corrupt copy is healed, an older one is left alone.      *)
StaleIfCorrupt == {f \in Files : files[f] = Corrupt /\ ~AllMissing}

Stale == IF AllMissing THEN {} ELSE {f \in Files : files[f] # Selected}

(* Both copies hold the same store (or none) and would after a power loss. *)
Whole(after) == after["primary"] = after["recovery"] /\ after["primary"] # Corrupt

---------------------------------------------------------------------------
(* A value is returned to, or acknowledged to, the caller.                 *)
Observe(v) == latest' = v /\ tried' = {}

(* The operation returns normally.  Remove only drops the cached store.    *)
Return(kept) ==
  /\ pc' = "ready"
  /\ op' = NoOp
  /\ data' = kept

(* committedStoreLocked decides what to heal before the operation goes on. *)
Enter(kind, v) ==
  /\ ~Unreadable
  /\ op' = [kind |-> kind, value |-> v, contents |-> Selected,
            target |-> IF Stale = {} THEN "primary" ELSE CHOOSE f \in Stale : TRUE]
  /\ pc' = IF Stale = {} THEN "selected"
           ELSE IF files[CHOOSE f \in Stale : TRUE] = Corrupt THEN "quarantine"
           ELSE "heal"
  /\ UNCHANGED <<durable, removing, faults>>

(* No valid copy, or two different copies of one generation: the caller    *)
(* gets StoreCorruptionError; save and replaceSnapshot drop the cache.     *)
Refuse(kind) ==
  /\ Unreadable
  /\ data' = IF kind \in {"save", "replace"} THEN NoData ELSE data
  /\ UNCHANGED <<durable, pc, op, removing, faults>>

(* A value never handed to the store before.                               *)
Handed(v) == v = commits + 1 /\ v <= MaxCommits /\ commits' = v

Load ==
  /\ pc = "ready" /\ ~removing /\ data = NoData
  /\ (Enter("load", 0) /\ UNCHANGED data) \/ Refuse("load")
  /\ UNCHANGED history

(* A mutator edits the cached store in place and calls save.               *)
Save ==
  /\ pc = "ready" /\ ~removing /\ data # NoData
  /\ Handed(commits + 1)
  /\ tried' = tried \cup {commits + 1}
  /\ \/ Enter("save", commits + 1) /\ data' = [data EXCEPT !.value = commits + 1]
     \/ Refuse("save")
  /\ UNCHANGED latest

ReadSnapshot ==
  /\ pc = "ready" /\ ~removing /\ data # NoData
  /\ (Enter("snapshot", 0) /\ UNCHANGED data) \/ Refuse("snapshot")
  /\ UNCHANGED history

(* replaceSnapshot with contents, as a restore installs them.              *)
ReplaceSnapshot ==
  /\ pc = "ready" /\ ~removing
  /\ Handed(commits + 1)
  /\ tried' = tried \cup {commits + 1}
  /\ (Enter("replace", commits + 1) /\ UNCHANGED data) \/ Refuse("replace")
  /\ UNCHANGED latest

(* replaceSnapshot(null): a restore rolls back to "no store".  It runs from *)
(* the journal, which runs it again until it has finished.                 *)
RemoveSnapshot ==
  /\ pc = "ready"
  /\ removing' = TRUE
  /\ tried' = tried \cup {0}
  /\ op' = [NoOp EXCEPT !.kind = "remove"]
  /\ pc' = "removePrimary"
  /\ UNCHANGED <<durable, data, faults, commits, latest>>

(* Another Store instance of the same process, which shares the process's  *)
(* lock, commits: journal recovery opens one of its own.  Its steps are    *)
(* those below, taken here at once on two whole copies.                    *)
OtherInstanceCommits ==
  /\ pc = "ready" /\ ~removing
  /\ files = disk /\ Whole(files)
  /\ Handed(commits + 1)
  /\ files' = [f \in Files |-> [generation |-> Selected.generation + 1,
                                value |-> commits + 1, old |-> FALSE]]
  /\ disk' = files'
  /\ Observe(commits + 1)
  /\ UNCHANGED <<data, pc, op, removing, faults>>

---------------------------------------------------------------------------
(* The steps of an operation, each one file-system call that can fail.     *)

(* Mutant: the committed contents keep the generation they replace.        *)
PrepareSameGeneration(v) ==
  /\ op' = [op EXCEPT !.contents = [@ EXCEPT !.value = v, !.old = FALSE]]
  /\ pc' = "writeRecovery"
  /\ UNCHANGED <<durable, data, removing, faults, history>>

(* commitLocked prepares the next generation once both copies agree.       *)
Prepare(v) ==
  /\ op' = [op EXCEPT !.contents = [generation |-> @.generation + 1, value |-> v, old |-> FALSE]]
  /\ pc' = "writeRecovery"
  /\ UNCHANGED <<durable, data, removing, faults, history>>

FinishRead(kept) ==
  /\ Return(kept)
  /\ Observe(op.contents.value)
  /\ UNCHANGED <<durable, removing, faults, commits>>

ResolveLoad ==
  /\ op.kind = "load"
  /\ \/ op.contents.old /\ Prepare(op.contents.value)
     \/ ~op.contents.old /\ FinishRead(op.contents)

ResolveSave ==
  /\ op.kind = "save"
  /\ \/ data.generation = op.contents.generation /\ Prepare(op.value)
     \/ /\ data.generation # op.contents.generation     \* StoreConflictError
        /\ Return(NoData)
        /\ UNCHANGED <<durable, removing, faults, history>>

Resolve ==
  /\ pc = "selected"
  /\ \/ ResolveLoad
     \/ ResolveSave
     \/ op.kind = "snapshot" /\ FinishRead(data)
     \/ op.kind = "replace" /\ Prepare(op.value)

(* quarantineLocked moves the corrupt copy out of the way.                 *)
Quarantine ==
  /\ pc = "quarantine"
  /\ files' = [files EXCEPT ![op.target] = Missing]
  /\ pc' = "quarantineSync"
  /\ UNCHANGED <<disk, data, op, removing, faults, history>>

RenameTarget ==
  CASE pc = "heal" -> op.target
    [] pc = "writeRecovery" -> "recovery"
    [] pc = "writePrimary" -> "primary"

AfterRename ==
  CASE pc = "heal" -> "healSync"
    [] pc = "writeRecovery" -> "recoverySync"
    [] pc = "writePrimary" -> "primarySync"

(* atomicWrite: the temporary file, already written and synced, is renamed *)
(* over the copy.                                                          *)
Rename ==
  /\ pc \in Renames
  /\ files' = [files EXCEPT ![RenameTarget] = op.contents]
  /\ pc' = AfterRename
  /\ UNCHANGED <<disk, data, op, removing, faults, history>>

AfterSync ==
  CASE pc = "quarantineSync" -> "heal"
    [] pc = "healSync" -> "selected"
    [] pc = "recoverySync" -> "writePrimary"
    [] pc \in {"primarySync", "removeSync"} -> "committed"

(* syncDirectory: both copies are entries of the same directory.           *)
Sync ==
  /\ pc \in Syncs
  /\ disk' = files
  /\ pc' = AfterSync
  /\ faults' = IF Whole(files) /\ faults < 2 THEN 0 ELSE faults
  /\ UNCHANGED <<files, data, op, removing, history>>

RemovePrimary ==
  /\ pc = "removePrimary"
  /\ files' = [files EXCEPT !["primary"] = Missing]
  /\ pc' = "removeRecovery"
  /\ UNCHANGED <<disk, data, op, removing, faults, history>>

RemoveRecovery ==
  /\ pc = "removeRecovery"
  /\ files' = [files EXCEPT !["recovery"] = Missing]
  /\ pc' = "removeSync"
  /\ UNCHANGED <<disk, data, op, removing, faults, history>>

(* The commit, or the removal, is acknowledged to its caller.              *)
Acknowledge ==
  /\ pc = "committed"
  /\ IF op.kind = "remove"
       THEN Return(NoData) /\ Observe(0) /\ removing' = FALSE
       ELSE Return(op.contents) /\ Observe(op.contents.value) /\ UNCHANGED removing
  /\ UNCHANGED <<durable, faults, commits>>

---------------------------------------------------------------------------
(* Failures.                                                               *)

(* An operation that stops now leaves a rename unsynced: a fault.          *)
Abandon == faults' = IF files # disk /\ faults < 2 THEN faults + 1 ELSE faults

(* Mutant: a failed operation leaves the cached store as it is.            *)
ThrowKeepingCache ==
  /\ pc \in Steps
  /\ Abandon
  /\ Return(data)
  /\ UNCHANGED <<durable, removing, history>>

(* A file-system call throws: save and replaceSnapshot drop the cache.     *)
Throw ==
  /\ pc \in Steps
  /\ Abandon
  /\ Return(IF op.kind \in {"save", "replace"} THEN NoData ELSE data)
  /\ UNCHANGED <<durable, removing, history>>

Stop == pc' = "down" /\ op' = NoOp /\ data' = NoData

(* The process dies; the operating system keeps its renames.               *)
Kill ==
  /\ pc # "down"
  /\ IF pc \in Steps THEN Abandon ELSE UNCHANGED faults
  /\ Stop
  /\ UNCHANGED <<durable, removing, history>>

(* The power fails: each unsynced rename is kept or lost on its own.       *)
PowerLoss ==
  /\ Stop
  /\ \E kept \in SUBSET Files :
       disk' = [f \in Files |-> IF f \in kept THEN files[f] ELSE disk[f]]
  /\ files' = disk'
  /\ UNCHANGED <<removing, faults, history>>

(* A copy rots, seen by the next read of it.  That of a lone copy, which   *)
(* only an interrupted first commit or removal leaves, is too much at once. *)
Rot(f) ==
  LET alone == files[Other(f)] \notin Store \/ disk[Other(f)] \notin Store
  IN  /\ files[f] \in Store
      /\ faults < 2
      /\ faults' = IF alone THEN 2 ELSE faults + 1
      /\ files' = [files EXCEPT ![f] = Corrupt]
      /\ disk' = [disk EXCEPT ![f] = Corrupt]
      /\ UNCHANGED <<data, pc, op, removing, history>>

Start ==
  /\ pc = "down"
  /\ pc' = "ready"
  /\ UNCHANGED <<durable, data, op, removing, faults, history>>

Init ==
  /\ \E contents \in {Missing, [generation |-> 1, value |-> 1, old |-> FALSE],
                      [generation |-> 0, value |-> 1, old |-> TRUE]} :
       files = [f \in Files |-> contents]
  /\ disk = files
  /\ data = NoData /\ pc = "down" /\ op = NoOp
  /\ removing = FALSE
  /\ commits = IF AllMissing THEN 0 ELSE 1
  /\ latest = commits /\ tried = {}
  /\ faults = 0

Begin ==
  Load \/ Save \/ ReadSnapshot \/ ReplaceSnapshot \/ RemoveSnapshot \/ OtherInstanceCommits
Step == Resolve \/ Quarantine \/ Rename \/ Sync \/ RemovePrimary \/ RemoveRecovery \/ Acknowledge
Failure == Throw \/ Kill \/ PowerLoss \/ (\E f \in Files : Rot(f))

Next == Begin \/ Step \/ Failure \/ Start
Spec == Init /\ [][Next]_vars

---------------------------------------------------------------------------
(* What a load returns, and what a commit acknowledges, is the value last  *)
(* returned or acknowledged, or one handed to the store since: no crash,   *)
(* failed write, power loss or rotten copy brings an older value back.     *)
NothingSeenIsLost ==
  [][latest' # latest /\ faults < 2 =>
       latest' \in tried \/ (latest' = commits' /\ commits' > commits)]_vars

(* committedStoreLocked never finds the two copies without a winner: a     *)
(* crash between the two writes, or one rotten copy, still leaves one      *)
(* generation to select.  While a removal is journalled nothing is read.   *)
AlwaysReadable == pc \in {"down", "ready"} /\ ~removing /\ faults < 2 => ~Unreadable

(* The cached store is what a fresh load would return, unless another      *)
(* instance has committed a newer generation, which the next save notices: *)
(* an edit made in place does not stay in the cache when its save failed,  *)
(* nor does a generation that a failed save may have reached on disk.      *)
CacheIsCurrent ==
  pc = "ready" /\ data # NoData /\ ~removing /\ faults < 2 =>
    Selected = data \/ Selected.generation > data.generation
=============================================================================
