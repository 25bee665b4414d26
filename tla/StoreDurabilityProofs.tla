------------------------ MODULE StoreDurabilityProofs ------------------------
(***************************************************************************)
(* The store file survives one fault at a time, for any number of commits, *)
(* kills and power losses.                                                 *)
(*                                                                         *)
(* A cell is what a copy reads as now or would read as after a power loss. *)
(* Whatever the operation under way, and as long as faults come one at a   *)
(* time: a corrupt copy has a good one beside it (Guarded), a generation   *)
(* means one thing (Coherent), what an operation writes is ahead of every  *)
(* cell (Ahead), and whichever cells a power loss leaves, the one that a   *)
(* load selects has a value that may still be returned (Winners); before   *)
(* any fault, so has every copy on its own (Survivors).                    *)
(***************************************************************************)
EXTENDS StoreDurability, TLAPS

Numbered == [generation : Nat, value : 0..MaxCommits, old : BOOLEAN]
Typed ==
  /\ files \in [Files -> Numbered \cup {Missing, Corrupt}]
  /\ disk \in [Files -> Numbered \cup {Missing, Corrupt}]
  /\ data \in Numbered \cup {NoData}
  /\ pc \in Steps \cup {"down", "ready"}
  /\ op \in [kind : Kinds, value : 0..MaxCommits, contents : Numbered, target : Files]
  /\ removing \in BOOLEAN
  /\ commits \in 0..MaxCommits /\ latest \in 0..MaxCommits /\ tried \subseteq 0..MaxCommits
  /\ faults \in 0..2

Good(x) == x # Missing /\ x # Corrupt
Cells(f) == {files[f], disk[f]}
Intact == ~removing /\ faults < 2

\* The values a read may return: the one last returned, and those handed over since.
Owed == tried \cup {latest}

Counted == faults = 0 => \A f \in Files : files[f] # Corrupt /\ disk[f] # Corrupt

Guarded ==
  \A f, g \in Files : f # g /\ (files[f] = Corrupt \/ disk[f] = Corrupt)
                      => Good(files[g]) /\ Good(disk[g])

Coherent ==
  \A f, g \in Files : \A x \in Cells(f), y \in Cells(g) :
    Good(x) /\ Good(y) /\ x.generation = y.generation => x = y

(* What the files say is not behind the disk, and one copy is synced.      *)
Firm ==
  /\ \A f \in Files :
       Good(disk[f]) =>
         \E g \in Files : Good(files[g]) /\ files[g].generation >= disk[f].generation
  /\ \E g \in Files : disk[g] = files[g]
Settled ==
  IF pc \in Syncs THEN faults = 0 => Firm ELSE Firm /\ (faults = 0 => files = disk)

Winners ==
  \A f, g \in Files : f # g =>
    \A a \in Cells(f), b \in Cells(g) :
      /\ Good(a) /\ (Good(b) => a.generation >= b.generation) => a.value \in Owed
      /\ a = Missing /\ b = Missing => 0 \in Owed
Survivors == faults = 0 => \A f \in Files : \A a \in Cells(f) : Good(a) => a.value \in Owed

(* The operation under way.                                                *)
Ahead ==
  \A f \in Files : \A x \in Cells(f) :
    Good(x) => /\ x.generation <= op.contents.generation
               /\ x.generation = op.contents.generation => x = op.contents
Written(f) == files[f] = op.contents \/ files[f] = Corrupt
AgreedEmpty ==
  /\ pc = "selected" /\ op.contents = EmptyStore
  /\ \A f \in Files : files[f] = Missing /\ disk[f] = Missing
AgreedFull ==
  /\ \A f \in Files : Written(f)
  /\ \E g \in Files : disk[g] = op.contents /\ files[g] = op.contents
Phases ==
  /\ pc = "quarantine" => files[op.target] = Corrupt
  /\ pc \in {"quarantine", "quarantineSync", "heal", "healSync"} =>
       \A g \in Files : g # op.target => Written(g)
  /\ pc = "healSync" => Written(op.target)
  /\ pc \in {"recoverySync", "writePrimary", "primarySync"} => Written("recovery")
  /\ pc = "primarySync" => Written("primary")
  /\ pc \in {"selected", "committed"} => AgreedEmpty \/ AgreedFull
Doing ==
  /\ Ahead
  /\ op.contents.value \in Owed
  /\ op.kind \in {"save", "replace"} => op.value \in Owed
  /\ Phases

(* The cached store.                                                       *)
Cached ==
  \/ AllMissing /\ data = EmptyStore
  \/ /\ \E f \in Files : Good(files[f])
     /\ \A f \in Files :
          Good(files[f]) => files[f] = data \/ files[f].generation > data.generation
Fresh ==
  data # NoData =>
    /\ pc = "ready" => Cached
    /\ pc \in Steps /\ op.kind = "snapshot" =>
         Cached /\ (op.contents = data \/ op.contents.generation > data.generation)

Control ==
  /\ pc = "down" => data = NoData
  /\ pc \in Steps =>
       /\ op.kind = "load" => data = NoData
       /\ op.kind \in {"save", "snapshot"} => data # NoData
       /\ removing <=> op.kind = "remove"
Removal ==
  /\ removing => 0 \in tried
  /\ pc \in {"removePrimary", "removeRecovery", "removeSync"} => removing
  /\ pc \in Steps /\ removing =>
       /\ pc \in {"removePrimary", "removeRecovery", "removeSync", "committed"}
       /\ pc # "removePrimary" => files["primary"] = Missing
       /\ pc \in {"removeSync", "committed"} => files["recovery"] = Missing
       /\ pc = "committed" => disk = files

Sound ==
  /\ Guarded /\ Coherent /\ Settled /\ Winners /\ Survivors
  /\ pc \in Steps => Doing
  /\ Fresh

IInv == Typed /\ Counted /\ Control /\ Removal /\ (Intact => Sound)

-----------------------------------------------------------------------------
(* Two files, and what is read of them.                                    *)

(* The other of the two files. *)
LEMMA Others ==
  /\ Files = {"primary", "recovery"}
  /\ \A f \in Files : Other(f) \in Files /\ Other(f) # f
<1>1. \A f \in Files : \E g \in Files : g # f
  BY DEF Files
<1>2. QED BY <1>1 DEF Files, Other

LEMMA NumberedStores ==
  /\ Numbered \subseteq Store /\ EmptyStore \in Numbered
  /\ \A x \in Numbered : Good(x) /\ x # NoData
  /\ \A x \in Numbered \cup {Missing, Corrupt} : x \in Store <=> Good(x)
<1>1. Numbered \subseteq Store /\ EmptyStore \in Numbered
  BY MaxCommitsAssumption DEF Numbered, Store, EmptyStore
<1>2. QED BY <1>1, MarkersAssumption DEF Good

(* A cell is a store, missing or corrupt. *)
LEMMA Cell ==
  ASSUME Typed, NEW f \in Files
  PROVE  /\ files[f] \in Numbered \cup {Missing, Corrupt} /\ disk[f] \in Numbered \cup {Missing, Corrupt}
         /\ files[f] \in Store <=> Good(files[f])
         /\ disk[f] \in Store <=> Good(disk[f])
         /\ Good(files[f]) => files[f] \in Numbered /\ files[f].generation \in Nat
         /\ Good(disk[f]) => disk[f] \in Numbered /\ disk[f].generation \in Nat
<1>1. files[f] \in Numbered \cup {Missing, Corrupt} /\ disk[f] \in Numbered \cup {Missing, Corrupt}
  BY DEF Typed
<1>2. \A x \in Numbered : x.generation \in Nat
  BY DEF Numbered
<1>3. QED BY <1>1, <1>2, NumberedStores DEF Good

(* What is selected is the newest file there is. *)
LEMMA Selects ==
  ASSUME Typed, ~Unreadable
  PROVE  /\ Selected \in Numbered
         /\ AllMissing => Selected = EmptyStore
         /\ ~AllMissing =>
              /\ \E f \in Files : Good(files[f]) /\ Selected = files[f]
              /\ \A g \in Files : Good(files[g]) => files[g].generation <= Selected.generation
<1>1. Valid = {f \in Files : Good(files[f])}
  BY Cell DEF Valid
<1>2. CASE AllMissing
  BY <1>2, NumberedStores DEF Selected
<1>3. CASE ~AllMissing
  <2>1. Valid # {}
    BY <1>3 DEF Unreadable
  <2>2. \E f \in Valid : \A g \in Valid : files[f].generation >= files[g].generation
    <3>1. PICK f \in Valid : TRUE
      BY <2>1
    <3>2. f \in Files /\ Good(files[f]) /\ files[f].generation \in Nat
      BY <1>1, <3>1, Cell
    <3>3. CASE \A g \in Valid : files[f].generation >= files[g].generation
      BY <3>1, <3>3
    <3>4. CASE \E g \in Valid : ~(files[f].generation >= files[g].generation)
      <4>1. PICK g \in Valid : ~(files[f].generation >= files[g].generation)
        BY <3>4
      <4>2. g \in Files /\ files[g].generation \in Nat /\ g # f
        BY <1>1, <3>2, <4>1, Cell
      <4>3. \A h \in Valid : h = f \/ h = g
        BY <1>1, <3>2, <4>2 DEF Files
      <4>4. \A h \in Valid : files[g].generation >= files[h].generation
        BY <3>2, <4>1, <4>2, <4>3
      <4>5. QED BY <4>1, <4>4
    <3>5. QED BY <3>3, <3>4
  <2>3. Newest \in Valid /\ \A g \in Valid : files[Newest].generation >= files[g].generation
    BY <2>2 DEF Newest
  <2>4. Selected = files[Newest]
    BY <1>3 DEF Selected
  <2>5. Newest \in Files /\ Good(files[Newest]) /\ files[Newest] \in Numbered
    BY <1>1, <2>3, Cell
  <2>6. \A g \in Files : Good(files[g]) => files[g].generation <= Selected.generation
    <3> SUFFICES ASSUME NEW g \in Files, Good(files[g])
                 PROVE  files[g].generation <= Selected.generation
      OBVIOUS
    <3>1. files[Newest].generation >= files[g].generation
      BY <1>1, <2>3
    <3>2. files[g].generation \in Nat /\ files[Newest].generation \in Nat
      BY <2>5, Cell
    <3>3. QED BY <2>4, <3>1, <3>2
  <2>7. QED BY <1>3, <2>4, <2>5, <2>6
<1>4. QED BY <1>2, <1>3

(* The copy to heal, when there is one: the other is what was selected.    *)
LEMMA StaleCopy ==
  ASSUME Typed, ~Unreadable
  PROVE  /\ Stale = {} => AllMissing \/ \A f \in Files : files[f] = Selected
         /\ Stale # {} =>
              LET t == CHOOSE f \in Stale : TRUE IN
              /\ ~AllMissing /\ t \in Files /\ files[t] # Selected
              /\ \A g \in Files : g # t => files[g] = Selected
<1>1. CASE Stale = {}
  BY <1>1 DEF Stale
<1>2. CASE Stale # {}
  <2>1. PICK t \in Stale : t = CHOOSE f \in Stale : TRUE
    BY <1>2
  <2>2. ~AllMissing /\ t \in Files /\ files[t] # Selected
    BY <2>1 DEF Stale
  <2>3. PICK h \in Files : Selected = files[h]
    BY <2>2, Selects
  <2>4. \A g \in Files : g # t => g = h
    BY <2>2, <2>3 DEF Files
  <2>5. QED BY <1>2, <2>1, <2>2, <2>3, <2>4
<1>3. QED BY <1>1, <1>2

(* What the beginning of an operation does. *)
LEMMA Enters ==
  ASSUME Typed, NEW kind \in Kinds, NEW v \in 0..MaxCommits, Enter(kind, v)
  PROVE  /\ ~Unreadable
         /\ op' \in [kind : Kinds, value : 0..MaxCommits, contents : Numbered, target : Files]
         /\ op'.kind = kind /\ op'.value = v /\ op'.contents = Selected
         /\ UNCHANGED <<files, disk, removing, faults>>
         /\ \/ /\ pc' = "selected"
               /\ AllMissing \/ \A f \in Files : files[f] = Selected
            \/ /\ pc' = IF files[op'.target] = Corrupt THEN "quarantine" ELSE "heal"
               /\ ~AllMissing /\ \A g \in Files : g # op'.target => files[g] = Selected
<1>1. /\ ~Unreadable /\ UNCHANGED <<files, disk, removing, faults>>
      /\ op' = [kind |-> kind, value |-> v, contents |-> Selected,
                target |-> IF Stale = {} THEN "primary" ELSE CHOOSE f \in Stale : TRUE]
  BY DEF Enter, durable
<1>2. Selected \in Numbered
  BY <1>1, Selects
<1>3. CASE Stale = {}
  <2>1. op' = [kind |-> kind, value |-> v, contents |-> Selected, target |-> "primary"]
    BY <1>1, <1>3
  <2>2. pc' = "selected" /\ (AllMissing \/ \A f \in Files : files[f] = Selected)
    BY <1>1, <1>3, StaleCopy DEF Enter
  <2>3. QED BY <1>1, <1>2, <2>1, <2>2 DEF Files
<1>4. CASE Stale # {}
  <2>1. PICK t \in Files : /\ t = CHOOSE f \in Stale : TRUE
                           /\ ~AllMissing /\ \A g \in Files : g # t => files[g] = Selected
    BY <1>1, <1>4, StaleCopy
  <2>2. op' = [kind |-> kind, value |-> v, contents |-> Selected, target |-> t]
    BY <1>1, <1>4, <2>1
  <2>3. pc' = IF files[t] = Corrupt THEN "quarantine" ELSE "heal"
    BY <1>4, <2>1 DEF Enter
  <2>4. /\ op'.kind = kind /\ op'.value = v /\ op'.contents = Selected /\ op'.target = t
        /\ op' \in [kind : Kinds, value : 0..MaxCommits, contents : Numbered, target : Files]
    BY <1>2, <2>2
  <2>5. QED BY <1>1, <2>1, <2>3, <2>4
<1>5. QED BY <1>3, <1>4

(* What the beginning of a commit does. *)
LEMMA Prepares ==
  ASSUME Typed, NEW v \in 0..MaxCommits, Prepare(v)
  PROVE  /\ op' \in [kind : Kinds, value : 0..MaxCommits, contents : Numbered, target : Files]
         /\ op'.kind = op.kind /\ op'.value = op.value /\ op'.target = op.target
         /\ op'.contents.generation = op.contents.generation + 1 /\ op'.contents.value = v
         /\ pc' = "writeRecovery"
         /\ UNCHANGED <<files, disk, data, removing, faults, commits, latest, tried>>
<1> DEFINE next == [generation |-> op.contents.generation + 1, value |-> v, old |-> FALSE]
<1>1. op' = [op EXCEPT !.contents = next] /\ pc' = "writeRecovery"
      /\ UNCHANGED <<files, disk, data, removing, faults, commits, latest, tried>>
  BY DEF Prepare, durable, history
<1>2. next \in Numbered
  BY DEF Typed, Numbered
<1>3. QED BY <1>1, <1>2 DEF Typed

(* An idle process has no operation. *)
LEMMA NoOpTyped ==
  NoOp \in [kind : Kinds, value : 0..MaxCommits, contents : Numbered, target : Files]
BY NumberedStores, MaxCommitsAssumption DEF NoOp, Kinds, Files

(* The file-system steps of an operation have a type. *)
LEMMA StepsTyped ==
  ASSUME Typed
  PROVE  /\ pc \in Renames => RenameTarget \in Files /\ AfterRename \in Syncs
         /\ pc \in Syncs => AfterSync \in {"heal", "selected", "writePrimary", "committed"}
<1>1. ASSUME pc \in Renames PROVE RenameTarget \in Files /\ AfterRename \in Syncs
  <2>1. op.target \in Files
    BY DEF Typed
  <2>2. pc = "heal" \/ pc = "writeRecovery" \/ pc = "writePrimary"
    BY <1>1 DEF Renames
  <2>3. QED BY <2>1, <2>2 DEF Syncs, RenameTarget, AfterRename, Files
<1>2. ASSUME pc \in Syncs PROVE AfterSync \in {"heal", "selected", "writePrimary", "committed"}
  <2>1. \/ pc = "quarantineSync" \/ pc = "healSync" \/ pc = "recoverySync"
        \/ pc = "primarySync" \/ pc = "removeSync"
    BY <1>2 DEF Syncs
  <2>2. QED BY <2>1 DEF AfterSync
<1>3. QED BY <1>1, <1>2

LEMMA TypedStep == ASSUME Typed, Next PROVE Typed'
<1> USE MaxCommitsAssumption
<1>0. commits + 1 <= MaxCommits => commits + 1 \in 0..MaxCommits
  BY DEF Typed
<1>1. ASSUME Load PROVE Typed'
  <2>1. CASE Enter("load", 0) /\ UNCHANGED data
    BY <1>1, <2>1, Enters DEF Load, Typed, Kinds, Steps, history, Renames
  <2>2. CASE Refuse("load")
    BY <1>1, <2>2 DEF Load, Refuse, Typed, history, durable
  <2>3. QED BY <1>1, <2>1, <2>2 DEF Load
<1>2. ASSUME Save PROVE Typed'
  <2>1. commits + 1 \in 0..MaxCommits /\ commits' = commits + 1 /\ latest' = latest
        /\ tried' = tried \cup {commits + 1}
    BY <1>2 DEF Save, Handed, Typed
  <2>2. CASE Enter("save", commits + 1) /\ data' = [data EXCEPT !.value = commits + 1]
    <3>1. data' \in Numbered
      BY <1>2, <2>1, <2>2 DEF Save, Typed, Numbered
    <3>2. QED BY <2>1, <2>2, <3>1, Enters DEF Typed, Kinds, Steps, Renames
  <2>3. CASE Refuse("save")
    BY <2>1, <2>3 DEF Refuse, Typed, durable
  <2>4. QED BY <1>2, <2>2, <2>3 DEF Save
<1>3. ASSUME ReadSnapshot PROVE Typed'
  <2>1. CASE Enter("snapshot", 0) /\ UNCHANGED data
    BY <1>3, <2>1, Enters DEF ReadSnapshot, Typed, Kinds, Steps, history, Renames
  <2>2. CASE Refuse("snapshot")
    BY <1>3, <2>2 DEF ReadSnapshot, Refuse, Typed, history, durable
  <2>3. QED BY <1>3, <2>1, <2>2 DEF ReadSnapshot
<1>4. ASSUME ReplaceSnapshot PROVE Typed'
  <2>1. commits + 1 \in 0..MaxCommits /\ commits' = commits + 1 /\ latest' = latest
        /\ tried' = tried \cup {commits + 1}
    BY <1>4 DEF ReplaceSnapshot, Handed, Typed
  <2>2. CASE Enter("replace", commits + 1) /\ UNCHANGED data
    BY <2>1, <2>2, Enters DEF Typed, Kinds, Steps, Renames
  <2>3. CASE Refuse("replace")
    BY <2>1, <2>3 DEF Refuse, Typed, durable
  <2>4. QED BY <1>4, <2>2, <2>3 DEF ReplaceSnapshot
<1>5. ASSUME RemoveSnapshot PROVE Typed'
  <2>1. op' \in [kind : Kinds, value : 0..MaxCommits, contents : Numbered, target : Files]
    BY <1>5, NoOpTyped DEF RemoveSnapshot, Kinds
  <2>2. QED BY <1>5, <2>1 DEF RemoveSnapshot, Typed, Steps, durable
<1>6. ASSUME OtherInstanceCommits PROVE Typed'
  <2>1. ~Unreadable
    BY <1>6 DEF OtherInstanceCommits, Whole, Unreadable, Ambiguous, Valid, AllMissing, Files, Typed,
                Numbered, Store
  <2>2. Selected \in Numbered /\ commits + 1 \in 0..MaxCommits
    BY <1>6, <2>1, Selects DEF OtherInstanceCommits, Handed, Typed
  <2>3. [generation |-> Selected.generation + 1, value |-> commits + 1, old |-> FALSE] \in Numbered
    BY <2>2 DEF Numbered
  <2>4. files' \in [Files -> Numbered] /\ disk' = files' /\ commits' = commits + 1
        /\ latest' = commits + 1 /\ tried' = {}
    BY <1>6, <2>3 DEF OtherInstanceCommits, Observe, Handed
  <2>5. QED BY <1>6, <2>2, <2>4 DEF OtherInstanceCommits, Typed
<1>7. ASSUME Resolve PROVE Typed'
  <2>1. op.contents \in Numbered /\ op.contents.value \in 0..MaxCommits /\ op.value \in 0..MaxCommits
    BY DEF Typed, Numbered
  <2>2. ASSUME NEW v \in 0..MaxCommits, Prepare(v) PROVE Typed'
    BY <2>2, Prepares DEF Typed, Steps, Renames
  <2>3. ASSUME NEW d \in Numbered \cup {NoData}, FinishRead(d) PROVE Typed'
    BY <2>1, <2>3, NoOpTyped DEF FinishRead, Return, Observe, Typed, durable
  <2>4. CASE Return(NoData) /\ UNCHANGED <<durable, removing, faults, history>>
    BY <2>4, NoOpTyped DEF Return, Typed, durable, history
  <2>5. QED BY <1>7, <2>1, <2>2, <2>3, <2>4 DEF Resolve, ResolveLoad, ResolveSave, Typed
<1>8. ASSUME Quarantine PROVE Typed'
  BY <1>8 DEF Quarantine, Typed, Steps, Syncs, history
<1>9. ASSUME Rename PROVE Typed'
  <2>1. RenameTarget \in Files /\ AfterRename \in Syncs /\ op.contents \in Numbered
    BY <1>9, StepsTyped DEF Rename, Typed
  <2>2. QED BY <1>9, <2>1 DEF Rename, Typed, Steps, history
<1>10. ASSUME Sync PROVE Typed'
  <2>1. AfterSync \in Steps
    BY <1>10, StepsTyped DEF Sync, Steps, Renames
  <2>2. faults' \in 0..2
    BY <1>10 DEF Sync, Typed
  <2>3. QED BY <1>10, <2>1, <2>2 DEF Sync, Typed, history
<1>11. ASSUME RemovePrimary \/ RemoveRecovery PROVE Typed'
  BY <1>11 DEF RemovePrimary, RemoveRecovery, Typed, Steps, Syncs, history
<1>12. ASSUME Acknowledge PROVE Typed'
  <2>1. op.contents \in Numbered /\ op.contents.value \in 0..MaxCommits
    BY DEF Typed, Numbered
  <2>2. CASE op.kind = "remove"
    <3>1. /\ pc' = "ready" /\ op' = NoOp /\ data' = NoData /\ latest' = 0 /\ tried' = {}
          /\ removing' = FALSE /\ UNCHANGED <<files, disk, faults, commits>>
      BY <1>12, <2>2 DEF Acknowledge, Return, Observe, durable
    <3>2. 0 \in 0..MaxCommits
      OBVIOUS
    <3>3. QED BY <3>1, <3>2, NoOpTyped DEF Typed
  <2>3. CASE op.kind # "remove"
    BY <1>12, <2>1, <2>3, NoOpTyped DEF Acknowledge, Return, Observe, Typed, durable
  <2>4. QED BY <2>2, <2>3
<1>13. ASSUME Throw \/ Kill PROVE Typed'
  <2>1. faults' \in 0..2
    BY <1>13 DEF Throw, Kill, Abandon, Typed
  <2>2. data' \in {data, NoData} /\ op' = NoOp /\ pc' \in {"ready", "down"}
        /\ UNCHANGED <<files, disk, removing, commits, latest, tried>>
    BY <1>13 DEF Throw, Kill, Return, Stop, durable, history
  <2>3. QED BY <2>1, <2>2, NoOpTyped DEF Typed
<1>14. ASSUME PowerLoss PROVE Typed'
  <2>1. PICK kept \in SUBSET Files : disk' = [f \in Files |-> IF f \in kept THEN files[f] ELSE disk[f]]
    BY <1>14 DEF PowerLoss
  <2>2. disk' \in [Files -> Numbered \cup {Missing, Corrupt}]
    BY <2>1 DEF Typed
  <2>3. QED BY <1>14, <2>2, NoOpTyped DEF PowerLoss, Stop, Typed, history
<1>15. ASSUME NEW f \in Files, Rot(f) PROVE Typed'
  <2>1. faults' \in 0..2
    BY <1>15 DEF Rot, Typed
  <2>2. QED BY <1>15, <2>1 DEF Rot, Typed, history
<1>16. ASSUME Start PROVE Typed'
  BY <1>16 DEF Start, Typed, durable, history
<1>17. QED BY <1>1, <1>2, <1>3, <1>4, <1>5, <1>6, <1>7, <1>8, <1>9, <1>10, <1>11, <1>12, <1>13, <1>14,
             <1>15, <1>16 DEF Next, Begin, Step, Failure

(* An operation that stops counts an unsynced rename as a fault. *)
LEMMA Abandons ==
  ASSUME Typed, Abandon
  PROVE  /\ faults' < 2 => faults < 2
         /\ faults' = 0 => faults = 0 /\ files = disk
         /\ faults' < 2 /\ files # disk => faults = 0
BY DEF Abandon, Typed

(* A failure that no operation outlives. *)
LEMMA Stops ==
  ASSUME Typed, Throw \/ Kill
  PROVE  /\ UNCHANGED <<files, disk, removing, commits, latest, tried>> /\ op' = NoOp
         /\ pc' \in {"ready", "down"} /\ pc # "down" /\ data' \in {data, NoData}
         /\ pc' = "down" => data' = NoData
         /\ (faults' = faults /\ pc = "ready") \/ Abandon
         /\ pc' = "ready" /\ op.kind \in {"save", "replace"} => data' = NoData
         /\ pc' = "ready" => pc \in Steps
<1>1. "down" \notin Steps /\ "ready" \notin Steps
  BY DEF Steps, Renames, Syncs
<1>2. CASE Throw
  BY <1>1, <1>2 DEF Throw, Return, durable, history
<1>3. CASE Kill
  <2>1. UNCHANGED <<files, disk, removing, commits, latest, tried>> /\ pc' = "down" /\ op' = NoOp
        /\ data' = NoData /\ pc # "down"
    BY <1>3 DEF Kill, Stop, durable, history
  <2>2. pc \notin Steps => faults' = faults /\ pc = "ready"
    BY <1>3 DEF Kill, Typed
  <2>3. pc \in Steps => Abandon
    BY <1>3 DEF Kill
  <2>4. QED BY <2>1, <2>2, <2>3
<1>4. QED BY <1>2, <1>3

LEMMA CountedStep == ASSUME Typed, Counted, Next PROVE Counted'
<1>1. CASE Load \/ Save \/ ReadSnapshot \/ ReplaceSnapshot
  <2>1. UNCHANGED <<files, disk, faults>>
    BY <1>1 DEF Load, Save, ReadSnapshot, ReplaceSnapshot, Enter, Refuse, durable
  <2>2. QED BY <2>1 DEF Counted
<1>2. CASE RemoveSnapshot \/ Resolve \/ Acknowledge \/ Start
  <2>1. UNCHANGED <<files, disk, faults>>
    BY <1>2 DEF RemoveSnapshot, Resolve, ResolveLoad, ResolveSave, Prepare, FinishRead,
                Acknowledge, Start, durable
  <2>2. QED BY <2>1 DEF Counted
<1>3. CASE OtherInstanceCommits
  <2> DEFINE new == [generation |-> Selected.generation + 1, value |-> commits + 1, old |-> FALSE]
  <2>1. Files # {} /\ files' \in [Files -> Numbered \cup {Missing, Corrupt}]
    BY <1>3, TypedStep DEF Next, Begin, Typed, Files
  <2>2. \A f \in Files : files'[f] = new /\ disk'[f] = new
    BY <1>3 DEF OtherInstanceCommits
  <2>3. new # Corrupt
    <3>1. ~Unreadable
      BY <1>3 DEF OtherInstanceCommits, Whole, Unreadable, Ambiguous, Valid, AllMissing, Files, Typed,
                  Numbered, Store
    <3>2. Selected.generation \in Nat /\ commits \in Nat
      BY <3>1, Selects DEF Numbered, Typed
    <3>3. new \in Store
      BY <3>2 DEF Store
    <3>4. QED BY <3>3, MarkersAssumption
  <2>4. QED BY <2>2, <2>3 DEF Counted
<1>4. CASE Quarantine \/ RemovePrimary \/ RemoveRecovery
  <2>1. /\ faults' = faults /\ disk' = disk
        /\ \E t \in Files : files' = [files EXCEPT ![t] = Missing]
    BY <1>4 DEF Quarantine, RemovePrimary, RemoveRecovery, Typed, Files
  <2>2. QED BY <2>1, MarkersAssumption DEF Counted, Typed
<1>5. CASE Rename
  <2>1. /\ faults' = faults /\ disk' = disk /\ op.contents # Corrupt
        /\ files' = [files EXCEPT ![RenameTarget] = op.contents]
    BY <1>5, NumberedStores DEF Rename, Typed, Good
  <2>2. QED BY <2>1 DEF Counted, Typed
<1>6. CASE Sync
  <2>1. disk' = files /\ files' = files /\ (faults' = 0 => faults = 0 \/ Whole(files))
    BY <1>6 DEF Sync
  <2>2. QED BY <2>1 DEF Counted, Whole, Files
<1>7. CASE Throw \/ Kill
  <2>1. UNCHANGED <<files, disk>> /\ (faults' = 0 => faults = 0)
    BY <1>7, Stops, Abandons
  <2>2. QED BY <2>1 DEF Counted
<1>8. CASE PowerLoss
  <2>1. PICK kept \in SUBSET Files : disk' = [f \in Files |-> IF f \in kept THEN files[f] ELSE disk[f]]
    BY <1>8 DEF PowerLoss
  <2>2. \A f \in Files : disk'[f] \in {files[f], disk[f]} /\ files'[f] = disk'[f]
    BY <1>8, <2>1 DEF PowerLoss
  <2>3. faults' = faults
    BY <1>8 DEF PowerLoss
  <2>4. QED BY <2>2, <2>3 DEF Counted
<1>9. ASSUME NEW f \in Files, Rot(f) PROVE Counted'
  BY <1>9 DEF Rot, Counted, Typed
<1>10. QED BY <1>1, <1>2, <1>3, <1>4, <1>5, <1>6, <1>7, <1>8, <1>9 DEF Next, Begin, Step, Failure

LEMMA ControlStep == ASSUME Typed, Control, Next PROVE Control'
<1>0. {"ready", "down"} \cap Steps = {} /\ "removePrimary" \in Steps
  BY DEF Steps, Renames, Syncs
<1>1. CASE Load
  BY <1>0, <1>1, Enters, MaxCommitsAssumption DEF Load, Refuse, Control, Kinds
<1>2. CASE Save
  <2>1. commits + 1 \in 0..MaxCommits /\ data # NoData /\ pc = "ready" /\ ~removing
    BY <1>2 DEF Save, Handed, Typed
  <2>2. CASE Enter("save", commits + 1) /\ data' = [data EXCEPT !.value = commits + 1]
    <3>1. data' # NoData
      <4>1. data' \in Numbered
        BY <2>1, <2>2 DEF Typed, Numbered
      <4>2. QED BY <4>1, NumberedStores
    <3>2. QED BY <2>1, <2>2, <3>1, Enters, <1>0 DEF Control, Kinds
  <2>3. CASE Refuse("save")
    BY <1>0, <2>1, <2>3 DEF Refuse, Control
  <2>4. QED BY <1>2, <2>2, <2>3 DEF Save
<1>3. CASE ReadSnapshot
  BY <1>0, <1>3, Enters, MaxCommitsAssumption DEF ReadSnapshot, Refuse, Control, Kinds
<1>4. CASE ReplaceSnapshot
  <2>1. commits + 1 \in 0..MaxCommits /\ pc = "ready" /\ ~removing
    BY <1>4 DEF ReplaceSnapshot, Handed, Typed
  <2>2. CASE Enter("replace", commits + 1) /\ UNCHANGED data
    BY <2>1, <2>2, Enters, <1>0 DEF Control, Kinds
  <2>3. CASE Refuse("replace")
    BY <1>0, <2>1, <2>3 DEF Refuse, Control
  <2>4. QED BY <1>4, <2>2, <2>3 DEF ReplaceSnapshot
<1>5. CASE RemoveSnapshot
  <2>1. op'.kind = "remove"
    BY <1>5 DEF RemoveSnapshot, NoOp
  <2>2. QED BY <1>5, <2>1 DEF RemoveSnapshot, Control
<1>6. CASE OtherInstanceCommits \/ Start
  BY <1>0, <1>6 DEF OtherInstanceCommits, Start, Control
<1>7. CASE Resolve
  <2>1. op.contents.value \in 0..MaxCommits /\ op.value \in 0..MaxCommits
    BY DEF Typed, Numbered
  <2>2. ASSUME NEW v \in 0..MaxCommits, Prepare(v) PROVE Control'
    BY <1>7, <2>2, Prepares DEF Resolve, Control, Steps
  <2>3. ASSUME NEW d, FinishRead(d) PROVE Control'
    BY <1>0, <2>3 DEF FinishRead, Return, Control
  <2>4. CASE Return(NoData) /\ UNCHANGED <<durable, removing, faults, history>>
    BY <1>0, <2>4 DEF Return, Control
  <2>5. QED BY <1>7, <2>1, <2>2, <2>3, <2>4 DEF Resolve, ResolveLoad, ResolveSave
<1>8. CASE Quarantine \/ Rename \/ Sync \/ RemovePrimary \/ RemoveRecovery
  <2>1. /\ UNCHANGED <<data, op, removing>> /\ pc \in Steps
    BY <1>8 DEF Quarantine, Rename, Sync, RemovePrimary, RemoveRecovery, Steps
  <2>2. pc' # "down"
    BY <1>8, StepsTyped DEF Quarantine, Rename, Sync, RemovePrimary, RemoveRecovery, Syncs
  <2>3. QED BY <2>1, <2>2 DEF Control
<1>9. CASE Acknowledge
  BY <1>0, <1>9 DEF Acknowledge, Return, Control
<1>10. CASE Throw \/ Kill
  BY <1>0, <1>10, Stops DEF Control
<1>11. CASE PowerLoss
  BY <1>0, <1>11 DEF PowerLoss, Stop, Control
<1>12. ASSUME NEW f \in Files, Rot(f) PROVE Control'
  BY <1>12 DEF Rot, Control
<1>13. QED BY <1>1, <1>2, <1>3, <1>4, <1>5, <1>6, <1>7, <1>8, <1>9, <1>10, <1>11, <1>12
           DEF Next, Begin, Step, Failure

LEMMA RemovalStep == ASSUME Typed, Control, Removal, Next PROVE Removal'
<1>0. {"ready", "down"} \cap Steps = {} /\ "removePrimary" \in Steps
  BY DEF Steps, Renames, Syncs
<1>1. CASE Load \/ Save \/ ReadSnapshot \/ ReplaceSnapshot
  <2>1. ~removing /\ removing' = removing
    BY <1>1 DEF Load, Save, ReadSnapshot, ReplaceSnapshot, Enter, Refuse
  <2>2. pc' = pc \/ pc' \in {"selected", "quarantine", "heal"}
    BY <1>1 DEF Load, Save, ReadSnapshot, ReplaceSnapshot, Enter, Refuse
  <2>3. QED BY <2>1, <2>2 DEF Removal
<1>2. CASE RemoveSnapshot
  BY <1>2 DEF RemoveSnapshot, Removal
<1>3. CASE OtherInstanceCommits
  BY <1>3 DEF OtherInstanceCommits, Removal
<1>4. CASE Resolve
  <2>1. pc = "selected" /\ ~removing
    BY <1>4 DEF Resolve, Removal, Steps
  <2>2. removing' = removing /\ pc' \in {"ready", "writeRecovery"}
    BY <1>4 DEF Resolve, ResolveLoad, ResolveSave, Prepare, FinishRead, Return
  <2>3. QED BY <2>1, <2>2 DEF Removal
<1>5. CASE Quarantine \/ Rename
  <2>1. ~removing /\ removing' = removing
    BY <1>5 DEF Quarantine, Rename, Removal, Steps, Renames
  <2>2. pc' \in {"quarantineSync", "healSync", "recoverySync", "primarySync"}
    BY <1>5 DEF Quarantine, Rename, AfterRename, Renames
  <2>3. QED BY <2>1, <2>2 DEF Removal
<1>6. CASE Sync
  <2>0. pc' \in {"heal", "selected", "writePrimary", "committed"}
    BY <1>6, StepsTyped DEF Sync
  <2> SUFFICES ASSUME removing PROVE Removal'
    BY <1>6, <2>0 DEF Sync, Removal
  <2>1. pc = "removeSync" /\ files["primary"] = Missing /\ files["recovery"] = Missing /\ 0 \in tried
    BY <1>6 DEF Sync, Removal, Steps, Syncs
  <2>2. pc' = "committed" /\ disk' = files /\ UNCHANGED <<files, removing, tried>>
    BY <1>6, <2>1 DEF Sync, AfterSync, history
  <2>3. QED BY <2>1, <2>2 DEF Removal
<1>7. CASE RemovePrimary
  BY <1>7 DEF RemovePrimary, Removal, Typed, Files, Steps, history
<1>8. CASE RemoveRecovery
  <2>1. files'["recovery"] = Missing /\ files'["primary"] = files["primary"]
    BY <1>8 DEF RemoveRecovery, Typed, Files
  <2>2. QED BY <1>8, <2>1 DEF RemoveRecovery, Removal, Steps, history
<1>9. CASE Acknowledge
  <2>1. pc' = "ready" /\ (removing' => removing /\ op.kind # "remove")
    BY <1>9 DEF Acknowledge, Return
  <2>2. ~removing'
    BY <1>9, <2>1 DEF Control, Acknowledge, Steps
  <2>3. QED BY <2>1, <2>2 DEF Removal
<1>10. CASE Throw \/ Kill
  BY <1>0, <1>10, Stops DEF Removal
<1>11. CASE PowerLoss
  BY <1>0, <1>11 DEF PowerLoss, Stop, Removal, history
<1>12. ASSUME NEW f \in Files, Rot(f) PROVE Removal'
  <2>1. /\ files[f] \in Store /\ files[f] # Missing
        /\ files' = [files EXCEPT ![f] = Corrupt] /\ disk' = [disk EXCEPT ![f] = Corrupt]
        /\ UNCHANGED <<pc, removing, tried>>
    BY <1>12, MarkersAssumption DEF Rot, history
  <2>2. \A g \in Files : files[g] = Missing => files'[g] = files[g]
    BY <2>1 DEF Typed
  <2>3. pc = "committed" /\ pc \in Steps /\ removing => FALSE
    BY <2>1 DEF Removal, Files
  <2>4. QED BY <2>1, <2>2, <2>3 DEF Removal, Files, Steps
<1>13. CASE Start
  BY <1>0, <1>13 DEF Start, Removal, history
<1>14. QED BY <1>1, <1>2, <1>3, <1>4, <1>5, <1>6, <1>7, <1>8, <1>9, <1>10, <1>11, <1>12, <1>13
           DEF Next, Begin, Step, Failure

-----------------------------------------------------------------------------
(* The cells.                                                              *)

(* As long as the cells stand and no value is dropped, they stay sound.    *)
LEMMA CellsFrame ==
  ASSUME UNCHANGED <<files, disk>>, Owed \subseteq Owed', faults' = 0 => faults = 0,
         Guarded, Coherent, Winners, Survivors
  PROVE  Guarded' /\ Coherent' /\ Winners' /\ Survivors'
<1>1. Guarded'
  BY DEF Guarded
<1>2. Coherent'
  BY DEF Coherent, Cells
<1>3. Winners'
  BY DEF Winners, Cells
<1>4. Survivors'
  BY DEF Survivors, Cells
<1>5. QED BY <1>1, <1>2, <1>3, <1>4

LEMMA FirmFrame ==
  ASSUME UNCHANGED <<files, disk>>, Firm PROVE Firm'
BY DEF Firm

(* Files and disk that are the same are firm. *)
LEMMA SameIsFirm ==
  ASSUME Typed, files = disk PROVE Firm
<1>1. \A f \in Files : Good(disk[f]) => files[f].generation >= disk[f].generation
  BY Cell
<1>2. "primary" \in Files
  BY DEF Files
<1>3. QED BY <1>1, <1>2 DEF Firm

(* A value that is observed is that of every winner and survivor. *)
LEMMA Observed ==
  ASSUME Typed, Counted, Guarded, Settled, Ahead, AgreedEmpty \/ AgreedFull, pc \notin Syncs,
         UNCHANGED <<files, disk, faults>>, Observe(op.contents.value)
  PROVE  Winners' /\ Survivors'
<1>1. Owed' = {op.contents.value}
  BY DEF Owed, Observe
<1>2. CASE AgreedEmpty
  BY <1>1, <1>2 DEF AgreedEmpty, Winners, Survivors, Cells, Good, EmptyStore
<1>3. CASE AgreedFull
  <2>1. PICK h \in Files : files[h] = op.contents /\ disk[h] = op.contents
    BY <1>3 DEF AgreedFull
  <2>2. op.contents \in Numbered /\ Good(op.contents) /\ op.contents.generation \in Nat
    BY NumberedStores DEF Typed, Numbered
  <2>3. Winners'
    <3> SUFFICES ASSUME NEW f \in Files, NEW g \in Files, f # g, NEW a \in Cells(f), NEW b \in Cells(g)
                 PROVE  /\ Good(a) /\ (Good(b) => a.generation >= b.generation)
                             => a.value = op.contents.value
                        /\ ~(a = Missing /\ b = Missing)
      BY <1>1 DEF Winners, Cells
    <3>1. CASE f = h
      BY <2>1, <2>2, <3>1 DEF Cells, Good
    <3>2. CASE g = h
      <4>1. b = op.contents
        BY <2>1, <3>2 DEF Cells
      <4>2. Good(a) => a.generation \in Nat
        BY Cell DEF Cells
      <4>3. Good(a) /\ a.generation >= b.generation => a = op.contents
        BY <2>2, <4>1, <4>2 DEF Ahead
      <4>4. QED BY <2>2, <4>1, <4>3 DEF Good
    <3>3. QED BY <2>1, <3>1, <3>2 DEF Files
  <2>4. Survivors'
    <3> SUFFICES ASSUME faults = 0, NEW f \in Files
                 PROVE  files[f] = op.contents /\ disk[f] = op.contents
      BY <1>1 DEF Survivors, Cells
    <3>1. files = disk /\ files[f] # Corrupt
      BY DEF Settled, Counted
    <3>2. QED BY <1>3, <3>1 DEF AgreedFull, Written
  <2>5. QED BY <2>3, <2>4
<1>4. QED BY <1>2, <1>3

-----------------------------------------------------------------------------
(* The beginning of an operation.                                          *)

LEMMA EnterStep ==
  ASSUME Typed, Typed', Counted, ~removing, faults < 2, Sound, pc = "ready",
         NEW kind \in Kinds, NEW v \in 0..MaxCommits, Enter(kind, v), Owed \subseteq Owed',
         kind \in {"save", "replace"} => v \in Owed',
         kind = "snapshot" => data' = data /\ data # NoData
  PROVE  Sound'
<1>1. /\ ~Unreadable /\ op'.kind = kind /\ op'.value = v /\ op'.contents = Selected
      /\ UNCHANGED <<files, disk, removing, faults>> /\ op'.target \in Files
      /\ \/ /\ pc' = "selected"
            /\ AllMissing \/ \A f \in Files : files[f] = Selected
         \/ /\ pc' = IF files[op'.target] = Corrupt THEN "quarantine" ELSE "heal"
            /\ ~AllMissing /\ \A g \in Files : g # op'.target => files[g] = Selected
  BY Enters
<1>2. /\ Selected \in Numbered /\ Good(Selected) /\ Selected.generation \in Nat
      /\ AllMissing => Selected = EmptyStore
      /\ ~AllMissing => /\ \E f \in Files : Good(files[f]) /\ Selected = files[f]
                        /\ \A g \in Files : Good(files[g]) => files[g].generation <= Selected.generation
  BY <1>1, Selects, NumberedStores DEF Numbered
<1>3. pc' \in {"selected", "quarantine", "heal"} /\ pc \notin Syncs /\ pc' \notin Syncs /\ pc' # "ready"
  BY <1>1 DEF Syncs
<1>4. Guarded' /\ Coherent' /\ Winners' /\ Survivors'
  BY <1>1, CellsFrame DEF Sound
<1>5. Firm /\ Firm' /\ Settled'
  <2>1. Firm /\ (faults = 0 => files = disk)
    BY <1>3 DEF Sound, Settled
  <2>2. Firm'
    BY <1>1, <2>1, FirmFrame
  <2>3. QED BY <1>1, <1>3, <2>1, <2>2 DEF Settled
<1>6. AllMissing => \A f \in Files : files[f] = Missing /\ disk[f] = Missing
  <2> SUFFICES ASSUME AllMissing, NEW f \in Files PROVE files[f] = Missing /\ disk[f] = Missing
    OBVIOUS
  <2>1. \A g \in Files : ~Good(files[g]) /\ files[g] = Missing
    BY DEF AllMissing, Good
  <2>2. ~Good(disk[f])
    BY <1>5, <2>1 DEF Firm
  <2>3. disk[f] # Corrupt
    BY <2>1, Others DEF Sound, Guarded
  <2>4. QED BY <2>1, <2>2, <2>3 DEF Good
<1>7. Ahead'
  <2> SUFFICES ASSUME NEW f \in Files, NEW x \in Cells(f), Good(x)
               PROVE  /\ x.generation <= Selected.generation
                      /\ x.generation = Selected.generation => x = Selected
    BY <1>1 DEF Ahead, Cells
  <2>1. ~AllMissing
    BY <1>6 DEF Cells, Good
  <2>2. PICK h \in Files : Good(files[h]) /\ Selected = files[h]
    BY <1>2, <2>1
  <2>3. x.generation <= Selected.generation
    <3>1. CASE x = files[f]
      BY <1>2, <2>1, <3>1
    <3>2. CASE x = disk[f]
      <4>1. PICK g \in Files : Good(files[g]) /\ files[g].generation >= x.generation
        BY <1>5, <3>2 DEF Firm
      <4>2. files[g].generation <= Selected.generation /\ files[g].generation \in Nat
            /\ x.generation \in Nat
        BY <1>2, <2>1, <3>2, <4>1, Cell
      <4>3. QED BY <1>2, <4>1, <4>2
    <3>3. QED BY <3>1, <3>2 DEF Cells
  <2>4. x.generation = Selected.generation => x = Selected
    BY <2>2 DEF Sound, Coherent, Cells
  <2>5. QED BY <2>3, <2>4
<1>8. op'.contents.value \in Owed'
  <2>1. Selected.value \in Owed
    <3>1. CASE AllMissing
      <4>1. 0 \in Owed
        BY <1>6, <3>1, Others DEF Sound, Winners, Cells
      <4>2. QED BY <1>2, <3>1, <4>1 DEF EmptyStore
    <3>2. CASE ~AllMissing
      <4>1. PICK h \in Files : Good(files[h]) /\ Selected = files[h]
        BY <1>2, <3>2
      <4>2. PICK g \in Files : g # h
        BY Others
      <4>3. Good(files[g]) => files[h].generation >= files[g].generation
        BY <1>2, <3>2, <4>1, Cell
      <4>4. QED BY <4>1, <4>2, <4>3 DEF Sound, Winners, Cells
    <3>3. QED BY <3>1, <3>2
  <2>2. QED BY <1>1, <2>1
<1>9. Phases'
  <2>1. pc' = "quarantine" => files'[op'.target] = Corrupt
    BY <1>1
  <2>2. pc' \in {"quarantine", "heal"} => \A g \in Files : g # op'.target => Written(g)'
    BY <1>1 DEF Written
  <2>3. pc' = "selected" => (AgreedEmpty \/ AgreedFull)'
    <3> SUFFICES ASSUME pc' = "selected" PROVE AgreedEmpty' \/ AgreedFull'
      OBVIOUS
    <3>1. CASE AllMissing
      BY <1>1, <1>2, <1>6, <3>1 DEF AgreedEmpty
    <3>2. CASE \A f \in Files : files[f] = Selected
      <4>1. \E g \in Files : disk[g] = files[g]
        BY <1>5 DEF Firm
      <4>2. QED BY <1>1, <3>2, <4>1 DEF AgreedFull, Written
    <3>3. QED BY <1>1, <3>1, <3>2
  <2>4. QED BY <1>3, <2>1, <2>2, <2>3 DEF Phases
<1>10. Fresh'
  <2> SUFFICES ASSUME kind = "snapshot"
               PROVE  Cached' /\ (Selected = data \/ Selected.generation > data.generation)
    BY <1>1, <1>3 DEF Fresh
  <2>1. Cached
    BY DEF Sound, Fresh
  <2>2. Cached'
    BY <1>1, <2>1 DEF Cached, AllMissing
  <2>3. Selected = data \/ Selected.generation > data.generation
    <3>1. CASE AllMissing
      <4>1. data = EmptyStore
        BY <2>1, <3>1 DEF Cached, AllMissing, Good
      <4>2. QED BY <1>2, <3>1, <4>1
    <3>2. CASE ~AllMissing
      BY <1>2, <2>1, <3>2 DEF Cached
    <3>3. QED BY <3>1, <3>2
  <2>4. QED BY <2>2, <2>3
<1>11. QED BY <1>1, <1>4, <1>5, <1>7, <1>8, <1>9, <1>10 DEF Sound, Doing
(* Refusing changes nothing but the cache, which it may drop. *)
LEMMA RefuseStep ==
  ASSUME Typed, Sound, pc = "ready", NEW kind, Refuse(kind), Owed \subseteq Owed',
         data' = data \/ data' = NoData
  PROVE  Sound'
<1>1. UNCHANGED <<files, disk, pc, op, faults>> /\ pc' \notin Steps
  BY DEF Refuse, durable, Steps, Renames, Syncs
<1>2. Guarded' /\ Coherent' /\ Winners' /\ Survivors'
  BY <1>1, CellsFrame DEF Sound
<1>3. Settled'
  BY <1>1 DEF Sound, Settled, Firm
<1>4. Fresh'
  BY <1>1 DEF Sound, Fresh, Cached, AllMissing
<1>5. QED BY <1>1, <1>2, <1>3, <1>4 DEF Sound

LEMMA BeginStep ==
  ASSUME Typed, Typed', Counted, Intact => Sound, Intact',
         Load \/ Save \/ ReadSnapshot \/ ReplaceSnapshot
  PROVE  Sound'
<1>1. pc = "ready" /\ ~removing /\ UNCHANGED <<removing, faults>>
  BY DEF Load, Save, ReadSnapshot, ReplaceSnapshot, Enter, Refuse
<1>2. Sound /\ faults < 2
  BY <1>1 DEF Intact
<1>3. CASE Load
  <2>1. Owed \subseteq Owed' /\ 0 \in 0..MaxCommits /\ "load" \in Kinds
    BY <1>3, MaxCommitsAssumption DEF Load, history, Owed, Kinds
  <2>2. CASE Enter("load", 0)
    BY <1>1, <1>2, <2>1, <2>2, EnterStep
  <2>3. CASE Refuse("load")
    BY <1>1, <1>2, <2>1, <2>3, RefuseStep DEF Refuse
  <2>4. QED BY <1>3, <2>2, <2>3 DEF Load
<1>4. CASE Save
  <2>1. Owed \subseteq Owed' /\ commits + 1 \in 0..MaxCommits /\ commits + 1 \in Owed'
        /\ "save" \in Kinds
    BY <1>4 DEF Save, Handed, Owed, Kinds, Typed
  <2>2. CASE Enter("save", commits + 1)
    BY <1>1, <1>2, <2>1, <2>2, EnterStep
  <2>3. CASE Refuse("save")
    BY <1>1, <1>2, <2>1, <2>3, RefuseStep DEF Refuse
  <2>4. QED BY <1>4, <2>2, <2>3 DEF Save
<1>5. CASE ReadSnapshot
  <2>1. Owed \subseteq Owed' /\ 0 \in 0..MaxCommits /\ "snapshot" \in Kinds /\ data # NoData
    BY <1>5, MaxCommitsAssumption DEF ReadSnapshot, history, Owed, Kinds
  <2>2. CASE Enter("snapshot", 0) /\ UNCHANGED data
    BY <1>1, <1>2, <2>1, <2>2, EnterStep
  <2>3. CASE Refuse("snapshot")
    BY <1>1, <1>2, <2>1, <2>3, RefuseStep DEF Refuse
  <2>4. QED BY <1>5, <2>2, <2>3 DEF ReadSnapshot
<1>6. CASE ReplaceSnapshot
  <2>1. Owed \subseteq Owed' /\ commits + 1 \in 0..MaxCommits /\ commits + 1 \in Owed'
        /\ "replace" \in Kinds
    BY <1>6 DEF ReplaceSnapshot, Handed, Owed, Kinds, Typed
  <2>2. CASE Enter("replace", commits + 1)
    BY <1>1, <1>2, <2>1, <2>2, EnterStep
  <2>3. CASE Refuse("replace")
    BY <1>1, <1>2, <2>1, <2>3, RefuseStep DEF Refuse
  <2>4. QED BY <1>6, <2>2, <2>3 DEF ReplaceSnapshot
<1>7. QED BY <1>3, <1>4, <1>5, <1>6

LEMMA OtherInstanceStep ==
  ASSUME Typed, Typed', Intact => Sound, Intact', OtherInstanceCommits
  PROVE  Sound'
<1> DEFINE new == [generation |-> Selected.generation + 1, value |-> commits + 1, old |-> FALSE]
<1>1. /\ pc = "ready" /\ Whole(files) /\ Sound
      /\ UNCHANGED <<data, pc, op, faults>> /\ disk' = files'
      /\ \A f \in Files : files'[f] = new
      /\ latest' = commits + 1 /\ tried' = {}
  BY DEF OtherInstanceCommits, Intact, Observe, Handed
<1>2. ~Unreadable
  BY <1>1 DEF Whole, Unreadable, Ambiguous, Valid, AllMissing, Files, Typed, Numbered, Store
<1>3. Selected \in Numbered /\ commits + 1 \in 0..MaxCommits
  BY <1>2, Selects DEF OtherInstanceCommits, Handed, Typed
<1>4. PICK n \in Numbered : n = new /\ n.generation = Selected.generation + 1 /\ n.value = commits + 1
  <2>1. Selected.generation + 1 \in Nat
    BY <1>3 DEF Numbered
  <2>2. new \in Numbered
    BY <1>3, <2>1 DEF Numbered
  <2>3. QED BY <2>2
<1>5. \A f \in Files : files'[f] = n /\ disk'[f] = n
  BY <1>1, <1>4
<1>6. Good(n) /\ Owed' = {n.value}
  BY <1>1, <1>4, NumberedStores DEF Owed
<1>7. Guarded' /\ Coherent' /\ Winners' /\ Survivors'
  BY <1>5, <1>6 DEF Guarded, Coherent, Winners, Survivors, Cells, Good
<1>8. Settled'
  <2>1. Firm'
    BY <1>4, <1>5 DEF Firm, Files, Numbered
  <2>2. QED BY <1>1, <2>1 DEF Settled, Syncs
<1>9. data # NoData => Cached'
  <2> SUFFICES ASSUME data # NoData PROVE Cached'
    OBVIOUS
  <2>1. Cached /\ data \in Numbered
    BY <1>1 DEF Sound, Fresh, Typed
  <2>2. Selected.generation \in Nat /\ data.generation \in Nat
    BY <1>3, <2>1 DEF Numbered
  <2>3. Selected.generation >= data.generation
    <3>1. CASE AllMissing
      BY <1>2, <2>1, <2>2, <3>1, Selects DEF Cached, AllMissing, Good
    <3>2. CASE ~AllMissing
      BY <1>2, <2>1, <2>2, <3>2, Selects DEF Cached
    <3>3. QED BY <3>1, <3>2
  <2>4. n.generation > data.generation
    BY <1>4, <2>2, <2>3
  <2>5. QED BY <1>1, <1>5, <1>6, <2>4 DEF Cached, Files
<1>10. QED BY <1>1, <1>7, <1>8, <1>9 DEF Sound, Fresh, Steps, Renames, Syncs

-----------------------------------------------------------------------------
(* The steps of an operation.                                              *)

(* What is committed is ahead of every cell. *)
LEMMA PrepareStep ==
  ASSUME Typed, Typed', Sound, pc = "selected", NEW v \in 0..MaxCommits, Prepare(v), v \in Owed,
         op.kind # "snapshot"
  PROVE  Sound'
<1>1. /\ op'.kind = op.kind /\ op'.value = op.value
      /\ op'.contents.generation = op.contents.generation + 1 /\ op'.contents.value = v
      /\ pc' = "writeRecovery" /\ op.contents.generation \in Nat
      /\ UNCHANGED <<files, disk, data, removing, faults, commits, latest, tried>>
  BY Prepares DEF Typed, Numbered
<1>2. Owed' = Owed /\ pc \notin Syncs /\ pc' \notin Syncs /\ pc \in Steps
  BY <1>1 DEF Owed, Syncs, Steps
<1>3. Guarded' /\ Coherent' /\ Winners' /\ Survivors'
  BY <1>1, <1>2, CellsFrame DEF Sound
<1>4. Settled'
  BY <1>1, <1>2 DEF Sound, Settled, Firm
<1>5. Ahead'
  <2> SUFFICES ASSUME NEW f \in Files, NEW x \in Cells(f), Good(x)
               PROVE  x.generation < op'.contents.generation
    BY <1>1, Cell DEF Ahead, Cells
  <2>1. x.generation <= op.contents.generation
    BY <1>2 DEF Sound, Doing, Ahead
  <2>2. x.generation \in Nat
    BY Cell DEF Cells
  <2>3. QED BY <1>1, <2>1, <2>2
<1>6. Phases'
  <2>1. Written("recovery")' \/ pc' = "writeRecovery"
    BY <1>1
  <2>2. QED BY <1>1 DEF Phases
<1>7. Doing'
  BY <1>1, <1>2, <1>5, <1>6 DEF Sound, Doing
<1>8. Fresh'
  BY <1>1 DEF Fresh
<1>9. QED BY <1>3, <1>4, <1>7, <1>8 DEF Sound

LEMMA FinishReadStep ==
  ASSUME Typed, Typed', Counted, Control, Sound, pc = "selected", op.kind \in {"load", "snapshot"},
         FinishRead(IF op.kind = "load" THEN op.contents ELSE data)
  PROVE  Sound'
<1>1. /\ pc' = "ready" /\ UNCHANGED <<files, disk, faults>> /\ Observe(op.contents.value)
      /\ data' = IF op.kind = "load" THEN op.contents ELSE data
  BY DEF FinishRead, Return, durable
<1>2. pc \in Steps /\ pc \notin Syncs /\ pc' \notin Steps /\ pc' \notin Syncs
  BY <1>1 DEF Steps, Renames, Syncs
<1>3. Ahead /\ (AgreedEmpty \/ AgreedFull)
  BY <1>2 DEF Sound, Doing, Phases
<1>4. Winners' /\ Survivors'
  BY <1>1, <1>2, <1>3, Observed DEF Sound
<1>5. Guarded' /\ Coherent'
  BY <1>1 DEF Sound, Guarded, Coherent, Cells
<1>6. Settled'
  BY <1>1, <1>2 DEF Sound, Settled, Firm
<1>7. data' # NoData => Cached'
  <2>1. CASE op.kind = "snapshot"
    BY <1>1, <1>2, <2>1 DEF Sound, Fresh, Cached, AllMissing
  <2>2. CASE op.kind = "load" /\ AgreedEmpty
    BY <1>1, <2>2 DEF AgreedEmpty, Cached, AllMissing
  <2>3. CASE op.kind = "load" /\ AgreedFull
    BY <1>1, <2>3, NumberedStores DEF AgreedFull, Written, Cached, Good, Typed
  <2>4. QED BY <1>3, <2>1, <2>2, <2>3
<1>8. QED BY <1>1, <1>2, <1>4, <1>5, <1>6, <1>7 DEF Sound, Fresh

LEMMA ResolveStep ==
  ASSUME Typed, Typed', Counted, Control, Intact => Sound, Intact', Resolve
  PROVE  Sound'
<1>1. pc = "selected" /\ UNCHANGED <<removing, faults>>
  BY DEF Resolve, ResolveLoad, ResolveSave, Prepare, FinishRead
<1>2. Sound /\ pc \in Steps
  BY <1>1 DEF Intact, Steps
<1>3. /\ op.contents.value \in 0..MaxCommits /\ op.value \in 0..MaxCommits
      /\ op.contents.value \in Owed /\ (op.kind \in {"save", "replace"} => op.value \in Owed)
  BY <1>2 DEF Typed, Numbered, Sound, Doing
<1>4. CASE op.kind = "load" /\ Prepare(op.contents.value)
  BY <1>1, <1>2, <1>3, <1>4, PrepareStep
<1>5. CASE op.kind \in {"save", "replace"} /\ Prepare(op.value)
  BY <1>1, <1>2, <1>3, <1>5, PrepareStep
<1>6. CASE op.kind = "load" /\ FinishRead(op.contents)
  BY <1>1, <1>2, <1>6, FinishReadStep
<1>7. CASE op.kind = "snapshot" /\ FinishRead(data)
  BY <1>1, <1>2, <1>7, FinishReadStep
<1>8. CASE Return(NoData) /\ UNCHANGED <<durable, removing, faults, history>>
  <2>1. pc' = "ready" /\ data' = NoData /\ UNCHANGED <<files, disk, faults>> /\ Owed' = Owed
    BY <1>8 DEF Return, durable, history, Owed
  <2>2. Guarded' /\ Coherent' /\ Winners' /\ Survivors'
    BY <1>2, <2>1, CellsFrame DEF Sound
  <2>3. Settled'
    BY <1>1, <1>2, <2>1 DEF Sound, Settled, Firm, Syncs
  <2>4. QED BY <2>1, <2>2, <2>3 DEF Sound, Fresh, Steps, Renames, Syncs
<1>9. QED BY <1>4, <1>5, <1>6, <1>7, <1>8 DEF Resolve, ResolveLoad, ResolveSave
LEMMA QuarantineStep ==
  ASSUME Typed, Typed', Counted, Intact => Sound, Intact', Quarantine
  PROVE  Sound'
<1>1. PICK t \in Files : t = op.target
  BY DEF Typed
<1>2. /\ pc = "quarantine" /\ pc' = "quarantineSync"
      /\ UNCHANGED <<disk, data, op, removing, faults>> /\ Owed' = Owed
      /\ files'[t] = Missing /\ \A g \in Files : g # t => files'[g] = files[g]
  BY <1>1 DEF Quarantine, Typed, history, Owed
<1>3. Sound /\ pc \in Steps /\ pc' \in Steps /\ pc' \in Syncs
  BY <1>2 DEF Intact, Steps, Syncs
<1>4. files[t] = Corrupt /\ faults # 0
  BY <1>1, <1>2, <1>3 DEF Sound, Doing, Phases, Counted
<1>5. \A g \in Files : g # t => Good(files[g]) /\ Good(disk[g])
  BY <1>3, <1>4 DEF Sound, Guarded
<1>6. Guarded'
  BY <1>2, <1>3, <1>5, MarkersAssumption DEF Sound, Guarded, Good
<1>7. Coherent'
  BY <1>2, <1>3 DEF Sound, Coherent, Cells, Good
<1>8. Settled' /\ Survivors'
  BY <1>2, <1>3, <1>4 DEF Settled, Survivors
<1>9. Winners'
  <2> SUFFICES ASSUME NEW f \in Files, NEW g \in Files, f # g,
                      NEW a \in {files'[f], disk'[f]}, NEW b \in {files'[g], disk'[g]}
               PROVE  /\ Good(a) /\ (Good(b) => a.generation >= b.generation) => a.value \in Owed
                      /\ ~(a = Missing /\ b = Missing)
    BY <1>2 DEF Winners, Cells
  <2>1. CASE f = t
    <3>1. b \in Cells(g) /\ Good(b)
      BY <1>2, <1>5, <2>1 DEF Cells
    <3>2. Good(a) => a \in Cells(f)
      BY <1>2, <2>1 DEF Cells, Good
    <3>3. QED BY <1>3, <3>1, <3>2 DEF Sound, Winners, Good
  <2>2. CASE g = t
    <3>1. a \in Cells(f) /\ Good(a)
      BY <1>2, <1>5, <2>2 DEF Cells
    <3>2. \/ b \in Cells(g)
          \/ b = Missing /\ Corrupt \in Cells(g)
      BY <1>2, <1>4, <2>2 DEF Cells
    <3>3. QED BY <1>3, <3>1, <3>2 DEF Sound, Winners, Good
  <2>3. QED
    <3>1. CASE f # t /\ g # t
      BY <1>1, <3>1 DEF Files
    <3>2. QED BY <2>1, <2>2, <3>1
<1>10. Doing'
  <2>1. Ahead'
    BY <1>2, <1>3 DEF Sound, Doing, Ahead, Cells, Good
  <2>2. Phases'
    BY <1>1, <1>2, <1>3 DEF Sound, Doing, Phases, Written
  <2>3. QED BY <1>2, <1>3, <2>1, <2>2 DEF Sound, Doing
<1>11. Fresh'
  <2> SUFFICES ASSUME data # NoData, op.kind = "snapshot"
               PROVE  Cached' /\ (op.contents = data \/ op.contents.generation > data.generation)
    BY <1>2 DEF Fresh
  <2>1. Cached /\ (op.contents = data \/ op.contents.generation > data.generation)
    BY <1>3 DEF Sound, Fresh
  <2>2. ~AllMissing
    BY <1>1, <1>4, MarkersAssumption DEF AllMissing
  <2>3. Cached'
    BY <1>2, <1>4, <2>1, <2>2 DEF Cached, Good
  <2>4. QED BY <2>1, <2>3
<1>12. QED BY <1>6, <1>7, <1>8, <1>9, <1>10, <1>11 DEF Sound

LEMMA RenameStep ==
  ASSUME Typed, Typed', Control, Intact => Sound, Intact', Rename
  PROVE  Sound'
<1>1. PICK t \in Files : t = RenameTarget
  BY StepsTyped DEF Rename
<1>2. PICK c \in Numbered : c = op.contents
  BY DEF Typed
<1>3. Good(c) /\ c.generation \in Nat
  BY NumberedStores DEF Numbered
<1>4. /\ pc \in Renames /\ UNCHANGED <<disk, data, op, removing, faults>> /\ Owed' = Owed
      /\ files'[t] = c /\ \A g \in Files : g # t => files'[g] = files[g]
  BY <1>1, <1>2 DEF Rename, Typed, history, Owed
<1>5. Sound /\ pc \in Steps /\ pc' \in Steps /\ pc' \in Syncs /\ pc \notin Syncs
  BY <1>4, StepsTyped DEF Rename, Intact, Steps, Syncs, Renames
<1>6. Doing /\ op' = op
  BY <1>4, <1>5 DEF Sound
<1>7. \A f \in Files : \A x \in Cells(f) :
        Good(x) => /\ x.generation \in Nat /\ x.generation <= c.generation
                   /\ x.generation = c.generation => x = c
  BY <1>2, <1>6, Cell DEF Doing, Ahead, Cells
<1>8. \A f \in Files : \A x \in {files'[f], disk'[f]} : x \in Cells(f) \/ x = c
  BY <1>4 DEF Cells
<1>9. Guarded'
  BY <1>3, <1>4, <1>5 DEF Sound, Guarded, Good
<1>10. Coherent'
  <2> SUFFICES ASSUME NEW f \in Files, NEW g \in Files, NEW x \in {files'[f], disk'[f]},
                      NEW y \in {files'[g], disk'[g]}, Good(x), Good(y), x.generation = y.generation
               PROVE  x = y
    BY DEF Coherent, Cells
  <2>1. (x \in Cells(f) \/ x = c) /\ (y \in Cells(g) \/ y = c)
    BY <1>8
  <2>2. x \in Cells(f) /\ y \in Cells(g) => x = y
    BY <1>5 DEF Sound, Coherent
  <2>3. QED BY <1>7, <2>1, <2>2
<1>11. Settled'
  <2> SUFFICES ASSUME faults = 0 PROVE Firm'
    BY <1>4, <1>5 DEF Settled
  <2>1. files = disk
    BY <1>5 DEF Sound, Settled
  <2>2. \A f \in Files : Good(disk'[f]) => Good(files'[t]) /\ files'[t].generation >= disk'[f].generation
    BY <1>3, <1>4, <1>7 DEF Cells
  <2>3. PICK g \in Files : g # t
    BY Others
  <2>4. disk'[g] = files'[g]
    BY <1>4, <2>1, <2>3
  <2>5. QED BY <2>2, <2>4 DEF Firm
<1>12. c.value \in Owed
  BY <1>2, <1>6 DEF Doing
<1>13. Winners'
  <2> SUFFICES ASSUME NEW f \in Files, NEW g \in Files, f # g,
                      NEW a \in {files'[f], disk'[f]}, NEW b \in {files'[g], disk'[g]}
               PROVE  /\ Good(a) /\ (Good(b) => a.generation >= b.generation) => a.value \in Owed
                      /\ a = Missing /\ b = Missing => 0 \in Owed
    BY <1>4 DEF Winners, Cells
  <2>1. (a \in Cells(f) \/ a = c) /\ (b \in Cells(g) \/ b = c)
    BY <1>8
  <2>2. CASE a = c
    BY <1>3, <1>12, <2>2 DEF Good
  <2>3. CASE a \in Cells(f) /\ b = c
    <3>1. Good(a) /\ a.generation >= c.generation => a = c
      BY <1>3, <1>7, <2>3
    <3>2. QED BY <1>3, <1>12, <2>3, <3>1 DEF Good
  <2>4. CASE a \in Cells(f) /\ b \in Cells(g)
    BY <1>5, <2>4 DEF Sound, Winners
  <2>5. QED BY <2>1, <2>2, <2>3, <2>4
<1>14. Survivors'
  BY <1>4, <1>5, <1>8, <1>12 DEF Sound, Survivors, Cells
<1>15. Doing'
  <2>1. Ahead'
    BY <1>2, <1>3, <1>6, <1>7, <1>8 DEF Ahead, Cells
  <2>2. Phases'
    <3>1. CASE pc = "heal"
      <4>1. pc' = "healSync" /\ t = op.target
        BY <1>1, <3>1 DEF Rename, AfterRename, RenameTarget
      <4>2. QED BY <1>2, <1>4, <1>6, <3>1, <4>1 DEF Doing, Phases, Written
    <3>2. CASE pc = "writeRecovery"
      <4>1. pc' = "recoverySync" /\ t = "recovery"
        BY <1>1, <3>2 DEF Rename, AfterRename, RenameTarget
      <4>2. QED BY <1>2, <1>4, <4>1 DEF Phases, Written
    <3>3. CASE pc = "writePrimary"
      <4>1. pc' = "primarySync" /\ t = "primary" /\ "recovery" \in Files /\ "recovery" # t
        BY <1>1, <3>3 DEF Rename, AfterRename, RenameTarget, Files
      <4>2. QED BY <1>2, <1>4, <1>6, <3>3, <4>1 DEF Doing, Phases, Written
    <3>4. QED BY <1>4, <3>1, <3>2, <3>3 DEF Renames
  <2>3. QED BY <1>4, <1>6, <2>1, <2>2 DEF Doing
<1>16. Fresh'
  <2> SUFFICES ASSUME data # NoData, op.kind = "snapshot"
               PROVE  Cached' /\ (op.contents = data \/ op.contents.generation > data.generation)
    BY <1>4, <1>5 DEF Fresh, Syncs
  <2>1. Cached /\ (op.contents = data \/ op.contents.generation > data.generation)
    BY <1>5 DEF Sound, Fresh
  <2>2. Cached'
    BY <1>2, <1>3, <1>4, <2>1 DEF Cached, AllMissing, Good
  <2>3. QED BY <2>1, <2>2
<1>17. QED BY <1>9, <1>10, <1>11, <1>13, <1>14, <1>15, <1>16 DEF Sound

LEMMA SyncStep ==
  ASSUME Typed, Typed', Removal, Intact => Sound, Intact', Sync
  PROVE  Sound'
<1>1. /\ pc \in Syncs /\ disk' = files /\ UNCHANGED <<files, data, op, removing>> /\ Owed' = Owed
      /\ faults < 2 /\ (faults' = 0 => faults = 0 \/ Whole(files))
      /\ pc' = AfterSync
  BY DEF Sync, Intact, history, Owed, Typed
<1>2. /\ Sound /\ pc \in Steps
      /\ pc' \in {"heal", "selected", "writePrimary", "committed"}
  BY <1>1, StepsTyped DEF Intact, Steps
<1>3. pc' \notin Syncs
  BY <1>2 DEF Syncs
<1>4. Guarded'
  BY <1>1, <1>2 DEF Sound, Guarded
<1>5. \A f \in Files : \A x \in {files'[f], disk'[f]} : x = files[f] /\ x \in Cells(f)
  BY <1>1 DEF Cells
<1>6. Coherent'
  BY <1>2, <1>5 DEF Sound, Coherent, Cells
<1>7. Settled'
  <2>1. files' = disk' /\ \A f \in Files : Good(disk'[f]) => files'[f].generation >= disk'[f].generation
    BY <1>1, Cell
  <2>2. Firm'
    BY <2>1 DEF Firm, Files
  <2>3. QED BY <1>3, <2>1, <2>2 DEF Settled
<1>8. Winners'
  BY <1>1, <1>2, <1>5 DEF Sound, Winners, Cells
<1>9. Survivors'
  <2> SUFFICES ASSUME faults' = 0, NEW f \in Files, Good(files[f]) PROVE files[f].value \in Owed
    BY <1>1, <1>5 DEF Survivors, Cells
  <2>1. CASE faults = 0
    BY <1>2, <2>1 DEF Sound, Survivors, Cells
  <2>2. CASE Whole(files)
    <3>1. PICK g \in Files : g # f
      BY Others
    <3>2. files[g] = files[f] /\ files[f].generation \in Nat
      BY <2>2, <3>1, Cell DEF Whole, Files
    <3>3. QED BY <1>2, <3>1, <3>2 DEF Sound, Winners, Cells
  <2>3. QED BY <1>1, <2>1, <2>2
<1>10. pc # "removeSync"
  BY <1>1 DEF Removal, Intact
<1>11. Doing'
  <2>1. Ahead'
    BY <1>1, <1>2, <1>5 DEF Sound, Doing, Ahead, Cells
  <2>2. Phases
    BY <1>2 DEF Sound, Doing
  <2>3. Phases'
    <3>1. CASE pc = "quarantineSync"
      BY <1>1, <2>2, <3>1 DEF AfterSync, Phases, Written
    <3>2. CASE pc = "healSync"
      <4>1. pc' = "selected" /\ \A f \in Files : Written(f)
        BY <1>1, <2>2, <3>2 DEF AfterSync, Phases
      <4>2. QED BY <1>1, <1>2, <4>1 DEF Phases, AgreedFull, Written, Sound, Guarded, Files, Good
    <3>3. CASE pc = "recoverySync"
      BY <1>1, <2>2, <3>3 DEF AfterSync, Phases, Written
    <3>4. CASE pc = "primarySync"
      <4>1. pc' = "committed" /\ \A f \in Files : Written(f)
        BY <1>1, <2>2, <3>4 DEF AfterSync, Phases, Files
      <4>2. QED BY <1>1, <1>2, <4>1 DEF Phases, AgreedFull, Written, Sound, Guarded, Files, Good
    <3>5. QED BY <1>1, <1>10, <3>1, <3>2, <3>3, <3>4 DEF Syncs
  <2>4. QED BY <1>1, <1>2, <2>1, <2>3 DEF Sound, Doing
<1>12. Fresh'
  BY <1>1, <1>2 DEF Sound, Fresh, Cached, AllMissing
<1>13. QED BY <1>4, <1>6, <1>7, <1>8, <1>9, <1>11, <1>12 DEF Sound
LEMMA AcknowledgeStep ==
  ASSUME Typed, Typed', Counted, Control, Removal, Intact => Sound, Intact', Acknowledge
  PROVE  Sound'
<1>1. pc = "committed" /\ pc \in Steps /\ pc \notin Syncs
  BY DEF Acknowledge, Steps, Syncs
<1>2. pc' = "ready" /\ pc' \notin Steps /\ pc' \notin Syncs /\ UNCHANGED <<files, disk, faults>>
  BY DEF Acknowledge, Return, Steps, Renames, Syncs, durable
<1>3. CASE op.kind = "remove"
  <2>1. data' = NoData /\ latest' = 0 /\ tried' = {} /\ disk = files
        /\ \A f \in Files : files[f] = Missing /\ disk[f] = Missing
    BY <1>1, <1>3 DEF Acknowledge, Return, Observe, Control, Removal, Files
  <2>2. Guarded' /\ Coherent' /\ Winners' /\ Survivors'
    BY <1>2, <2>1, MarkersAssumption DEF Guarded, Coherent, Winners, Survivors, Cells, Good, Owed
  <2>3. Settled'
    BY <1>2, <2>1, SameIsFirm, FirmFrame DEF Settled
  <2>4. QED BY <1>2, <2>1, <2>2, <2>3 DEF Sound, Fresh
<1>4. CASE op.kind # "remove"
  <2>1. data' = op.contents /\ Observe(op.contents.value) /\ ~removing /\ Sound
    BY <1>1, <1>2, <1>4 DEF Acknowledge, Return, Intact, Control
  <2>2. Ahead /\ (AgreedEmpty \/ AgreedFull)
    BY <1>1, <2>1 DEF Sound, Doing, Phases
  <2>3. Winners' /\ Survivors'
    BY <1>1, <1>2, <2>1, <2>2, Observed DEF Sound
  <2>4. Guarded' /\ Coherent'
    BY <1>2, <2>1 DEF Sound, Guarded, Coherent, Cells
  <2>5. Settled'
    BY <1>1, <1>2, <2>1 DEF Sound, Settled, Firm
  <2>6. Cached'
    <3>1. AgreedFull
      BY <1>1, <2>2 DEF AgreedEmpty
    <3>2. QED BY <1>2, <2>1, <3>1, NumberedStores DEF AgreedFull, Written, Cached, Good, Typed
  <2>7. QED BY <1>2, <2>1, <2>3, <2>4, <2>5, <2>6 DEF Sound, Fresh
<1>5. QED BY <1>3, <1>4

-----------------------------------------------------------------------------
(* Failures.                                                               *)

LEMMA StopStep ==
  ASSUME Typed, Typed', Control, Intact => Sound, Intact', Throw \/ Kill
  PROVE  Sound'
<1>1. /\ UNCHANGED <<files, disk, removing, commits, latest, tried>>
      /\ pc' \in {"ready", "down"} /\ data' \in {data, NoData}
      /\ pc' = "down" => data' = NoData
      /\ (faults' = faults /\ pc = "ready") \/ Abandon
      /\ pc' = "ready" /\ op.kind \in {"save", "replace"} => data' = NoData
      /\ pc' = "ready" => pc \in Steps
  BY Stops
<1>2. pc' \notin Steps /\ pc' \notin Syncs /\ Owed' = Owed /\ (pc = "ready" => pc \notin Syncs)
  BY <1>1 DEF Steps, Renames, Syncs, Owed
<1>3. /\ faults < 2 /\ (faults' = 0 => faults = 0)
      /\ pc \notin Syncs \/ Abandon
  BY <1>1, <1>2, Abandons DEF Intact
<1>4. Sound
  BY <1>1, <1>3 DEF Intact
<1>5. Guarded' /\ Coherent' /\ Winners' /\ Survivors'
  BY <1>1, <1>2, <1>3, <1>4, CellsFrame DEF Sound
<1>6. Settled'
  <2>1. CASE faults' = faults /\ pc = "ready"
    BY <1>1, <1>2, <1>4, <2>1, FirmFrame DEF Sound, Settled
  <2>2. CASE Abandon /\ files = disk
    <3>1. Firm'
      BY <1>1, <2>2, SameIsFirm, FirmFrame
    <3>2. QED BY <1>1, <1>2, <2>2, <3>1 DEF Settled
  <2>3. CASE Abandon /\ files # disk
    <3>1. faults = 0 /\ faults' # 0
      BY <2>3, Abandons DEF Intact
    <3>2. Firm
      BY <1>4, <2>3, <3>1 DEF Sound, Settled
    <3>3. QED BY <1>1, <1>2, <3>1, <3>2, FirmFrame DEF Settled
  <2>4. QED BY <1>1, <2>1, <2>2, <2>3
<1>7. Fresh'
  <2> SUFFICES ASSUME data' # NoData PROVE Cached'
    BY <1>2 DEF Fresh
  <2>1. pc' = "ready" /\ pc \in Steps /\ data' = data /\ op.kind \notin {"save", "replace"}
    BY <1>1
  <2>2. op.kind = "snapshot"
    BY <1>1, <2>1 DEF Control, Intact, Typed, Kinds
  <2>3. Cached
    BY <1>4, <2>1, <2>2 DEF Sound, Fresh
  <2>4. QED BY <1>1, <2>1, <2>3 DEF Cached, AllMissing
<1>8. QED BY <1>2, <1>5, <1>6, <1>7 DEF Sound

LEMMA PowerLossStep ==
  ASSUME Typed, Typed', Intact => Sound, Intact', PowerLoss
  PROVE  Sound'
<1>1. PICK kept \in SUBSET Files : disk' = [f \in Files |-> IF f \in kept THEN files[f] ELSE disk[f]]
  BY DEF PowerLoss
<1>2. /\ pc' = "down" /\ data' = NoData /\ files' = disk' /\ UNCHANGED <<removing, faults>>
      /\ Owed' = Owed /\ Sound
  BY DEF PowerLoss, Stop, history, Owed, Intact
<1>3. \A f \in Files : disk'[f] \in Cells(f) /\ files'[f] = disk'[f]
  BY <1>1, <1>2 DEF Cells
<1>4. Guarded'
  BY <1>2, <1>3 DEF Sound, Guarded, Cells
<1>5. Coherent'
  BY <1>2, <1>3 DEF Sound, Coherent, Cells
<1>6. Winners'
  BY <1>2, <1>3 DEF Sound, Winners, Cells
<1>7. Survivors'
  BY <1>2, <1>3 DEF Sound, Survivors, Cells
<1>8. Settled'
  <2>1. \A f \in Files : Good(disk'[f]) => files'[f].generation >= disk'[f].generation
    <3> SUFFICES ASSUME NEW f \in Files, Good(disk'[f]) PROVE disk'[f].generation \in Nat
      BY <1>3
    <3>1. QED BY <1>3, Cell DEF Cells
  <2>2. Firm'
    BY <1>3, <2>1 DEF Firm, Files
  <2>3. QED BY <1>2, <2>2 DEF Settled, Syncs
<1>9. QED BY <1>2, <1>4, <1>5, <1>6, <1>7, <1>8 DEF Sound, Fresh, Steps, Renames, Syncs

LEMMA RotStep ==
  ASSUME Typed, Typed', Counted, Intact => Sound, Intact', NEW f \in Files, Rot(f)
  PROVE  Sound'
<1>1. PICK g \in Files : g # f /\ g = Other(f)
  BY Others
<1>2. \A h \in Files : h = f \/ h = g
  BY <1>1 DEF Files
<1>3. /\ files[f] \in Store /\ faults = 0 /\ faults' = 1 /\ UNCHANGED <<data, pc, op, removing>>
      /\ files[g] \in Store /\ disk[g] \in Store
      /\ files' = [files EXCEPT ![f] = Corrupt] /\ disk' = [disk EXCEPT ![f] = Corrupt]
      /\ Owed' = Owed
  BY <1>1 DEF Rot, Intact, Typed, history, Owed
<1>4. /\ files'[f] = Corrupt /\ disk'[f] = Corrupt /\ files'[g] = files[g] /\ disk'[g] = disk[g]
      /\ Good(files[f]) /\ Good(files[g]) /\ Good(disk[g])
  BY <1>1, <1>3, Cell DEF Typed
<1>5. Sound
  BY <1>3 DEF Intact
<1>6. Guarded'
  BY <1>2, <1>4 DEF Guarded, Good
<1>7. Coherent'
  BY <1>2, <1>4, <1>5 DEF Sound, Coherent, Cells, Good
<1>8. Settled'
  <2> SUFFICES ASSUME pc \notin Syncs PROVE Firm'
    BY <1>3 DEF Settled
  <2>1. files = disk
    BY <1>3, <1>5 DEF Sound, Settled
  <2>2. disk'[g] = files'[g] /\ files'[g].generation \in Nat
    BY <1>4, <2>1, Cell
  <2>3. QED BY <1>2, <1>4, <2>2 DEF Firm, Good
<1>9. Winners'
  <2>1. files[g].value \in Owed /\ disk[g].value \in Owed
    BY <1>3, <1>4, <1>5 DEF Sound, Survivors, Cells
  <2>2. QED BY <1>2, <1>3, <1>4, <2>1, MarkersAssumption DEF Winners, Cells, Good
<1>10. Survivors'
  BY <1>3 DEF Survivors
<1>11. pc \in Steps => Doing'
  <2> SUFFICES ASSUME pc \in Steps PROVE Doing'
    OBVIOUS
  <2>1. Ahead'
    BY <1>2, <1>3, <1>4, <1>5 DEF Sound, Doing, Ahead, Cells, Good
  <2>2. Phases
    BY <1>5 DEF Sound, Doing
  <2>3. \A h \in Files : Written(h) => Written(h)'
    BY <1>2, <1>3, <1>4 DEF Written
  <2>4. pc # "quarantine"
    <3>1. op.target \in Files
      BY DEF Typed
    <3>2. QED BY <1>3, <2>2, <3>1 DEF Phases, Counted
  <2>5. pc \in {"selected", "committed"} => AgreedFull'
    <3> SUFFICES ASSUME pc \in {"selected", "committed"} PROVE AgreedFull'
      OBVIOUS
    <3>1. AgreedFull
      BY <1>4, <2>2 DEF Phases, AgreedEmpty, Good
    <3>2. files = disk
      BY <1>3, <1>5 DEF Sound, Settled, Syncs
    <3>3. files[g] = op.contents /\ disk[g] = op.contents
      BY <1>4, <3>1, <3>2 DEF AgreedFull, Written, Good
    <3>4. \A h \in Files : Written(h)'
      BY <2>3, <3>1 DEF AgreedFull
    <3>5. QED BY <1>3, <1>4, <3>3, <3>4 DEF AgreedFull
  <2>6. Phases'
    <3>1. op'.target \in Files /\ "recovery" \in Files /\ "primary" \in Files
      BY <1>3 DEF Typed, Files
    <3>2. QED BY <1>3, <2>2, <2>3, <2>4, <2>5, <3>1 DEF Phases
  <2>7. QED BY <1>3, <1>5, <2>1, <2>6 DEF Sound, Doing
<1>12. Fresh'
  <2>1. Cached => Cached'
    <3> SUFFICES ASSUME Cached PROVE Cached'
      OBVIOUS
    <3>1. ~AllMissing
      BY <1>4 DEF AllMissing, Good
    <3>2. QED BY <1>2, <1>3, <1>4, <3>1 DEF Cached, Good
  <2>2. QED BY <1>3, <1>5, <2>1 DEF Sound, Fresh
<1>13. QED BY <1>3, <1>6, <1>7, <1>8, <1>9, <1>10, <1>11, <1>12 DEF Sound

LEMMA StartStep ==
  ASSUME Typed, Control, Intact => Sound, Intact', Start
  PROVE  Sound'
<1>1. /\ pc = "down" /\ pc' = "ready" /\ data = NoData
      /\ UNCHANGED <<files, disk, data, op, removing, faults, latest, tried>> /\ Sound
  BY DEF Start, durable, history, Intact, Control
<1>2. Guarded' /\ Coherent' /\ Winners' /\ Survivors'
  BY <1>1, CellsFrame DEF Sound, Owed
<1>3. Settled'
  BY <1>1 DEF Sound, Settled, Firm, Syncs
<1>4. QED BY <1>1, <1>2, <1>3 DEF Sound, Fresh, Steps, Renames, Syncs

-----------------------------------------------------------------------------
(* The theorems.                                                           *)

LEMMA InitInv == Init => IInv
<1> SUFFICES ASSUME Init PROVE IInv
  OBVIOUS
<1>0. PICK c \in Numbered \cup {Missing} : files = [f \in Files |-> c] /\ (c # Missing => c.value = 1)
  <2>1. 1 \in 0..MaxCommits
    BY MaxCommitsAssumption
  <2>2. PICK c \in {Missing, [generation |-> 1, value |-> 1, old |-> FALSE],
                    [generation |-> 0, value |-> 1, old |-> TRUE]} : files = [f \in Files |-> c]
    BY DEF Init
  <2>3. c = Missing \/ (c \in Numbered /\ c.value = 1)
    <3>1. CASE c = Missing
      BY <3>1
    <3>2. CASE c = [generation |-> 1, value |-> 1, old |-> FALSE]
      BY <2>1, <3>2 DEF Numbered
    <3>3. CASE c = [generation |-> 0, value |-> 1, old |-> TRUE]
      BY <2>1, <3>3 DEF Numbered
    <3>4. QED BY <2>2, <3>1, <3>2, <3>3
  <2>4. QED BY <2>2, <2>3
<1>1. /\ \A f \in Files : files[f] = c /\ disk[f] = c
      /\ disk = files /\ files \in [Files -> Numbered \cup {Missing, Corrupt}]
  BY <1>0 DEF Init
<1>2. /\ data = NoData /\ pc = "down" /\ op = NoOp /\ ~removing /\ removing \in BOOLEAN
      /\ latest = commits /\ tried = {} /\ faults = 0 /\ commits = IF AllMissing THEN 0 ELSE 1
  BY DEF Init
<1>3. commits = IF c = Missing THEN 0 ELSE 1
  BY <1>1, <1>2 DEF AllMissing, Files
<1>4. Typed
  BY <1>1, <1>2, <1>3, NoOpTyped, MaxCommitsAssumption DEF Typed
<1>5. c # Corrupt /\ pc \notin Steps /\ pc \notin Syncs
  BY <1>2, NumberedStores, MarkersAssumption DEF Steps, Renames, Syncs, Good
<1>6. Counted /\ Control /\ Removal
  BY <1>1, <1>2, <1>5 DEF Counted, Control, Removal
<1>7. Guarded /\ Coherent
  BY <1>1, <1>5 DEF Guarded, Coherent, Cells
<1>8. Settled
  BY <1>1, <1>4, <1>5, SameIsFirm DEF Settled
<1>9. Winners /\ Survivors
  BY <1>0, <1>1, <1>2, <1>3 DEF Winners, Survivors, Cells, Owed, Good
<1>10. QED BY <1>2, <1>4, <1>5, <1>6, <1>7, <1>8, <1>9 DEF IInv, Sound, Fresh

LEMMA StepInv == IInv /\ [Next]_vars => IInv'
<1>1. ASSUME IInv, Next PROVE IInv'
  <2>1. Typed' /\ Counted' /\ Control' /\ Removal'
    BY <1>1, TypedStep, CountedStep, ControlStep, RemovalStep DEF IInv
  <2>2. ASSUME Intact' PROVE Sound'
    <3>1. Typed /\ Typed' /\ Counted /\ Control /\ Removal /\ (Intact => Sound)
      BY <1>1, <2>1 DEF IInv
    <3>2. CASE Load \/ Save \/ ReadSnapshot \/ ReplaceSnapshot
      BY <2>2, <3>1, <3>2, BeginStep
    <3>3. CASE RemoveSnapshot
      BY <2>2, <3>3 DEF RemoveSnapshot, Intact
    <3>4. CASE OtherInstanceCommits
      BY <2>2, <3>1, <3>4, OtherInstanceStep
    <3>5. CASE Resolve
      BY <2>2, <3>1, <3>5, ResolveStep
    <3>6. CASE Quarantine
      BY <2>2, <3>1, <3>6, QuarantineStep
    <3>7. CASE Rename
      BY <2>2, <3>1, <3>7, RenameStep
    <3>8. CASE Sync
      BY <2>2, <3>1, <3>8, SyncStep
    <3>9. CASE RemovePrimary \/ RemoveRecovery
      BY <2>2, <3>1, <3>9 DEF RemovePrimary, RemoveRecovery, Removal, Intact
    <3>10. CASE Acknowledge
      BY <2>2, <3>1, <3>10, AcknowledgeStep
    <3>11. CASE Throw \/ Kill
      BY <2>2, <3>1, <3>11, StopStep
    <3>12. CASE PowerLoss
      BY <2>2, <3>1, <3>12, PowerLossStep
    <3>13. CASE \E f \in Files : Rot(f)
      BY <2>2, <3>1, <3>13, RotStep
    <3>14. CASE Start
      BY <2>2, <3>1, <3>14, StartStep
    <3>15. QED BY <1>1, <3>2, <3>3, <3>4, <3>5, <3>6, <3>7, <3>8, <3>9, <3>10, <3>11, <3>12, <3>13,
                  <3>14 DEF Next, Begin, Step, Failure
  <2>3. QED BY <2>1, <2>2 DEF IInv
<1>2. ASSUME IInv, UNCHANGED vars PROVE IInv'
  BY <1>2 DEF IInv, vars, Typed, Counted, Control, Removal, Intact, Sound, Guarded, Coherent, Settled,
              Firm, Winners, Survivors, Doing, Ahead, Phases, AgreedEmpty, AgreedFull, Written, Fresh,
              Cached, AllMissing, Cells, Owed
<1>3. QED BY <1>1, <1>2

(* Whatever is written, fails, is killed, loses power or rots, the cells   *)
(* stay sound as long as the faults come one at a time.                    *)
THEOREM StoreInvariant == Spec => []IInv
BY InitInv, StepInv, PTL DEF Spec

(* Type correctness of the store file.                                     *)
THEOREM StoreTypes == Spec => []TypeOK
<1>1. IInv => TypeOK
  <2> SUFFICES ASSUME IInv PROVE TypeOK
    OBVIOUS
  <2>1. Numbered \subseteq Store /\ 0..MaxCommits \subseteq Nat
    BY NumberedStores, MaxCommitsAssumption
  <2>2. QED BY <2>1 DEF IInv, Typed, TypeOK
<1>2. QED BY <1>1, StoreInvariant, PTL

(* Between operations, and after any kill or power loss, a load finds one  *)
(* generation to select: it never refuses the store of a node that had one *)
(* fault at a time (store.ts, committedStoreLocked).                       *)
THEOREM StoreAlwaysReadable == Spec => []AlwaysReadable
<1>1. IInv => AlwaysReadable
  <2> SUFFICES ASSUME IInv, pc \in {"down", "ready"}, ~removing, faults < 2 PROVE ~Unreadable
    BY DEF AlwaysReadable
  <2>1. Typed /\ Sound
    BY DEF IInv, Intact
  <2>2. ~Ambiguous
    <3> SUFFICES ASSUME Ambiguous PROVE FALSE
      OBVIOUS
    <3>1. Good(files["primary"]) /\ Good(files["recovery"]) /\ files["primary"] # files["recovery"]
          /\ files["primary"].generation = files["recovery"].generation
      BY <2>1, Cell DEF Ambiguous, Valid, Files
    <3>2. QED BY <2>1, <3>1 DEF Sound, Coherent, Cells, Files
  <2>3. Valid = {} => AllMissing
    <3> SUFFICES ASSUME Valid = {}, NEW f \in Files PROVE files[f] = Missing
      BY DEF AllMissing
    <3>1. \A h \in Files : ~Good(files[h])
      BY <2>1, Cell DEF Valid
    <3>2. PICK g \in Files : g # f
      BY Others
    <3>3. files[f] # Corrupt
      BY <2>1, <3>1, <3>2 DEF Sound, Guarded
    <3>4. QED BY <3>1, <3>3 DEF Good
  <2>4. QED BY <2>2, <2>3 DEF Unreadable
<1>2. QED BY <1>1, StoreInvariant, PTL

(* The cached store is what a fresh load would return, or older than it.   *)
THEOREM StoreCacheIsCurrent == Spec => []CacheIsCurrent
<1>1. IInv /\ AlwaysReadable => CacheIsCurrent
  <2> SUFFICES ASSUME IInv, AlwaysReadable, pc = "ready", data # NoData, ~removing, faults < 2
               PROVE  Selected = data \/ Selected.generation > data.generation
    BY DEF CacheIsCurrent
  <2>1. Typed /\ Cached /\ ~Unreadable
    BY DEF IInv, Intact, Sound, Fresh, AlwaysReadable
  <2>2. CASE AllMissing
    BY <2>1, <2>2, Selects DEF Cached, AllMissing, Good
  <2>3. CASE ~AllMissing
    BY <2>1, <2>3, Selects DEF Cached
  <2>4. QED BY <2>2, <2>3
<1>2. QED BY <1>1, StoreInvariant, StoreAlwaysReadable, PTL

(* What a load returns and a commit acknowledges was returned or           *)
(* acknowledged last, or handed to the store since: no kill, failed write, *)
(* power loss or rotten copy brings an older value back.                   *)
THEOREM StoreLosesNothingSeen == Spec => NothingSeenIsLost
<1> DEFINE Kept == latest' # latest /\ faults < 2 =>
                     latest' \in tried \/ (latest' = commits' /\ commits' > commits)
<1>1. IInv /\ [Next]_vars => [Kept]_vars
  <2> SUFFICES ASSUME IInv, Next, latest' # latest, faults < 2
               PROVE  latest' \in tried \/ (latest' = commits' /\ commits' > commits)
    BY DEF vars
  <2>1. Typed /\ Control /\ Removal /\ (Intact => Sound)
    BY DEF IInv
  <2>2. \/ OtherInstanceCommits
        \/ pc = "selected" /\ \E d : FinishRead(d)
        \/ Acknowledge
    BY DEF Next, Begin, Step, Failure, Load, Save, ReadSnapshot, ReplaceSnapshot, RemoveSnapshot,
           Resolve, ResolveLoad, ResolveSave, Prepare, Quarantine, Rename, Sync, RemovePrimary,
           RemoveRecovery, Throw, Kill, PowerLoss, Rot, Start, history
  <2>3. CASE OtherInstanceCommits
    BY <2>1, <2>3 DEF OtherInstanceCommits, Handed, Observe, Typed
  <2>4. ASSUME pc \in Steps, ~removing, latest' = op.contents.value PROVE latest' \in tried
    BY <2>1, <2>4 DEF Intact, Sound, Doing, Owed
  <2>5. CASE pc = "selected" /\ \E d : FinishRead(d)
    <3>1. ~removing /\ pc \in Steps /\ latest' = op.contents.value
      BY <2>1, <2>5 DEF Removal, Steps, FinishRead, Observe
    <3>2. QED BY <2>4, <3>1
  <2>6. CASE Acknowledge
    <3>1. pc \in Steps
      BY <2>6 DEF Acknowledge, Steps
    <3>2. CASE op.kind = "remove"
      BY <2>1, <2>6, <3>1, <3>2 DEF Acknowledge, Observe, Control, Removal
    <3>3. CASE op.kind # "remove"
      <4>1. ~removing /\ latest' = op.contents.value
        BY <2>1, <2>6, <3>1, <3>3 DEF Acknowledge, Observe, Control
      <4>2. QED BY <2>4, <3>1, <4>1
    <3>4. QED BY <3>2, <3>3
  <2>7. QED BY <2>2, <2>3, <2>5, <2>6
<1>2. [][Kept]_vars => NothingSeenIsLost
  BY DEF NothingSeenIsLost
<1>3. QED BY <1>1, <1>2, StoreInvariant, PTL DEF Spec

=============================================================================
