-------------------------- MODULE RestoreJournal --------------------------
(***************************************************************************)
(* The write-ahead journal around a restore: src/daemon/src/restore-       *)
(* journal.ts, driven by the POST /restore handler of server.ts, the       *)
(* prepared restore of restore-lifecycle.ts and daemon.ts, and replayed at *)
(* the next start.  Core import and the three files are not one            *)
(* transaction; the journal makes the three files one.                     *)
(*                                                                         *)
(* Every file operation is one step: each writes its file atomically       *)
(* (StoreDurability for the store, write-and-rename for the others), and   *)
(* each can throw before or after it took effect, or be the last thing the *)
(* process did.                                                            *)
(***************************************************************************)
EXTENDS Naturals

CONSTANTS
  None, Bases, Keys, Accounts, Backups,
  MaxRestores,   \* bound: restores begun
  MaxEdits,      \* bound: store edits
  MaxFailures    \* bound: crashes and failed file operations

ASSUME BackupsAssumption ==
  /\ None \notin Bases \cup Keys \cup Accounts
  /\ Backups \subseteq [store : Bases \cup {None}, key : Keys \cup {None}, account : Accounts]

ASSUME BoundsAssumption ==
  MaxRestores \in Nat /\ MaxEdits \in Nat /\ MaxFailures \in Nat

VARIABLES
  roots,     \* the three files: store, key and account
  journal,   \* the journal file, None when there is none
  mem,       \* the journal as the restoring or recovering process holds it
  sidecar,   \* what the backup being restored carries
  pc,        \* what the process does next
  restores, edits, failures

vars == <<roots, journal, mem, sidecar, pc, restores, edits, failures>>
bounds == <<restores, edits, failures>>

Snapshot == [generation : Nat, base : Bases \cup {None}, edits : Nat]
Roots == [store   : Snapshot \cup {None},
          key     : Keys \cup {None},
          account : Accounts \cup {None}]

Phases == {"prepared", "installed", "credentials-prepared", "committed"}
Journal == [phase : Phases, previous : Roots, donor : Roots]

ASSUME NoneAssumption ==
  /\ None \notin Snapshot /\ None \notin [base : Bases \cup {None}, edits : Nat]
  /\ None \notin Journal /\ None \notin Backups

Installing == {"writePrepared", "import", "installStore", "installKey", "writeInstalled",
               "opening", "writeCredentials", "swapAccount", "writeCommitted"}
Finishing == {"finish", "finishUnpublished"}
RollingBack == {"rollbackStore", "rollbackKey", "rollbackAccount", "rollbackRemove"}
Recovering == {"recoverStore", "recoverKey", "recoverAccount", "recoverRemove"}

Settled == {"down", "idle", "running"}

TypeOK ==
  /\ roots \in Roots
  /\ journal \in Journal \cup {None}
  /\ mem \in Journal \cup {None}
  /\ sidecar \in Backups \cup {None}
  /\ pc \in Installing \cup Finishing \cup RollingBack \cup Recovering \cup Settled
  /\ restores \in 0..MaxRestores /\ edits \in 0..MaxEdits /\ failures \in 0..MaxFailures

---------------------------------------------------------------------------
(* File operations.                                                        *)

Generation(s) == IF s = None THEN 0 ELSE s.generation

(* replaceSnapshot: the contents under the generation after the current one. *)
Replaced(s) == IF s = None THEN None ELSE [s EXCEPT !.generation = Generation(roots.store) + 1]

SetStore(s) == roots' = [roots EXCEPT !.store = Replaced(s)] /\ UNCHANGED journal
SetKey(k) == roots' = [roots EXCEPT !.key = k] /\ UNCHANGED journal
SetJournal(j) == journal' = j /\ UNCHANGED roots
NothingToDo == UNCHANGED <<roots, journal>>

(* compareExchangeAccount replaces what it expects, or finds the           *)
(* replacement in place; anything else is a conflict.                      *)
Exchangeable(expected, replacement) == roots.account \in {expected, replacement}
Exchange(expected, replacement) ==
  /\ Exchangeable(expected, replacement)
  /\ roots' = [roots EXCEPT !.account = replacement]
  /\ UNCHANGED journal

Failing == failures < MaxFailures /\ failures' = failures + 1

(* The catch block of the handler: an uncommitted restore is rolled back,  *)
(* a committed one is finished.  A rollback that throws leaves the journal *)
(* to the next start, and so does a replay, which aborts the start.        *)
Caught ==
  IF pc \in Recovering THEN "down"
  ELSE IF pc = "finish" THEN "running"
  ELSE IF pc \in {"writePrepared", "finishUnpublished"} \cup RollingBack THEN "idle"
  ELSE IF mem.phase = "committed" THEN "finishUnpublished"
  ELSE "rollbackStore"

(* The file operation took effect, and then returned or threw.             *)
Goes(next, remembered) ==
  /\ \/ pc' = next /\ mem' = remembered /\ UNCHANGED failures
     \/ pc' = Caught /\ UNCHANGED mem /\ Failing
  /\ UNCHANGED <<sidecar, restores, edits>>

(* The file operation threw and changed nothing.                           *)
Throw ==
  /\ pc \notin {"import", "opening"} \cup Settled
  /\ pc' = Caught /\ Failing
  /\ UNCHANGED <<roots, journal, mem, sidecar, restores, edits>>

Crash ==
  /\ pc # "down"
  /\ Failing
  /\ pc' = "down" /\ mem' = None /\ sidecar' = None
  /\ UNCHANGED <<roots, journal, restores, edits>>

---------------------------------------------------------------------------
(* A restore.                                                              *)

(* beginSidecarRestore: only on a node without a transport, and not over   *)
(* an unfinished journal.  A part the backup lacks is left as it is.       *)
BeginRestore(b) ==
  /\ pc = "idle" /\ journal = None
  /\ restores < MaxRestores /\ restores' = restores + 1
  /\ sidecar' = b
  /\ mem' = [phase    |-> "prepared",
             previous |-> roots,
             donor    |-> [store   |-> IF b.store = None THEN roots.store
                                       ELSE [generation |-> 0, base |-> b.store, edits |-> 0],
                           key     |-> IF b.key = None THEN roots.key ELSE b.key,
                           account |-> None]]
  /\ pc' = "writePrepared"
  /\ UNCHANGED <<roots, journal, edits, failures>>

WritePrepared ==
  /\ pc = "writePrepared"
  /\ SetJournal(mem)
  /\ Goes("import", mem)

(* The backup's core is imported into the data directory.                  *)
ImportCore ==
  /\ pc = "import"
  /\ pc' = "installStore"
  /\ UNCHANGED <<roots, journal, mem, sidecar, bounds>>

InstallStore ==
  /\ pc = "installStore"
  /\ SetStore(mem.donor.store)
  /\ Goes("installKey", mem)

(* What was installed is read back before the journal says so.             *)
InstallKey ==
  /\ pc = "installKey"
  /\ SetKey(mem.donor.key)
  /\ Goes("writeInstalled",
          [mem EXCEPT !.phase = "installed",
                      !.donor = [roots' EXCEPT !.account = None]])

WriteInstalled ==
  /\ pc = "writeInstalled"
  /\ SetJournal(mem)
  /\ Goes("opening", mem)

(* The restored core is open and its address is the sidecar's; the rest of *)
(* persistCredentials follows without an await.                            *)
PersistCredentials ==
  /\ pc = "opening"
  /\ mem' = [mem EXCEPT !.phase = "credentials-prepared",
                        !.donor = [roots EXCEPT !.account = sidecar.account]]
  /\ pc' = "writeCredentials"
  /\ UNCHANGED <<roots, journal, sidecar, bounds>>

WriteCredentials ==
  /\ pc = "writeCredentials"
  /\ SetJournal(mem)
  /\ Goes("swapAccount", mem)

SwapAccount ==
  /\ pc = "swapAccount"
  /\ Exchange(mem.previous.account, mem.donor.account)
  /\ Goes("writeCommitted", [mem EXCEPT !.phase = "committed"])

WriteCommitted ==
  /\ pc = "writeCommitted"
  /\ SetJournal(mem)
  /\ Goes("finish", mem)

(* finish: the journal goes when the node is published, or when only the   *)
(* last journal write had thrown.                                          *)
Finish ==
  /\ pc \in Finishing
  /\ SetJournal(None)
  /\ Goes(IF pc = "finish" THEN "running" ELSE "idle", mem)

(* The import, opening the restored core, its address check or its startup *)
(* fails.                                                                  *)
RestoreFails ==
  /\ pc \in {"import", "opening"}
  /\ pc' = "rollbackStore"
  /\ UNCHANGED <<roots, journal, mem, sidecar, bounds>>

---------------------------------------------------------------------------
(* Rolling back, and the replay of a journal at the next start.            *)

RollbackStore ==
  /\ pc = "rollbackStore"
  /\ SetStore(mem.previous.store)
  /\ Goes("rollbackKey", mem)

(* Mutant: the key file is given another part of the previous roots.       *)
RollbackKeyWithStore ==
  /\ pc = "rollbackKey"
  /\ SetKey(mem.previous.store)
  /\ Goes(IF mem.phase = "credentials-prepared" THEN "rollbackAccount" ELSE "rollbackRemove", mem)

RollbackKey ==
  /\ pc = "rollbackKey"
  /\ SetKey(mem.previous.key)
  /\ Goes(IF mem.phase = "credentials-prepared" THEN "rollbackAccount" ELSE "rollbackRemove", mem)

RollbackAccount ==
  /\ pc = "rollbackAccount"
  /\ Exchange(mem.donor.account, mem.previous.account)
  /\ Goes("rollbackRemove", mem)

Booted == IF roots.account = None THEN "idle" ELSE "running"

(* recoverInterruptedSidecarRestore before anything else is opened.        *)
Start ==
  /\ pc = "down"
  /\ mem' = journal
  /\ pc' = IF journal = None THEN Booted ELSE "recoverStore"
  /\ UNCHANGED <<roots, journal, sidecar, bounds>>

(* preserveNewerStore: the store of a committed restore stays when the     *)
(* node has written it since.                                              *)
KeptOver(s, t) == s # None /\ (t # None => s.generation >= t.generation)

Ambiguous(s, t) == s # None /\ t # None /\ s.generation = t.generation /\ s # t

(* Mutant: the replay of a committed restore installs its store again.     *)
RecoverStoreAlways ==
  /\ pc = "recoverStore"
  /\ SetStore(IF mem.phase = "committed" THEN mem.donor.store ELSE mem.previous.store)
  /\ Goes("recoverKey", mem)

RecoverStore ==
  /\ pc = "recoverStore"
  /\ IF mem.phase # "committed" THEN SetStore(mem.previous.store)
     ELSE IF KeptOver(roots.store, mem.donor.store)
       THEN ~Ambiguous(roots.store, mem.donor.store) /\ NothingToDo
       ELSE SetStore(mem.donor.store)
  /\ Goes("recoverKey", mem)

RecoverKey ==
  /\ pc = "recoverKey"
  /\ SetKey(IF mem.phase = "committed" THEN mem.donor.key ELSE mem.previous.key)
  /\ Goes("recoverAccount", mem)

RecoverAccount ==
  /\ pc = "recoverAccount"
  /\ CASE mem.phase = "committed" -> Exchange(mem.previous.account, mem.donor.account)
       [] mem.phase = "credentials-prepared" -> Exchange(mem.donor.account, mem.previous.account)
       [] OTHER -> NothingToDo
  /\ Goes("recoverRemove", mem)

RemoveJournal ==
  /\ pc \in {"rollbackRemove", "recoverRemove"}
  /\ SetJournal(None)
  /\ Goes(IF pc = "rollbackRemove" THEN "idle" ELSE Booted, mem)

---------------------------------------------------------------------------
(* The node.                                                               *)

(* Mutant: a mutation is written under the generation it was read with.    *)
EditedInPlace(s) == IF s = None
  THEN [generation |-> 1, base |-> None, edits |-> 1]
  ELSE [generation |-> s.generation, base |-> s.base, edits |-> s.edits + 1]

Edited(s) == IF s = None
  THEN [generation |-> 1, base |-> None, edits |-> 1]
  ELSE [generation |-> s.generation + 1, base |-> s.base, edits |-> s.edits + 1]

(* The restored core runs, and delivers messages, from its start up to the *)
(* end of a rollback's await of its close; while the journal is being      *)
(* written nothing else runs.                                              *)
Ingesting ==
  \/ pc \in {"running", "opening"} \cup Finishing
  \/ pc = "rollbackStore" /\ journal.phase \in {"installed", "credentials-prepared"}

(* A store mutation: of the published node, or of the ingestion that the   *)
(* start of the restored core sets off before anything is committed.       *)
Edit ==
  /\ Ingesting
  /\ edits < MaxEdits /\ edits' = edits + 1
  /\ roots' = [roots EXCEPT !.store = Edited(@)]
  /\ UNCHANGED <<journal, mem, sidecar, pc, restores, failures>>

(* openAttestor creates the signing key when it is first needed.           *)
CreateKey ==
  /\ pc = "running" /\ roots.key = None
  /\ \E k \in Keys : SetKey(k)
  /\ UNCHANGED <<mem, sidecar, pc, bounds>>

Init ==
  /\ roots \in [store : {None} \cup [generation : {1}, base : Bases, edits : {0}],
                key : Keys \cup {None}, account : {None}]
  /\ journal = None /\ mem = None /\ sidecar = None /\ pc = "down"
  /\ restores = 0 /\ edits = 0 /\ failures = 0

Restoring ==
  \/ \E b \in Backups : BeginRestore(b)
  \/ WritePrepared \/ ImportCore \/ InstallStore \/ InstallKey \/ WriteInstalled
  \/ PersistCredentials \/ WriteCredentials \/ SwapAccount \/ WriteCommitted
  \/ Finish \/ RestoreFails

RollingBackOrRecovering ==
  \/ RollbackStore \/ RollbackKey \/ RollbackAccount
  \/ Start \/ RecoverStore \/ RecoverKey \/ RecoverAccount \/ RemoveJournal

Next == Restoring \/ RollingBackOrRecovering \/ Throw \/ Crash \/ Edit \/ CreateKey
Spec == Init /\ [][Next]_vars
---------------------------------------------------------------------------
(* What the three files amount to: the journal decides, not the files that *)
(* a restore has reached so far.                                           *)

Content(s) == IF s = None THEN None ELSE [base |-> s.base, edits |-> s.edits]
Contents(r) == [store |-> Content(r.store), key |-> r.key, account |-> r.account]

EffectiveOf(r, j) ==
  IF j = None THEN Contents(r)
  ELSE IF j.phase # "committed" THEN Contents(j.previous)
  ELSE Contents([j.donor EXCEPT !.store = IF KeptOver(r.store, @) THEN r.store ELSE @])

Effective == EffectiveOf(roots, journal)

Pending ==
  \/ pc \in Installing
  \/ pc = "finishUnpublished" /\ journal.phase # "committed"

Atomic == INSTANCE AtomicRestore WITH roots <- Effective, pending <- Pending

(* Whatever crashes, throws and replays happen, the store, the signing key *)
(* and the credentials change together or not at all, and an edit of the   *)
(* published node is never undone.                                         *)
RestoresAtomically == Atomic!Spec

(* A replay or a rollback never meets a state it refuses: credentials that *)
(* are neither the previous nor the restored ones, or a second store of    *)
(* the restored generation.  Refusing would repeat at every start.         *)
NeverRefuses ==
  /\ pc \in {"swapAccount", "rollbackAccount", "recoverAccount"}
     /\ mem.phase \in {"credentials-prepared", "committed"} =>
       Exchangeable(mem.previous.account, mem.donor.account)
  /\ pc = "recoverStore" /\ mem.phase = "committed" =>
       ~Ambiguous(roots.store, mem.donor.store)

---------------------------------------------------------------------------
(* Why: how the journal file, the journal in memory and the files agree at *)
(* each step.                                                              *)

Uncommitted == journal # None /\ journal.phase # "committed"
Committed == journal # None /\ journal.phase = "committed"

(* Only the swap, which the journal announces first, touches the account.  *)
AccountInv ==
  /\ Uncommitted /\ journal.phase # "credentials-prepared" =>
       roots.account = journal.previous.account
  /\ Uncommitted /\ journal.phase = "credentials-prepared" =>
       roots.account \in {journal.previous.account, journal.donor.account}

(* Once committed, the store is the journal's or a newer one.              *)
CommittedInv ==
  Committed =>
    /\ pc \in Finishing \cup Recovering \cup Settled
    /\ roots.account = journal.donor.account /\ roots.account # None
    /\ \/ roots.store = journal.donor.store
       \/ /\ roots.store # None
          /\ journal.donor.store # None =>
               roots.store.generation > journal.donor.store.generation

RunningInv == pc = "running" => roots.account # None /\ ~Uncommitted
UnjournaledInv == journal = None => pc \in Settled \cup {"writePrepared"}

(* The journal in memory is the file's, or one phase ahead of it.          *)
MemoryInv ==
  /\ pc \in Installing \cup Finishing \cup RollingBack \cup Recovering => mem # None
  /\ pc \in Installing \cup Finishing => sidecar # None
  /\ pc = "writePrepared" => journal = None /\ mem.phase = "prepared" /\ mem.previous = roots
  /\ pc \in {"import", "installStore", "installKey"} => journal = mem /\ mem.phase = "prepared"
  /\ pc = "writeInstalled" =>
       mem.phase = "installed" /\ Uncommitted /\ journal.phase = "prepared"
  /\ pc = "opening" => journal = mem /\ mem.phase = "installed"
  /\ pc = "writeCredentials" =>
       mem.phase = "credentials-prepared" /\ Uncommitted /\ journal.phase = "installed"
  /\ pc = "swapAccount" => journal = mem /\ mem.phase = "credentials-prepared"
  /\ pc = "writeCommitted" =>
       mem.phase = "committed" /\ journal = [mem EXCEPT !.phase = "credentials-prepared"]
  /\ pc = "finish" => journal = mem /\ mem.phase = "committed"
  /\ pc = "finishUnpublished" =>
       mem.phase = "committed" /\ journal \in {mem, [mem EXCEPT !.phase = "credentials-prepared"]}
  /\ pc \in RollingBack =>
       /\ Uncommitted /\ mem.phase # "committed"
       /\ journal.phase = "credentials-prepared" => journal = mem
  /\ pc = "rollbackAccount" => mem.phase = "credentials-prepared"
  /\ pc \in Recovering => journal = mem
  /\ pc \in (Installing \ {"writePrepared"}) \cup RollingBack => journal.previous = mem.previous

(* What a rollback or a replay has put back so far.                        *)
PutBackInv ==
  /\ pc \in {"rollbackKey", "rollbackAccount", "rollbackRemove"}
     \/ (pc \in Recovering \ {"recoverStore"} /\ mem.phase # "committed") =>
       Content(roots.store) = Content(mem.previous.store)
  /\ pc \in {"rollbackAccount", "rollbackRemove"}
     \/ (pc \in {"recoverAccount", "recoverRemove"} /\ mem.phase # "committed") =>
       roots.key = mem.previous.key
  /\ pc = "rollbackRemove" \/ (pc = "recoverRemove" /\ mem.phase # "committed") =>
       roots.account = mem.previous.account
  /\ pc \in {"recoverAccount", "recoverRemove"} /\ mem.phase = "committed" =>
       roots.key = mem.donor.key

(* What an installation is to put in place, and has put in place so far.   *)
StoreGoal ==
  IF sidecar.store = None THEN Content(mem.previous.store) ELSE Atomic!Fresh(sidecar.store)
KeyGoal == IF sidecar.key = None THEN mem.previous.key ELSE sidecar.key

InstalledInv ==
  /\ pc \in {"writePrepared", "import", "installStore", "installKey"} =>
       Content(mem.donor.store) = StoreGoal /\ mem.donor.key = KeyGoal
  /\ pc = "installKey" => Content(roots.store) = StoreGoal
  /\ pc \in {"writeInstalled", "opening", "writeCredentials", "swapAccount", "writeCommitted",
             "finishUnpublished"} =>
       Atomic!Extends(Content(roots.store), StoreGoal) /\ roots.key = KeyGoal
  /\ pc \in {"writeCredentials", "swapAccount", "writeCommitted"} =>
       roots.store = mem.donor.store
  /\ pc \in {"writeCredentials", "swapAccount", "writeCommitted"} \cup Finishing =>
       roots.key = mem.donor.key /\ mem.donor.account = sidecar.account
  /\ pc \in {"writeCommitted"} \cup Finishing => roots.account = mem.donor.account

IInv ==
  /\ TypeOK /\ AccountInv /\ CommittedInv /\ RunningInv /\ UnjournaledInv
  /\ MemoryInv /\ PutBackInv /\ InstalledInv
=============================================================================
