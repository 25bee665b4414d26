----------------------------- MODULE BackupExport -----------------------------
(***************************************************************************)
(* POST /backup/export of server.ts and the mutation barrier of store.ts.  *)
(*                                                                         *)
(* A backup is a tar the core writes of itself and a snapshot of the       *)
(* store.  What changes the node changes the core and the store at         *)
(* different moments, with awaits between: API requests, ingestion,        *)
(* notifications, backfill.  Each holds the barrier meanwhile.  The export *)
(* takes no lock; it looks at the barrier and at the store before and      *)
(* after the core writes, and tries once more when they differ.            *)
(*                                                                         *)
(* Two changes happen outside the barrier: the core receives a message by  *)
(* itself, and a GET route ingests a message it shows.  A change may also  *)
(* fail between its two halves, and then keeps the first.                  *)
(*                                                                         *)
(* exportingBackup keeps exports apart and is reset by the export's own    *)
(* cleanup.  Three failures leave it set for good: no scratch directory to *)
(* begin with, a scratch directory that cannot be removed, and a body that *)
(* is cancelled before it is read.  stuck names the exports they end.      *)
(***************************************************************************)
EXTENDS Naturals, FiniteSets

CONSTANTS
  Change,       \* what is done to the node: posts, follows, messages
  Export,       \* the export requests
  NoTar         \* a tar that the core has not copied yet

VARIABLES
  core,         \* changes that are in the core
  stored,       \* changes that are in the store's file
  generation,   \* of the store's file
  under,        \* changes that hold the barrier
  over,         \* changes that have released it
  mutationRevision, \* externalMutationRevision
  exporting,    \* exportingBackup
  at,           \* where each export is
  attempt,      \* of each export
  before,       \* barrierBefore and the snapshot before, of each export
  tar,          \* what the core copied, for each export
  backups,      \* the backups accepted, as <<tar, store>>
  stuck,        \* ghost: the exports that ended without resetting the flag
  moments       \* ghost: the contents of core and store when nothing was under way

exportVars == <<exporting, at, attempt, before, tar, backups, stuck>>
nodeVars == <<core, stored, generation, under, over, mutationRevision>>
backupVars == <<core, stored, generation, under, over, mutationRevision,
                exporting, at, attempt, before, tar, backups, stuck, moments>>

Snapshot == [revision |-> mutationRevision, generation |-> generation, contents |-> stored]

BackupInit ==
  /\ core = {} /\ stored = {} /\ generation = 0
  /\ under = {} /\ over = {} /\ mutationRevision = 0
  /\ exporting = FALSE
  /\ at = [e \in Export |-> "idle"]
  /\ attempt = [e \in Export |-> 0]
  /\ before = [e \in Export |-> Snapshot]
  /\ tar = [e \in Export |-> NoTar]
  /\ backups = {} /\ stuck = {}
  /\ moments = {<<{}, {}>>}

-----------------------------------------------------------------------------
(* Changes.                                                                *)

beginExternalMutation(c) ==
  /\ c \notin under \union over
  /\ under' = under \union {c}
  /\ mutationRevision' = mutationRevision + 1
  /\ UNCHANGED <<core, stored, generation, over>>
  /\ UNCHANGED exportVars

release(c) ==
  /\ c \in under
  /\ under' = under \ {c} /\ over' = over \union {c}
  /\ mutationRevision' = mutationRevision + 1
  /\ UNCHANGED <<core, stored, generation>>
  /\ UNCHANGED exportVars

\* An RPC changes the core, in the barrier; or a message comes in, before it.
ChangeCore(c) ==
  /\ c \notin core \union over
  /\ core' = core \union {c}
  /\ UNCHANGED <<stored, generation, under, over, mutationRevision>>
  /\ UNCHANGED exportVars

Save(c) ==
  /\ stored' = stored \union {c}
  /\ generation' = generation + 1
  /\ UNCHANGED <<core, under, over, mutationRevision>>
  /\ UNCHANGED exportVars

\* In the barrier, or by a GET route that shows a message the core has.
ChangeStore(c) == c \in under \ stored /\ Save(c)
Show(c) == c \in core \ (stored \union under) /\ Save(c)

-----------------------------------------------------------------------------
(* Exports.                                                                *)

activeMutations == Cardinality(under)
Go(e, phase) == at' = [at EXCEPT ![e] = phase]

LeaveFlag(e) == Go(e, "over") /\ exporting' = TRUE /\ stuck' = stuck \union {e}

\* cleanup: it counts as done, then the scratch directory is removed, then the
\* flag reset.  A removal that throws is not tried again.
Stop(e) ==
  \/ Go(e, "over") /\ exporting' = FALSE /\ UNCHANGED stuck
  \/ LeaveFlag(e)
\* The mutant leaves the flag.
StopSilently(e) == Go(e, "over") /\ UNCHANGED <<exporting, stuck>>
Refuse(e) == Stop(e)

\* A second export is answered 429, one during a change 409.  The flag is set
\* first; when then mkdtempSync throws, the try that resets it was not entered.
RequestExport(e) ==
  /\ at[e] = "idle" /\ ~exporting
  /\ \/ LeaveFlag(e)
     \/ activeMutations > 0 /\ Refuse(e)
     \/ activeMutations = 0 /\ Go(e, "self") /\ exporting' = TRUE /\ UNCHANGED stuck
  /\ UNCHANGED <<attempt, before, tar, backups>>
  /\ UNCHANGED nodeVars

BeginAttempt(e) ==
  /\ before' = [before EXCEPT ![e] = Snapshot]
  /\ tar' = [tar EXCEPT ![e] = NoTar]
  /\ attempt' = [attempt EXCEPT ![e] = @ + 1]

\* transport.self() answered, or an attempt was dropped; the next begins at once.
Attempt(e) ==
  /\ at[e] \in {"self", "again"}
  /\ IF activeMutations > 0 \/ attempt[e] = 2
     THEN Refuse(e) /\ UNCHANGED <<attempt, before, tar>>
     ELSE Go(e, "tarring") /\ BeginAttempt(e) /\ UNCHANGED <<exporting, stuck>>
  /\ UNCHANGED backups
  /\ UNCHANGED nodeVars

\* The core copies its database at some moment of exportBackup.
CopyCore(e) ==
  /\ at[e] = "tarring" /\ tar[e] = NoTar
  /\ tar' = [tar EXCEPT ![e] = core]
  /\ UNCHANGED <<exporting, at, attempt, before, backups, stuck>>
  /\ UNCHANGED nodeVars

\* The mutant looks at the store only.
SameStore(e) ==
  generation = before[e].generation /\ stored = before[e].contents
Unchanged(e) == activeMutations = 0 /\ Snapshot = before[e]

\* exportBackup resolved: the tar and the store as it is now, or another attempt.
TarWritten(e) ==
  /\ at[e] = "tarring" /\ tar[e] # NoTar
  /\ IF Unchanged(e)
     THEN Go(e, "marking") /\ backups' = backups \union {<<tar[e], stored>>}
     ELSE Go(e, "again") /\ UNCHANGED backups
  /\ UNCHANGED <<exporting, attempt, before, tar, stuck>>
  /\ UNCHANGED nodeVars

\* Hashed, and markBackupExported resolved: the stream is handed off.
HandOff(e) ==
  /\ at[e] = "marking"
  /\ Go(e, "streaming")
  /\ UNCHANGED <<exporting, attempt, before, tar, backups, stuck>>
  /\ UNCHANGED nodeVars

\* An RPC or the disk fails, a limit is exceeded.
Fail(e) ==
  /\ at[e] \in {"self", "tarring", "again", "marking"}
  /\ Refuse(e)
  /\ UNCHANGED <<attempt, before, tar, backups>>
  /\ UNCHANGED nodeVars

\* The body is read or cancelled, and its generator runs cleanup; cancelled
\* before the first read, the generator has not begun and does not run it.
StreamEnds(e) ==
  /\ at[e] = "streaming"
  /\ Stop(e) \/ LeaveFlag(e)
  /\ UNCHANGED <<attempt, before, tar, backups>>
  /\ UNCHANGED nodeVars

ExportStep(e) ==
  Attempt(e) \/ CopyCore(e) \/ TarWritten(e) \/ HandOff(e) \/ Fail(e) \/ StreamEnds(e)

Step ==
  \/ \E c \in Change :
       beginExternalMutation(c) \/ ChangeCore(c) \/ ChangeStore(c) \/ Show(c) \/ release(c)
  \/ \E e \in Export : RequestExport(e) \/ ExportStep(e)

BackupNext ==
  /\ Step
  /\ moments' = IF under' = {} THEN moments \union {<<core', stored'>>} ELSE moments

\* An RPC resolves or rejects with its helper; a client reads on or goes.
BackupSpec == BackupInit /\ [][BackupNext]_backupVars /\ \A e \in Export : WF_exportVars(ExportStep(e))

-----------------------------------------------------------------------------
BackupTypeOK ==
  /\ core \union stored \union under \union over \subseteq Change
  /\ generation \in Nat /\ mutationRevision = Cardinality(under) + 2 * Cardinality(over)
  /\ exporting \in BOOLEAN
  /\ at \in [Export -> {"idle", "self", "tarring", "again", "marking", "streaming", "over"}]
  /\ attempt \in [Export -> 0..2]
  /\ before \in [Export -> [revision : Nat, generation : Nat, contents : SUBSET Change]]
  /\ tar \in [Export -> (SUBSET Change) \union {NoTar}]
  /\ backups \subseteq (SUBSET Change) \X (SUBSET Change)
  /\ stuck \subseteq {e \in Export : at[e] = "over"}
  /\ exporting <=> stuck # {} \/ \E e \in Export : at[e] \notin {"idle", "over"}

(* The core and the store of a backup are of one moment at which nothing   *)
(* was under way, though both change while the core writes and none of     *)
(* them is locked.                                                         *)
BackupIsOneMoment == backups \subseteq moments

(* An export ends and the next is not refused because of it, whatever is   *)
(* changed meanwhile, except when its scratch directory could not be made  *)
(* or removed or nobody began to read its body: then exportingBackup stays *)
(* set and every later export of the process is answered 429.              *)
ExportEnds == exporting ~> (~exporting \/ stuck # {})
=============================================================================
