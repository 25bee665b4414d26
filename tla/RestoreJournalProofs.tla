----------------------- MODULE RestoreJournalProofs -----------------------
EXTENDS RestoreJournal, TLAPS

USE BackupsAssumption, BoundsAssumption, NoneAssumption
USE DEF Installing, Finishing, RollingBack, Recovering, Settled, bounds

(* Installing a store changes its generation, not its contents.           *)
LEMMA ReplacedStore ==
  ASSUME TypeOK, NEW s \in Snapshot \cup {None}
  PROVE  Replaced(s) \in Snapshot \cup {None} /\ Content(Replaced(s)) = Content(s)
<1>1. CASE s = None BY <1>1 DEF Replaced, Content
<1>2. CASE s # None
  <2>1. Generation(roots.store) + 1 \in Nat BY DEF TypeOK, Generation, Roots, Snapshot
  <2>2. Replaced(s) = [s EXCEPT !.generation = Generation(roots.store) + 1] BY <1>2 DEF Replaced
  <2>3. Replaced(s) \in Snapshot /\ Replaced(s).base = s.base /\ Replaced(s).edits = s.edits
    BY <1>2, <2>1, <2>2 DEF Snapshot
  <2>4. None \notin Snapshot \/ s # None BY <1>2
  <2> QED BY <1>2, <2>3 DEF Content, Snapshot
<1> QED BY <1>1, <1>2

(* The journal in memory is a journal.                                     *)
LEMMA JournalParts ==
  ASSUME TypeOK, mem # None
  PROVE  /\ mem.previous.store \in Snapshot \cup {None} /\ mem.donor.store \in Snapshot \cup {None}
         /\ mem.phase \in Phases /\ mem.previous \in Roots /\ mem.donor \in Roots
BY DEF TypeOK, Journal, Roots

(* The journal in memory, moved to a phase with new donor roots, is again a *)
(* journal, with the same previous roots.                                  *)
LEMMA RememberedJournal ==
  ASSUME mem \in Journal, NEW p \in Phases, NEW r \in Roots
  PROVE  LET m == [mem EXCEPT !.phase = p, !.donor = r]
         IN  m \in Journal /\ m # None /\ m.phase = p /\ m.previous = mem.previous
<1> DEFINE m == [mem EXCEPT !.phase = p, !.donor = r]
<1>1. m \in Journal /\ m.phase = p /\ m.previous = mem.previous BY DEF Journal
<1> QED BY <1>1

(* The contents of a store are not "no store".                             *)
LEMMA ContentIsThere ==
  ASSUME NEW s \in Snapshot
  PROVE  /\ [base |-> s.base, edits |-> s.edits] # None
         /\ Content(s) = [base |-> s.base, edits |-> s.edits]
         /\ s # None
<1>1. [base |-> s.base, edits |-> s.edits] \in [base : Bases \cup {None}, edits : Nat]
  BY DEF Snapshot
<1> QED BY <1>1 DEF Content

(* An edit adds one to the edits of a store, or starts a store, under a    *)
(* newer generation.                                                       *)
LEMMA EditedContent ==
  ASSUME NEW s \in Snapshot \cup {None}
  PROVE  /\ Edited(s) \in Snapshot
         /\ Edited(s) # None
         /\ s # None => Edited(s).generation > s.generation
         /\ Content(Edited(s)) # None
         /\ Content(Edited(s)) =
              [base |-> Atomic!BaseOf(Content(s)), edits |-> Atomic!EditsOf(Content(s)) + 1]
<1>1. CASE s = None
  <2>1. Edited(s) = [generation |-> 1, base |-> None, edits |-> 1] BY <1>1 DEF Edited
  <2>2. Edited(s) \in Snapshot /\ Edited(s).base = None /\ Edited(s).edits = 1
    BY <2>1 DEF Snapshot
  <2>3. Content(Edited(s)) = [base |-> None, edits |-> 1] /\ Content(Edited(s)) # None
    BY <2>2, ContentIsThere
  <2>4. Atomic!BaseOf(Content(s)) = None /\ Atomic!EditsOf(Content(s)) = 0
    BY <1>1 DEF Content, Atomic!BaseOf, Atomic!EditsOf
  <2> QED BY <1>1, <2>2, <2>3, <2>4, ContentIsThere
<1>2. CASE s # None
  <2>1. s \in Snapshot /\ s.generation \in Nat /\ s.base \in Bases \cup {None} /\ s.edits \in Nat
    BY <1>2 DEF Snapshot
  <2>2. Edited(s) = [generation |-> s.generation + 1, base |-> s.base, edits |-> s.edits + 1]
    BY <1>2 DEF Edited
  <2>3. /\ Edited(s) \in Snapshot /\ Edited(s).generation = s.generation + 1
        /\ Edited(s).base = s.base /\ Edited(s).edits = s.edits + 1
    BY <2>1, <2>2 DEF Snapshot
  <2>4. Content(s) = [base |-> s.base, edits |-> s.edits] /\ Content(s) # None
    BY <2>1, ContentIsThere
  <2>5. Atomic!BaseOf(Content(s)) = s.base /\ Atomic!EditsOf(Content(s)) = s.edits
    BY <2>4 DEF Atomic!BaseOf, Atomic!EditsOf
  <2>6. /\ Content(Edited(s)) = [base |-> Edited(s).base, edits |-> Edited(s).edits]
        /\ Content(Edited(s)) # None /\ Edited(s) # None
    BY <2>3, ContentIsThere
  <2> QED BY <2>1, <2>3, <2>5, <2>6
<1> QED BY <1>1, <1>2

(* Contents are none, or have a number of edits.                           *)
LEMMA ContentType ==
  ASSUME NEW s \in Snapshot \cup {None}
  PROVE  /\ Content(s) \in Atomic!Contents
         /\ Atomic!BaseOf(Content(s)) \in Bases \cup {None}
         /\ Atomic!EditsOf(Content(s)) \in Nat
<1>1. CASE s = None BY <1>1 DEF Content, Atomic!Contents, Atomic!BaseOf, Atomic!EditsOf
<1>2. CASE s # None
  <2>1. s \in Snapshot /\ s.base \in Bases \cup {None} /\ s.edits \in Nat BY <1>2 DEF Snapshot
  <2>2. Content(s) = [base |-> s.base, edits |-> s.edits] /\ Content(s) # None
    BY <2>1, ContentIsThere
  <2> QED BY <2>1, <2>2 DEF Atomic!Contents, Atomic!BaseOf, Atomic!EditsOf
<1> QED BY <1>1, <1>2

(* What extends t still does after one more edit.                          *)
LEMMA ExtendsOnce ==
  ASSUME NEW s, NEW t, NEW c,
         Atomic!Extends(s, t), Atomic!EditsOf(t) \in Nat, Atomic!EditsOf(s) \in Nat,
         c # None, c = [base |-> Atomic!BaseOf(s), edits |-> Atomic!EditsOf(s) + 1]
  PROVE  Atomic!Extends(c, t)
<1>1. c.base = Atomic!BaseOf(s) /\ c.edits = Atomic!EditsOf(s) + 1 OBVIOUS
<1>2. CASE s = t BY <1>1, <1>2 DEF Atomic!Extends
<1>3. CASE s # t
  <2>1. s # None /\ s.base = Atomic!BaseOf(t) /\ s.edits > Atomic!EditsOf(t)
    BY <1>3 DEF Atomic!Extends
  <2>2. Atomic!BaseOf(s) = s.base /\ Atomic!EditsOf(s) = s.edits
    BY <2>1 DEF Atomic!BaseOf, Atomic!EditsOf
  <2> QED BY <1>1, <2>1, <2>2 DEF Atomic!Extends
<1> QED BY <1>2, <1>3

(* The store an installation aims at is none, or has a number of edits.    *)
LEMMA GoalType ==
  ASSUME TypeOK, mem # None, sidecar # None
  PROVE  StoreGoal \in Atomic!Contents /\ Atomic!EditsOf(StoreGoal) \in Nat
<1>1. CASE sidecar.store = None
  BY <1>1, JournalParts, ContentType DEF StoreGoal
<1>2. CASE sidecar.store # None
  <2>1. sidecar.store \in Bases BY <1>2 DEF TypeOK
  <2>2. StoreGoal = [base |-> sidecar.store, edits |-> 0] BY <1>2 DEF StoreGoal, Atomic!Fresh
  <2>3. StoreGoal \in [base : Bases \cup {None}, edits : Nat] /\ StoreGoal.edits = 0
    BY <2>1, <2>2
  <2> QED BY <2>3 DEF Atomic!Contents, Atomic!EditsOf
<1> QED BY <1>1, <1>2

(* The replay of a committed restore leaves the store that is there.       *)
LEMMA RecoverStoreKeeps ==
  ASSUME IInv, RecoverStore, mem.phase = "committed"
  PROVE  roots' = roots
<1> USE DEF RecoverStore, NothingToDo, SetStore, Goes, Failing
<1>1. TypeOK /\ pc = "recoverStore" BY DEF IInv
<1>2. mem # None /\ journal = mem BY <1>1 DEF IInv, MemoryInv
<1>3. \/ roots.store = mem.donor.store
      \/ /\ roots.store # None
         /\ mem.donor.store # None => roots.store.generation > mem.donor.store.generation
  BY <1>2 DEF IInv, CommittedInv, Committed
<1>4. CASE KeptOver(roots.store, mem.donor.store) BY <1>1, <1>4
<1>5. CASE ~KeptOver(roots.store, mem.donor.store)
  <2>1. roots.store \in Snapshot \cup {None} /\ mem.donor.store \in Snapshot \cup {None}
    BY <1>1, <1>2, JournalParts DEF TypeOK, Roots
  <2>2. roots.store # None => roots.store.generation \in Nat BY <2>1 DEF Snapshot
  <2>3. mem.donor.store # None => mem.donor.store.generation \in Nat BY <2>1 DEF Snapshot
  <2>4. roots.store = None /\ mem.donor.store = None
    BY <1>3, <1>5, <2>2, <2>3 DEF KeptOver
  <2> QED BY <1>1, <1>5, <2>4 DEF Replaced, TypeOK, Roots
<1> QED BY <1>4, <1>5

(* A restore begins with what it finds as what it would put back.          *)
LEMMA BeginRestoreInv ==
  ASSUME IInv, NEW b \in Backups, BeginRestore(b)
  PROVE  IInv'
<1> USE DEF BeginRestore
<1>1. TypeOK /\ pc = "idle" BY DEF IInv, MemoryInv
<1>2. TypeOK' BY <1>1 DEF TypeOK, Roots, Snapshot, Journal, Phases
<1>3. AccountInv' BY DEF Uncommitted, AccountInv
<1>4. CommittedInv' BY DEF Committed, CommittedInv
<1>5. RunningInv' BY DEF RunningInv
<1>6. UnjournaledInv' BY DEF UnjournaledInv
<1>7. MemoryInv' BY <1>1 DEF MemoryInv, TypeOK, Roots, Snapshot, Journal, Phases
<1>8. PutBackInv' BY DEF PutBackInv
<1>9. InstalledInv' BY DEF InstalledInv, StoreGoal, KeyGoal, Content, Atomic!Fresh, Snapshot
<1> QED BY <1>2, <1>3, <1>4, <1>5, <1>6, <1>7, <1>8, <1>9 DEF IInv

(* The journal holds the roots as they are.                                *)
LEMMA WritePreparedInv ==
  ASSUME IInv, WritePrepared
  PROVE  IInv'
<1> USE DEF WritePrepared, SetJournal, Goes, Failing
<1>1. TypeOK /\ pc = "writePrepared" /\ Caught = "idle" BY DEF Caught, IInv, MemoryInv
<1>2. TypeOK' BY <1>1 DEF TypeOK
<1>3. AccountInv' BY DEF IInv, MemoryInv, AccountInv
<1>4. CommittedInv' BY DEF IInv, MemoryInv, Committed, CommittedInv
<1>5. RunningInv' BY <1>1 DEF RunningInv
<1>6. UnjournaledInv' BY DEF IInv, MemoryInv, UnjournaledInv
<1>7. MemoryInv' BY <1>1 DEF IInv, MemoryInv
<1>8. PutBackInv' BY <1>1 DEF PutBackInv
<1>9. InstalledInv' BY <1>1 DEF IInv, InstalledInv, StoreGoal, KeyGoal
<1> QED BY <1>2, <1>3, <1>4, <1>5, <1>6, <1>7, <1>8, <1>9 DEF IInv

(* The import touches none of the three files.                             *)
LEMMA ImportCoreInv ==
  ASSUME IInv, ImportCore
  PROVE  IInv'
<1> USE DEF ImportCore
<1>1. TypeOK /\ pc = "import" BY DEF IInv, MemoryInv
<1>2. TypeOK' BY <1>1 DEF TypeOK
<1>3. AccountInv' BY DEF IInv, Uncommitted, AccountInv
<1>4. CommittedInv' BY DEF IInv, Committed, CommittedInv
<1>5. RunningInv' BY DEF RunningInv
<1>6. UnjournaledInv' BY DEF IInv, UnjournaledInv
<1>7. MemoryInv' BY DEF IInv, MemoryInv
<1>8. PutBackInv' BY DEF PutBackInv
<1>9. InstalledInv' BY DEF IInv, InstalledInv, StoreGoal, KeyGoal
<1> QED BY <1>2, <1>3, <1>4, <1>5, <1>6, <1>7, <1>8, <1>9 DEF IInv

(* The installed store has the contents of the donor's.                    *)
LEMMA InstallStoreInv ==
  ASSUME IInv, InstallStore
  PROVE  IInv'
<1> USE DEF InstallStore, SetStore, Goes, Failing
<1>1. TypeOK /\ pc = "installStore" /\ Caught = "rollbackStore" BY DEF Caught, IInv, MemoryInv
<1>2. mem # None BY <1>1 DEF IInv, MemoryInv
<1>3. /\ Replaced(mem.donor.store) \in Snapshot \cup {None}
      /\ Content(Replaced(mem.donor.store)) = Content(mem.donor.store)
  BY <1>1, <1>2, ReplacedStore, JournalParts
<1>4. roots'.store = Replaced(mem.donor.store) /\ roots'.key = roots.key /\ roots'.account = roots.account
  BY <1>1 DEF TypeOK, Roots
<1>5. TypeOK' BY <1>1, <1>3 DEF TypeOK, Roots
<1>6. AccountInv' BY DEF IInv, Uncommitted, AccountInv
<1>7. CommittedInv' BY DEF IInv, Committed, CommittedInv
<1>8. RunningInv' BY <1>1 DEF RunningInv
<1>9. UnjournaledInv' BY DEF IInv, UnjournaledInv
<1>10. MemoryInv' BY <1>1 DEF IInv, MemoryInv, Uncommitted
<1>11. PutBackInv' BY <1>1 DEF PutBackInv
<1>12. InstalledInv' BY <1>1, <1>3 DEF IInv, InstalledInv, StoreGoal, KeyGoal
<1> QED BY <1>5, <1>6, <1>7, <1>8, <1>9, <1>10, <1>11, <1>12 DEF IInv

(* The journal in memory takes what was installed.                         *)
LEMMA InstallKeyInv ==
  ASSUME IInv, InstallKey
  PROVE  IInv'
<1> USE DEF InstallKey, SetKey, Goes, Failing
<1>1. TypeOK /\ pc = "installKey" /\ Caught = "rollbackStore" BY DEF Caught, IInv, MemoryInv
<1> DEFINE m == [mem EXCEPT !.phase = "installed", !.donor = [roots' EXCEPT !.account = None]]
<1>2. mem \in Journal /\ mem # None /\ journal = mem /\ mem.phase = "prepared"
  BY <1>1 DEF IInv, MemoryInv, TypeOK
<1>3. roots' \in Roots /\ [roots' EXCEPT !.account = None] \in Roots
  BY <1>1, <1>2, JournalParts DEF TypeOK, Roots
<1>4. m \in Journal /\ m # None /\ m.phase = "installed" /\ m.previous = mem.previous
  BY <1>2, <1>3, RememberedJournal DEF Phases
<1>5. TypeOK' BY <1>1, <1>3, <1>4 DEF TypeOK
<1>6. AccountInv' BY DEF IInv, Uncommitted, AccountInv
<1>7. CommittedInv' BY DEF IInv, Committed, CommittedInv
<1>8. RunningInv' BY <1>1 DEF RunningInv
<1>9. UnjournaledInv' BY DEF IInv, UnjournaledInv
<1>10. MemoryInv' BY <1>1, <1>4 DEF IInv, MemoryInv, Uncommitted
<1>11. PutBackInv' BY <1>1 DEF PutBackInv
<1>12. InstalledInv'
  BY <1>1 DEF IInv, MemoryInv, Uncommitted, InstalledInv, StoreGoal, KeyGoal, TypeOK, Roots,
    Snapshot, Journal, Phases, Atomic!Extends
<1> QED BY <1>5, <1>6, <1>7, <1>8, <1>9, <1>10, <1>11, <1>12 DEF IInv

(* The journal reaches its second phase.                                   *)
LEMMA WriteInstalledInv ==
  ASSUME IInv, WriteInstalled
  PROVE  IInv'
<1> USE DEF WriteInstalled, SetJournal, Goes, Failing
<1>1. TypeOK /\ pc = "writeInstalled" /\ Caught = "rollbackStore" BY DEF Caught, IInv, MemoryInv
<1>2. TypeOK' BY <1>1 DEF TypeOK
<1>3. AccountInv' BY DEF IInv, MemoryInv, AccountInv
<1>4. CommittedInv' BY DEF IInv, MemoryInv, Committed, CommittedInv
<1>5. RunningInv' BY <1>1 DEF RunningInv
<1>6. UnjournaledInv' BY DEF IInv, MemoryInv, UnjournaledInv
<1>7. MemoryInv' BY <1>1 DEF IInv, MemoryInv, Uncommitted
<1>8. PutBackInv' BY <1>1 DEF PutBackInv
<1>9. InstalledInv' BY <1>1 DEF IInv, InstalledInv, StoreGoal, KeyGoal
<1> QED BY <1>2, <1>3, <1>4, <1>5, <1>6, <1>7, <1>8, <1>9 DEF IInv

(* The journal in memory takes the roots as they are and the account.      *)
LEMMA PersistCredentialsInv ==
  ASSUME IInv, PersistCredentials
  PROVE  IInv'
<1> USE DEF PersistCredentials
<1>1. TypeOK /\ pc = "opening" BY DEF IInv, MemoryInv
<1>2. /\ mem \in Journal /\ journal = mem /\ mem.phase = "installed"
      /\ sidecar \in Backups /\ sidecar # None
  BY <1>1 DEF IInv, MemoryInv, TypeOK
<1>3. [roots EXCEPT !.account = sidecar.account] \in Roots
  <2>1. sidecar.account \in Accounts BY <1>2
  <2> QED BY <1>1, <2>1 DEF TypeOK, Roots
<1>4. /\ mem' \in Journal /\ mem' # None
      /\ mem'.phase = "credentials-prepared" /\ mem'.previous = mem.previous
  BY <1>2, <1>3, RememberedJournal DEF Phases
<1>5. TypeOK' BY <1>1, <1>4 DEF TypeOK
<1>6. AccountInv' BY DEF IInv, Uncommitted, AccountInv
<1>7. CommittedInv' BY DEF IInv, Committed, CommittedInv
<1>8. RunningInv' BY DEF RunningInv
<1>9. UnjournaledInv' BY DEF IInv, UnjournaledInv
<1>10. MemoryInv' BY <1>2, <1>4 DEF MemoryInv, Uncommitted
<1>11. PutBackInv' BY DEF PutBackInv
<1>12. InstalledInv' BY DEF IInv, InstalledInv, StoreGoal, KeyGoal, TypeOK, Roots
<1> QED BY <1>5, <1>6, <1>7, <1>8, <1>9, <1>10, <1>11, <1>12 DEF IInv

(* The journal announces the swap of the account.                          *)
LEMMA WriteCredentialsInv ==
  ASSUME IInv, WriteCredentials
  PROVE  IInv'
<1> USE DEF WriteCredentials, SetJournal, Goes, Failing
<1>1. TypeOK /\ pc = "writeCredentials" /\ Caught = "rollbackStore"
  BY DEF Caught, IInv, MemoryInv
<1>2. TypeOK' BY <1>1 DEF TypeOK
<1>3. AccountInv' BY DEF IInv, MemoryInv, AccountInv
<1>4. CommittedInv' BY DEF IInv, MemoryInv, Committed, CommittedInv
<1>5. RunningInv' BY <1>1 DEF RunningInv
<1>6. UnjournaledInv' BY DEF IInv, MemoryInv, UnjournaledInv
<1>7. MemoryInv' BY <1>1 DEF IInv, MemoryInv, Uncommitted
<1>8. PutBackInv' BY <1>1 DEF PutBackInv
<1>9. InstalledInv' BY <1>1 DEF IInv, InstalledInv, StoreGoal, KeyGoal
<1> QED BY <1>2, <1>3, <1>4, <1>5, <1>6, <1>7, <1>8, <1>9 DEF IInv

(* The account becomes the announced one.                                  *)
LEMMA SwapAccountInv ==
  ASSUME IInv, SwapAccount
  PROVE  IInv'
<1> USE DEF SwapAccount, Exchange, Exchangeable, Goes, Failing
<1>1. TypeOK /\ pc = "swapAccount" /\ Caught = "rollbackStore" BY DEF Caught, IInv, MemoryInv
<1>2. TypeOK' BY <1>1 DEF IInv, MemoryInv, TypeOK, Roots, Journal, Phases
<1>3. AccountInv' BY DEF IInv, MemoryInv, AccountInv
<1>4. CommittedInv' BY DEF IInv, Committed, CommittedInv
<1>5. RunningInv' BY <1>1 DEF RunningInv
<1>6. UnjournaledInv' BY DEF IInv, UnjournaledInv
<1>7. MemoryInv' BY <1>1 DEF IInv, MemoryInv, Uncommitted, TypeOK, Journal, Phases
<1>8. PutBackInv' BY <1>1 DEF PutBackInv
<1>9. InstalledInv'
  BY <1>1 DEF IInv, MemoryInv, InstalledInv, StoreGoal, KeyGoal, TypeOK, Journal
<1> QED BY <1>2, <1>3, <1>4, <1>5, <1>6, <1>7, <1>8, <1>9 DEF IInv

(* The journal commits what is installed.                                  *)
LEMMA WriteCommittedInv ==
  ASSUME IInv, WriteCommitted
  PROVE  IInv'
<1> USE DEF WriteCommitted, SetJournal, Goes, Failing
<1>1. TypeOK /\ pc = "writeCommitted" /\ Caught = "finishUnpublished"
  BY DEF Caught, IInv, MemoryInv
<1>2. TypeOK' BY <1>1 DEF TypeOK
<1>3. AccountInv' BY DEF IInv, MemoryInv, Uncommitted, AccountInv
<1>4. CommittedInv'
  <2>1. sidecar \in Backups /\ sidecar.account # None
    BY <1>1 DEF IInv, MemoryInv, TypeOK
  <2>2. journal' = mem /\ roots' = roots /\ roots.store = mem.donor.store
        /\ roots.account = mem.donor.account /\ mem.donor.account = sidecar.account
    BY <1>1 DEF IInv, InstalledInv
  <2> QED BY <1>1, <2>1, <2>2 DEF CommittedInv, Committed
<1>5. RunningInv' BY <1>1 DEF RunningInv
<1>6. UnjournaledInv' BY DEF IInv, MemoryInv, UnjournaledInv
<1>7. MemoryInv' BY <1>1 DEF IInv, MemoryInv
<1>8. PutBackInv' BY <1>1 DEF PutBackInv
<1>9. InstalledInv' BY <1>1 DEF IInv, InstalledInv, StoreGoal, KeyGoal
<1> QED BY <1>2, <1>3, <1>4, <1>5, <1>6, <1>7, <1>8, <1>9 DEF IInv

(* The journal goes.                                                       *)
LEMMA FinishInv ==
  ASSUME IInv, Finish
  PROVE  IInv'
<1> USE DEF Finish, SetJournal, Goes, Failing
<1>1. TypeOK /\ pc \in Finishing /\ Caught = IF pc = "finish" THEN "running" ELSE "idle"
  BY DEF Caught, IInv, MemoryInv
<1>2. TypeOK' BY <1>1 DEF TypeOK
<1>3. AccountInv' BY DEF Uncommitted, AccountInv
<1>4. CommittedInv' BY DEF Committed, CommittedInv
<1>5. RunningInv' BY <1>1 DEF IInv, MemoryInv, CommittedInv, RunningInv, Uncommitted, Committed
<1>6. UnjournaledInv' BY <1>1 DEF UnjournaledInv
<1>7. MemoryInv' BY <1>1 DEF MemoryInv
<1>8. PutBackInv' BY <1>1 DEF PutBackInv
<1>9. InstalledInv' BY <1>1 DEF InstalledInv
<1> QED BY <1>2, <1>3, <1>4, <1>5, <1>6, <1>7, <1>8, <1>9 DEF IInv

(* A restore that is turned down is rolled back.                           *)
LEMMA RestoreFailsInv ==
  ASSUME IInv, RestoreFails
  PROVE  IInv'
<1> USE DEF RestoreFails
<1>1. TypeOK /\ pc \in {"import", "opening"} BY DEF IInv, MemoryInv
<1>2. TypeOK' BY <1>1 DEF TypeOK
<1>3. AccountInv' BY DEF IInv, Uncommitted, AccountInv
<1>4. CommittedInv' BY DEF IInv, Committed, CommittedInv
<1>5. RunningInv' BY DEF RunningInv
<1>6. UnjournaledInv' BY DEF IInv, UnjournaledInv
<1>7. MemoryInv' BY DEF IInv, MemoryInv, Uncommitted
<1>8. PutBackInv' BY DEF PutBackInv
<1>9. InstalledInv' BY DEF InstalledInv
<1> QED BY <1>2, <1>3, <1>4, <1>5, <1>6, <1>7, <1>8, <1>9 DEF IInv

(* The previous contents are put back.                                     *)
LEMMA RollbackStoreInv ==
  ASSUME IInv, RollbackStore
  PROVE  IInv'
<1> USE DEF RollbackStore, SetStore, Goes, Failing
<1>1. TypeOK /\ pc = "rollbackStore" /\ Caught = "idle" BY DEF Caught, IInv, MemoryInv
<1>2. mem # None BY <1>1 DEF IInv, MemoryInv
<1>3. /\ Replaced(mem.previous.store) \in Snapshot \cup {None}
      /\ Content(Replaced(mem.previous.store)) = Content(mem.previous.store)
  BY <1>1, <1>2, ReplacedStore, JournalParts
<1>4. roots'.store = Replaced(mem.previous.store) /\ roots'.key = roots.key /\ roots'.account = roots.account
  BY <1>1 DEF TypeOK, Roots
<1>5. TypeOK' BY <1>1, <1>3 DEF TypeOK, Roots
<1>6. AccountInv' BY DEF IInv, MemoryInv, AccountInv
<1>7. CommittedInv' BY DEF IInv, Committed, CommittedInv
<1>8. RunningInv' BY <1>1 DEF RunningInv
<1>9. UnjournaledInv' BY DEF IInv, UnjournaledInv
<1>10. MemoryInv' BY <1>1 DEF IInv, MemoryInv, Uncommitted
<1>11. PutBackInv' BY <1>1, <1>3 DEF PutBackInv
<1>12. InstalledInv' BY <1>1 DEF InstalledInv
<1> QED BY <1>5, <1>6, <1>7, <1>8, <1>9, <1>10, <1>11, <1>12 DEF IInv

(* The previous key is put back.                                           *)
LEMMA RollbackKeyInv ==
  ASSUME IInv, RollbackKey
  PROVE  IInv'
<1> USE DEF RollbackKey, SetKey, Goes, Failing
<1>1. TypeOK /\ pc = "rollbackKey" /\ Caught = "idle" BY DEF Caught, IInv, MemoryInv
<1>2. TypeOK' BY <1>1 DEF IInv, MemoryInv, TypeOK, Roots, Journal
<1>3. AccountInv' BY DEF IInv, MemoryInv, AccountInv
<1>4. CommittedInv' BY DEF IInv, Committed, CommittedInv
<1>5. RunningInv' BY <1>1 DEF RunningInv
<1>6. UnjournaledInv' BY DEF IInv, UnjournaledInv
<1>7. MemoryInv' BY <1>1 DEF IInv, MemoryInv, Uncommitted
<1>8. PutBackInv'
  <2>1. mem.phase # "credentials-prepared" => roots.account = mem.previous.account
    BY <1>1 DEF IInv, MemoryInv, AccountInv, Uncommitted
  <2>2. roots'.store = roots.store /\ roots'.account = roots.account /\ roots'.key = mem.previous.key
    BY <1>1 DEF TypeOK, Roots
  <2> QED BY <1>1, <2>1, <2>2 DEF IInv, PutBackInv
<1>9. InstalledInv' BY <1>1 DEF InstalledInv
<1> QED BY <1>2, <1>3, <1>4, <1>5, <1>6, <1>7, <1>8, <1>9 DEF IInv

(* The previous account is put back.                                       *)
LEMMA RollbackAccountInv ==
  ASSUME IInv, RollbackAccount
  PROVE  IInv'
<1> USE DEF RollbackAccount, Exchange, Exchangeable, Goes, Failing
<1>1. TypeOK /\ pc = "rollbackAccount" /\ Caught = "idle" BY DEF Caught, IInv, MemoryInv
<1>2. TypeOK' BY <1>1 DEF IInv, MemoryInv, TypeOK, Roots, Journal
<1>3. AccountInv' BY DEF IInv, MemoryInv, AccountInv
<1>4. CommittedInv' BY DEF IInv, Committed, CommittedInv
<1>5. RunningInv' BY <1>1 DEF RunningInv
<1>6. UnjournaledInv' BY DEF IInv, UnjournaledInv
<1>7. MemoryInv' BY <1>1 DEF IInv, MemoryInv, Uncommitted
<1>8. PutBackInv' BY <1>1 DEF IInv, PutBackInv
<1>9. InstalledInv' BY <1>1 DEF InstalledInv
<1> QED BY <1>2, <1>3, <1>4, <1>5, <1>6, <1>7, <1>8, <1>9 DEF IInv

(* A start reads the journal before anything else.                         *)
LEMMA StartInv ==
  ASSUME IInv, Start
  PROVE  IInv'
<1> USE DEF Start, Booted
<1>1. TypeOK /\ pc = "down" BY DEF IInv, MemoryInv
<1>2. TypeOK' BY <1>1 DEF TypeOK
<1>3. AccountInv' BY DEF IInv, Uncommitted, AccountInv
<1>4. CommittedInv' BY DEF IInv, Committed, CommittedInv
<1>5. RunningInv' BY DEF Uncommitted, RunningInv
<1>6. UnjournaledInv' BY DEF UnjournaledInv
<1>7. MemoryInv' BY DEF MemoryInv
<1>8. PutBackInv' BY DEF PutBackInv
<1>9. InstalledInv' BY DEF InstalledInv
<1> QED BY <1>2, <1>3, <1>4, <1>5, <1>6, <1>7, <1>8, <1>9 DEF IInv

(* A replay puts the previous contents back, or keeps the committed ones.  *)
LEMMA RecoverStoreInv ==
  ASSUME IInv, RecoverStore
  PROVE  IInv'
<1> USE DEF RecoverStore, NothingToDo, SetStore, Goes, Failing
<1>1. TypeOK /\ pc = "recoverStore" /\ Caught = "down" BY DEF Caught, IInv, MemoryInv
<1>2. mem # None /\ journal = mem BY <1>1 DEF IInv, MemoryInv
<1>3. mem.phase = "committed" => roots' = roots BY RecoverStoreKeeps
<1>4. mem.phase # "committed" =>
        /\ roots'.store \in Snapshot \cup {None}
        /\ Content(roots'.store) = Content(mem.previous.store)
        /\ roots' = [roots EXCEPT !.store = roots'.store]
        /\ roots'.key = roots.key /\ roots'.account = roots.account
  BY <1>1, <1>2, ReplacedStore, JournalParts DEF TypeOK, Roots
<1>5. TypeOK' BY <1>1, <1>3, <1>4 DEF TypeOK, Roots
<1>6. AccountInv' BY <1>3, <1>4 DEF IInv, AccountInv, Uncommitted
<1>7. CommittedInv' BY <1>1, <1>2, <1>3 DEF IInv, CommittedInv, Committed
<1>8. RunningInv' BY <1>1 DEF RunningInv
<1>9. UnjournaledInv' BY DEF IInv, UnjournaledInv
<1>10. MemoryInv' BY <1>1 DEF IInv, MemoryInv
<1>11. PutBackInv' BY <1>1, <1>4 DEF PutBackInv
<1>12. InstalledInv' BY <1>1 DEF InstalledInv
<1> QED BY <1>5, <1>6, <1>7, <1>8, <1>9, <1>10, <1>11, <1>12 DEF IInv

(* A replay puts one of the two keys in place.                             *)
LEMMA RecoverKeyInv ==
  ASSUME IInv, RecoverKey
  PROVE  IInv'
<1> USE DEF RecoverKey, SetKey, Goes, Failing
<1>1. TypeOK /\ pc = "recoverKey" /\ Caught = "down" BY DEF Caught, IInv, MemoryInv
<1>2. TypeOK' BY <1>1 DEF IInv, MemoryInv, TypeOK, Roots, Journal
<1>3. AccountInv' BY DEF IInv, Uncommitted, AccountInv
<1>4. CommittedInv' BY <1>1 DEF IInv, Committed, CommittedInv
<1>5. RunningInv' BY <1>1 DEF RunningInv
<1>6. UnjournaledInv' BY DEF IInv, UnjournaledInv
<1>7. MemoryInv' BY <1>1 DEF IInv, MemoryInv
<1>8. PutBackInv' BY <1>1 DEF IInv, PutBackInv
<1>9. InstalledInv' BY <1>1 DEF InstalledInv
<1> QED BY <1>2, <1>3, <1>4, <1>5, <1>6, <1>7, <1>8, <1>9 DEF IInv

(* A replay puts one of the two accounts in place.                         *)
LEMMA RecoverAccountInv ==
  ASSUME IInv, RecoverAccount
  PROVE  IInv'
<1> USE DEF RecoverAccount, Exchange, Exchangeable, NothingToDo, Goes, Failing
<1>1. TypeOK /\ pc = "recoverAccount" /\ Caught = "down" BY DEF Caught, IInv, MemoryInv
<1>2. TypeOK' BY <1>1 DEF IInv, MemoryInv, TypeOK, Roots, Journal
<1>3. AccountInv' BY DEF IInv, MemoryInv, Uncommitted, AccountInv, TypeOK, Roots
<1>4. CommittedInv' BY <1>1 DEF IInv, MemoryInv, Committed, CommittedInv, TypeOK, Roots
<1>5. RunningInv' BY <1>1 DEF RunningInv
<1>6. UnjournaledInv' BY DEF IInv, UnjournaledInv
<1>7. MemoryInv' BY <1>1 DEF IInv, MemoryInv
<1>8. PutBackInv'
  <2>1. mem.phase \notin {"committed",
    "credentials-prepared"} => roots.account = mem.previous.account
    BY <1>1 DEF IInv, MemoryInv, AccountInv, Uncommitted
  <2>2. roots'.store = roots.store /\ roots'.key = roots.key
    BY <1>1 DEF TypeOK, Roots
  <2>3. mem.phase # "committed" => roots'.account = mem.previous.account
    BY <1>1, <2>1 DEF TypeOK, Roots
  <2> QED BY <1>1, <2>2, <2>3 DEF IInv, PutBackInv
<1>9. InstalledInv' BY <1>1 DEF InstalledInv
<1> QED BY <1>2, <1>3, <1>4, <1>5, <1>6, <1>7, <1>8, <1>9 DEF IInv

(* The journal goes when everything is in place.                           *)
LEMMA RemoveJournalInv ==
  ASSUME IInv, RemoveJournal
  PROVE  IInv'
<1> USE DEF RemoveJournal, Booted, SetJournal, Goes, Failing
<1>1. TypeOK /\ pc \in {"rollbackRemove",
  "recoverRemove"} /\ Caught = IF pc = "recoverRemove" THEN "down" ELSE "idle"
    BY DEF Caught, IInv, MemoryInv
<1>2. TypeOK' BY <1>1 DEF TypeOK
<1>3. AccountInv' BY DEF Uncommitted, AccountInv
<1>4. CommittedInv' BY DEF Committed, CommittedInv
<1>5. RunningInv' BY <1>1 DEF Uncommitted, RunningInv
<1>6. UnjournaledInv' BY <1>1 DEF UnjournaledInv
<1>7. MemoryInv' BY <1>1 DEF MemoryInv
<1>8. PutBackInv' BY <1>1 DEF PutBackInv
<1>9. InstalledInv' BY <1>1 DEF InstalledInv
<1> QED BY <1>2, <1>3, <1>4, <1>5, <1>6, <1>7, <1>8, <1>9 DEF IInv

(* A file operation that failed changed nothing.                           *)
LEMMA ThrowInv ==
  ASSUME IInv, Throw
  PROVE  IInv'
<1> USE DEF Throw, Caught, Failing
<1>1. TypeOK /\ pc \notin {"import", "opening"} \cup Settled BY DEF Caught, IInv, MemoryInv
<1>2. TypeOK' BY <1>1 DEF TypeOK
<1>3. AccountInv' BY DEF IInv, Uncommitted, AccountInv
<1>4. CommittedInv' BY DEF IInv, Committed, CommittedInv
<1>5. RunningInv'
  BY <1>1 DEF IInv, MemoryInv, CommittedInv, RunningInv, Uncommitted, Committed
<1>6. UnjournaledInv' BY DEF IInv, UnjournaledInv
<1>7. MemoryInv'
  <2>1. CASE pc' \in Settled BY <2>1 DEF MemoryInv
  <2>2. CASE pc' = "finishUnpublished"
    <3>1. pc = "writeCommitted" BY <1>1, <2>2 DEF IInv, MemoryInv, TypeOK
    <3> QED BY <2>2, <3>1 DEF IInv, MemoryInv
  <2>3. CASE pc' = "rollbackStore"
    <3>1. pc \in Installing \ {"writePrepared"} /\ mem.phase # "committed"
      BY <1>1, <2>3 DEF TypeOK
    <3>2. pc \in {"installStore", "installKey", "writeInstalled", "writeCredentials",
      "swapAccount"}
      BY <1>1, <3>1 DEF IInv, MemoryInv
    <3>3. mem # None /\ journal.previous = mem.previous BY <3>2 DEF IInv, MemoryInv
    <3>4. Uncommitted /\ (journal.phase = "credentials-prepared" => journal = mem)
      BY <3>1, <3>2, <3>3 DEF IInv, MemoryInv, Uncommitted
    <3> QED BY <2>3, <3>1, <3>3, <3>4 DEF MemoryInv, Uncommitted
  <2> QED BY <1>1, <2>1, <2>2, <2>3
<1>8. PutBackInv' BY DEF PutBackInv
<1>9. InstalledInv'
  <2>1. CASE pc' = "finishUnpublished"
    <3>1. pc = "writeCommitted" BY <1>1, <2>1 DEF IInv, MemoryInv, TypeOK
    <3> QED BY <2>1, <3>1 DEF IInv, InstalledInv, StoreGoal, KeyGoal
  <2>2. CASE pc' # "finishUnpublished" BY <1>1, <2>2 DEF InstalledInv
  <2> QED BY <2>1, <2>2
<1> QED BY <1>2, <1>3, <1>4, <1>5, <1>6, <1>7, <1>8, <1>9 DEF IInv

(* A crash leaves the journal and the roots.                               *)
LEMMA CrashInv ==
  ASSUME IInv, Crash
  PROVE  IInv'
<1> USE DEF Crash, Failing
<1>1. TypeOK /\ pc # "down" BY DEF IInv, MemoryInv
<1>2. TypeOK' BY <1>1 DEF TypeOK
<1>3. AccountInv' BY DEF IInv, Uncommitted, AccountInv
<1>4. CommittedInv' BY DEF IInv, Committed, CommittedInv
<1>5. RunningInv' BY DEF RunningInv
<1>6. UnjournaledInv' BY DEF UnjournaledInv
<1>7. MemoryInv' BY DEF MemoryInv
<1>8. PutBackInv' BY DEF PutBackInv
<1>9. InstalledInv' BY DEF InstalledInv
<1> QED BY <1>2, <1>3, <1>4, <1>5, <1>6, <1>7, <1>8, <1>9 DEF IInv

(* An edit is a newer generation.                                          *)
LEMMA EditInv ==
  ASSUME IInv, Edit
  PROVE  IInv'
<1> USE DEF Edit, Ingesting
<1>1. TypeOK /\ pc \in {"running", "opening", "rollbackStore"} \cup Finishing
  BY DEF IInv, MemoryInv
<1>2. roots.store \in Snapshot \cup {None} BY <1>1 DEF TypeOK, Roots
<1>3. /\ roots'.store = Edited(roots.store)
      /\ roots'.key = roots.key /\ roots'.account = roots.account
  BY <1>1 DEF TypeOK, Roots
<1>4. /\ roots'.store \in Snapshot /\ roots'.store # None
      /\ roots.store # None => roots'.store.generation > roots.store.generation
  BY <1>2, <1>3, EditedContent
<1>5. TypeOK' BY <1>1, <1>4 DEF TypeOK, Roots
<1>6. AccountInv' BY DEF IInv, AccountInv, Uncommitted
<1>7. CommittedInv'
  <2> SUFFICES ASSUME Committed PROVE CommittedInv' BY DEF CommittedInv, Committed
  <2>1. CASE roots.store = journal.donor.store
    BY <1>1, <1>3, <1>4, <2>1 DEF IInv, CommittedInv
  <2>2. CASE roots.store # journal.donor.store
    <3>1. /\ roots.store # None
          /\ journal.donor.store # None =>
               roots.store.generation > journal.donor.store.generation
      BY <2>2 DEF IInv, CommittedInv
    <3>2. journal.donor.store # None => journal.donor.store.generation \in Nat
      BY DEF IInv, TypeOK, Committed, Journal, Roots, Snapshot
    <3>3. roots.store.generation \in Nat /\ roots'.store.generation \in Nat
      BY <1>2, <1>4, <3>1 DEF Snapshot
    <3>4. journal.donor.store # None =>
            roots'.store.generation > journal.donor.store.generation
      BY <1>4, <3>1, <3>2, <3>3
    <3> QED BY <1>1, <1>3, <1>4, <3>4 DEF IInv, CommittedInv
  <2> QED BY <2>1, <2>2
<1>8. RunningInv' BY DEF IInv, Uncommitted, RunningInv
<1>9. UnjournaledInv' BY DEF IInv, UnjournaledInv
<1>10. MemoryInv' BY DEF IInv, MemoryInv, Uncommitted
<1>11. PutBackInv' BY DEF PutBackInv
<1>12. InstalledInv'
  <2>1. ASSUME pc \in {"opening",
    "finishUnpublished"} PROVE Atomic!Extends(Content(roots'.store), StoreGoal)
    <3>1. Atomic!Extends(Content(roots.store), StoreGoal) BY <2>1 DEF IInv, InstalledInv
    <3>2. mem # None /\ sidecar # None BY <2>1 DEF IInv, MemoryInv
    <3>3. Atomic!EditsOf(StoreGoal) \in Nat BY <1>1, <3>2, GoalType
    <3>4. Atomic!EditsOf(Content(roots.store)) \in Nat BY <1>2, ContentType
    <3>5. /\ Content(roots'.store) # None
          /\ Content(roots'.store) = [base  |-> Atomic!BaseOf(Content(roots.store)),
                                      edits |-> Atomic!EditsOf(Content(roots.store)) + 1]
      BY <1>2, <1>3, EditedContent
    <3> QED BY <3>1, <3>3, <3>4, <3>5, ExtendsOnce
  <2>2. StoreGoal' = StoreGoal /\ KeyGoal' = KeyGoal BY DEF StoreGoal, KeyGoal
  <2> QED BY <1>1, <1>3, <2>1, <2>2 DEF IInv, InstalledInv
<1> QED BY <1>5, <1>6, <1>7, <1>8, <1>9, <1>10, <1>11, <1>12 DEF IInv

(* The node has no key to lose.                                            *)
LEMMA CreateKeyInv ==
  ASSUME IInv, CreateKey
  PROVE  IInv'
<1> USE DEF CreateKey, SetKey
<1>1. TypeOK /\ pc = "running" BY DEF IInv, MemoryInv
<1>2. TypeOK' BY <1>1 DEF TypeOK, Roots
<1>3. AccountInv' BY DEF IInv, Uncommitted, AccountInv
<1>4. CommittedInv' BY DEF IInv, Committed, CommittedInv
<1>5. RunningInv' BY DEF IInv, Uncommitted, RunningInv
<1>6. UnjournaledInv' BY DEF UnjournaledInv
<1>7. MemoryInv' BY DEF MemoryInv
<1>8. PutBackInv' BY DEF PutBackInv
<1>9. InstalledInv' BY DEF InstalledInv
<1> QED BY <1>2, <1>3, <1>4, <1>5, <1>6, <1>7, <1>8, <1>9 DEF IInv

(* The initial state has no journal and nothing is under way.              *)
LEMMA InitInv == Init => IInv
<1> SUFFICES ASSUME Init PROVE IInv OBVIOUS
<1>1. roots \in Roots /\ roots.account = None
  <2>1. roots.store \in Snapshot \cup {None} BY DEF Init, Snapshot
  <2> QED BY <2>1 DEF Init, Roots
<1>2. TypeOK BY <1>1 DEF Init, TypeOK
<1>3. AccountInv /\ CommittedInv /\ RunningInv /\ UnjournaledInv
  BY DEF Init, AccountInv, CommittedInv, RunningInv, UnjournaledInv, Uncommitted, Committed
<1>4. MemoryInv /\ PutBackInv /\ InstalledInv
  BY DEF Init, MemoryInv, PutBackInv, InstalledInv
<1> QED BY <1>2, <1>3, <1>4 DEF IInv

(* Nothing changes, nothing is lost.                                       *)
LEMMA StutterInv ==
  ASSUME IInv, UNCHANGED vars
  PROVE  IInv'
<1> USE DEF vars
<1>1. TypeOK' /\ AccountInv' BY DEF IInv, TypeOK, AccountInv, Uncommitted
<1>2. CommittedInv' /\ RunningInv' /\ UnjournaledInv'
  BY DEF IInv, CommittedInv, RunningInv, UnjournaledInv, Uncommitted, Committed
<1>3. MemoryInv' BY DEF IInv, MemoryInv, Uncommitted
<1>4. PutBackInv' /\ InstalledInv' BY DEF IInv, PutBackInv, InstalledInv, StoreGoal, KeyGoal
<1> QED BY <1>1, <1>2, <1>3, <1>4 DEF IInv

(* Every step keeps the journal file, the journal in memory and the three  *)
(* files in agreement.                                                     *)
LEMMA NextInv == IInv /\ [Next]_vars => IInv'
<1> SUFFICES ASSUME IInv, [Next]_vars PROVE IInv' OBVIOUS
<1>1. CASE Restoring
  <2>1. ASSUME NEW b \in Backups, BeginRestore(b) PROVE IInv' BY <2>1, BeginRestoreInv
  <2>2. CASE WritePrepared BY <2>2, WritePreparedInv
  <2>3. CASE ImportCore BY <2>3, ImportCoreInv
  <2>4. CASE InstallStore BY <2>4, InstallStoreInv
  <2>5. CASE InstallKey BY <2>5, InstallKeyInv
  <2>6. CASE WriteInstalled BY <2>6, WriteInstalledInv
  <2>7. CASE PersistCredentials BY <2>7, PersistCredentialsInv
  <2>8. CASE WriteCredentials BY <2>8, WriteCredentialsInv
  <2>9. CASE SwapAccount BY <2>9, SwapAccountInv
  <2>10. CASE WriteCommitted BY <2>10, WriteCommittedInv
  <2>11. CASE Finish BY <2>11, FinishInv
  <2>12. CASE RestoreFails BY <2>12, RestoreFailsInv
  <2> QED
    BY <1>1, <2>1, <2>2, <2>3, <2>4, <2>5, <2>6, <2>7, <2>8, <2>9, <2>10, <2>11, <2>12
    DEF Restoring
<1>2. CASE RollingBackOrRecovering
  <2>1. CASE RollbackStore BY <2>1, RollbackStoreInv
  <2>2. CASE RollbackKey BY <2>2, RollbackKeyInv
  <2>3. CASE RollbackAccount BY <2>3, RollbackAccountInv
  <2>4. CASE Start BY <2>4, StartInv
  <2>5. CASE RecoverStore BY <2>5, RecoverStoreInv
  <2>6. CASE RecoverKey BY <2>6, RecoverKeyInv
  <2>7. CASE RecoverAccount BY <2>7, RecoverAccountInv
  <2>8. CASE RemoveJournal BY <2>8, RemoveJournalInv
  <2> QED
    BY <1>2, <2>1, <2>2, <2>3, <2>4, <2>5, <2>6, <2>7, <2>8 DEF RollingBackOrRecovering
<1>3. CASE Throw BY <1>3, ThrowInv
<1>4. CASE Crash BY <1>4, CrashInv
<1>5. CASE Edit BY <1>5, EditInv
<1>6. CASE CreateKey BY <1>6, CreateKeyInv
<1>7. CASE UNCHANGED vars BY <1>7, StutterInv
<1> QED BY <1>1, <1>2, <1>3, <1>4, <1>5, <1>6, <1>7 DEF Next

(* The journal file, the journal in memory and the three files agree in    *)
(* every state, with any number of crashes and failed file operations.     *)
THEOREM RestoreInvariant == Spec => []IInv
<1>1. Init => IInv BY InitInv
<1>2. IInv /\ [Next]_vars => IInv' BY NextInv
<1> QED BY <1>1, <1>2, PTL DEF Spec

(* The three files and the journal have their types in every state.        *)
THEOREM RestoreTypes == Spec => []TypeOK
<1>1. IInv => TypeOK BY DEF IInv
<1> QED BY <1>1, RestoreInvariant, PTL

(* No rollback and no replay meets a state it refuses, which would repeat  *)
(* at every start (restore-journal.ts, reconcileAccount and installRoots). *)
THEOREM RestoreNeverRefuses == Spec => []NeverRefuses
<1>1. IInv => NeverRefuses
  <2> SUFFICES ASSUME IInv PROVE NeverRefuses OBVIOUS
  <2>1. CASE pc = "swapAccount"
    BY <2>1 DEF IInv, MemoryInv, AccountInv, Uncommitted, NeverRefuses, Exchangeable
  <2>2. CASE pc = "rollbackAccount"
    <3>1. /\ mem.phase = "credentials-prepared" /\ Uncommitted
          /\ journal.phase = "credentials-prepared" => journal = mem
      BY <2>2 DEF IInv, MemoryInv
    <3>2. journal.previous = mem.previous BY <2>2 DEF IInv, MemoryInv
    <3>3. roots.account \in {mem.previous.account, mem.donor.account}
      BY <3>1, <3>2 DEF IInv, AccountInv
    <3> QED BY <2>2, <3>3 DEF NeverRefuses, Exchangeable
  <2>3. CASE pc = "recoverAccount"
    <3>1. journal = mem /\ mem # None BY <2>3 DEF IInv, MemoryInv
    <3>2. mem.phase \in {"credentials-prepared", "committed"} =>
            roots.account \in {mem.previous.account, mem.donor.account}
      BY <3>1 DEF IInv, AccountInv, CommittedInv, Uncommitted, Committed
    <3> QED BY <2>3, <3>2 DEF NeverRefuses, Exchangeable
  <2>4. CASE pc = "recoverStore"
    <3> SUFFICES ASSUME mem.phase = "committed"
                 PROVE  ~Ambiguous(roots.store, mem.donor.store)
      BY <2>4 DEF NeverRefuses
    <3>1. journal = mem /\ mem # None BY <2>4 DEF IInv, MemoryInv
    <3>2. \/ roots.store = mem.donor.store
          \/ /\ roots.store # None
             /\ mem.donor.store # None => roots.store.generation > mem.donor.store.generation
      BY <3>1 DEF IInv, CommittedInv, Committed
    <3>3. mem.donor.store # None => mem.donor.store.generation \in Nat
      BY <3>1, JournalParts DEF IInv, Snapshot
    <3> QED BY <3>2, <3>3 DEF Ambiguous
  <2> QED BY <2>1, <2>2, <2>3, <2>4 DEF NeverRefuses
<1> QED BY <1>1, RestoreInvariant, PTL

---------------------------------------------------------------------------
(* Without a journal the three files stand for themselves.                 *)
LEMMA EffectiveUnjournaled ==
  ASSUME NEW r
  PROVE  EffectiveOf(r, None) = Contents(r)
BY DEF EffectiveOf

(* A journal short of its last phase stands for the previous roots.        *)
LEMMA EffectiveUncommitted ==
  ASSUME NEW r, NEW j \in Journal, j.phase # "committed"
  PROVE  EffectiveOf(r, j) = Contents(j.previous)
BY DEF EffectiveOf

(* A committed journal stands for its roots, with the store that is there  *)
(* when that is the journal's or a newer one.                              *)
LEMMA EffectiveCommitted ==
  ASSUME NEW r \in Roots, NEW j \in Journal, j.phase = "committed",
         \/ r.store = j.donor.store
         \/ /\ r.store # None
            /\ j.donor.store # None => r.store.generation > j.donor.store.generation
  PROVE  EffectiveOf(r, j) =
           [store |-> Content(r.store), key |-> j.donor.key, account |-> j.donor.account]
<1> DEFINE s == IF KeptOver(r.store, j.donor.store) THEN r.store ELSE j.donor.store
<1>1. /\ r.store \in Snapshot \cup {None} /\ j.donor \in Roots
      /\ j.donor.store \in Snapshot \cup {None}
  BY DEF Roots, Journal
<1>2. r.store # None => r.store.generation \in Nat BY <1>1 DEF Snapshot
<1>3. j.donor.store # None => j.donor.store.generation \in Nat BY <1>1 DEF Snapshot
<1>4. s = r.store BY <1>2, <1>3 DEF KeptOver
<1>5. EffectiveOf(r, j) = Contents([j.donor EXCEPT !.store = s]) BY DEF EffectiveOf
<1>6. /\ [j.donor EXCEPT !.store = s].store = s
      /\ [j.donor EXCEPT !.store = s].key = j.donor.key
      /\ [j.donor EXCEPT !.store = s].account = j.donor.account
  BY <1>1 DEF Roots
<1> QED BY <1>4, <1>5, <1>6 DEF Contents

(* What the files amount to, in the cases the journal makes.               *)
LEMMA EffectiveCases ==
  ASSUME IInv
  PROVE  /\ journal = None => Effective = Contents(roots)
         /\ Uncommitted => Effective = Contents(journal.previous)
         /\ Committed => Effective = [store   |-> Content(roots.store),
                                      key     |-> journal.donor.key,
                                      account |-> journal.donor.account]
<1>1. roots \in Roots /\ journal \in Journal \cup {None} BY DEF IInv, TypeOK
<1>2. journal = None => Effective = Contents(roots) BY EffectiveUnjournaled DEF Effective
<1>3. Uncommitted => Effective = Contents(journal.previous)
  BY <1>1, EffectiveUncommitted DEF Effective, Uncommitted
<1>4. Committed => Effective = [store   |-> Content(roots.store),
                                key     |-> journal.donor.key,
                                account |-> journal.donor.account]
  <2> SUFFICES ASSUME Committed
               PROVE  EffectiveOf(roots, journal) =
                        [store   |-> Content(roots.store),
                         key     |-> journal.donor.key,
                         account |-> journal.donor.account]
    BY DEF Effective
  <2>1. \/ roots.store = journal.donor.store
        \/ /\ roots.store # None
           /\ journal.donor.store # None =>
                roots.store.generation > journal.donor.store.generation
    BY DEF IInv, CommittedInv
  <2> QED BY <1>1, <2>1, EffectiveCommitted DEF Committed
<1> QED BY <1>2, <1>3, <1>4

(* The same of the state after a step.                                     *)
LEMMA EffectiveCasesNext ==
  ASSUME IInv'
  PROVE  /\ journal' = None => Effective' = Contents(roots')
         /\ Uncommitted' => Effective' = Contents(journal'.previous)
         /\ Committed' => Effective' = [store   |-> Content(roots'.store),
                                        key     |-> journal'.donor.key,
                                        account |-> journal'.donor.account]
<1>1. roots' \in Roots /\ journal' \in Journal \cup {None} BY DEF IInv, TypeOK
<1>2. journal' = None => Effective' = Contents(roots') BY EffectiveUnjournaled DEF Effective
<1>3. Uncommitted' => Effective' = Contents(journal'.previous)
  BY <1>1, EffectiveUncommitted DEF Effective, Uncommitted
<1>4. Committed' => Effective' = [store   |-> Content(roots'.store),
                                  key     |-> journal'.donor.key,
                                  account |-> journal'.donor.account]
  <2> SUFFICES ASSUME Committed'
               PROVE  EffectiveOf(roots', journal') =
                        [store   |-> Content(roots'.store),
                         key     |-> journal'.donor.key,
                         account |-> journal'.donor.account]
    BY DEF Effective
  <2>1. \/ roots'.store = journal'.donor.store
        \/ /\ roots'.store # None
           /\ journal'.donor.store # None =>
                roots'.store.generation > journal'.donor.store.generation
    BY DEF IInv, CommittedInv
  <2> QED BY <1>1, <2>1, EffectiveCommitted DEF Committed
<1> QED BY <1>2, <1>3, <1>4

(* A step that changes nothing the files amount to is a stutter, or gives  *)
(* a pending restore up.                                                   *)
LEMMA Keeps ==
  ASSUME Effective' = Effective, Pending' => Pending
  PROVE  [Atomic!Next]_(Atomic!vars)
<1>1. CASE Pending' <=> Pending
  <2>1. Pending' = Pending BY <1>1 DEF Pending
  <2> QED BY <2>1 DEF Atomic!vars
<1>2. CASE Pending /\ ~Pending' BY <1>2 DEF Atomic!Next, Atomic!GiveUp
<1> QED BY <1>1, <1>2

(* A step after which the files amount to what was installed completes the *)
(* restore.                                                                *)
LEMMA Completes ==
  ASSUME TypeOK, TypeOK', mem # None, sidecar # None, Pending, ~Pending',
         Effective = Contents(mem.previous), Effective' = Contents(roots),
         Atomic!Extends(Content(roots.store), StoreGoal), roots.key = KeyGoal,
         roots.account = sidecar.account
  PROVE  [Atomic!Next]_(Atomic!vars)
<1>1. sidecar \in Backups BY DEF TypeOK
<1>2. Effective.store = Content(mem.previous.store) /\ Effective.key = mem.previous.key
  BY DEF Contents
<1>3. /\ Effective'.store = Content(roots.store) /\ Effective'.key = roots.key
      /\ Effective'.account = roots.account
  BY DEF Contents
<1>4. Effective' \in Atomic!Roots
  <2>1. /\ roots.store \in Snapshot \cup {None} /\ roots.key \in Keys \cup {None}
        /\ roots.account \in Accounts \cup {None}
    BY DEF TypeOK, Roots
  <2>2. Content(roots.store) \in Atomic!Contents BY <2>1, ContentType
  <2> QED BY <2>1, <2>2 DEF Contents, Atomic!Roots
<1>5. Atomic!Extends(Effective'.store,
        IF sidecar.store = None THEN Effective.store ELSE Atomic!Fresh(sidecar.store))
  BY <1>2, <1>3 DEF StoreGoal
<1>6. Effective'.key = IF sidecar.key = None THEN Effective.key ELSE sidecar.key
  BY <1>2, <1>3 DEF KeyGoal
<1>7. Effective'.account = sidecar.account BY <1>3
<1>8. Atomic!Restore BY <1>1, <1>4, <1>5, <1>6, <1>7 DEF Atomic!Restore
<1> QED BY <1>8 DEF Atomic!Next

(* Nothing is pending outside an installation.                             *)
LEMMA NotPending ==
  ASSUME pc' \notin Installing, pc' = "finishUnpublished" => journal'.phase = "committed"
  PROVE  ~Pending'
BY DEF Pending

(* A step that leaves an uncommitted journal with the previous roots it    *)
(* had.                                                                    *)
LEMMA StaysUncommitted ==
  ASSUME IInv, IInv', Uncommitted, Uncommitted', journal'.previous = journal.previous
  PROVE  Effective' = Effective
BY EffectiveCases, EffectiveCasesNext

(* A step that leaves the files and the journal.                           *)
LEMMA StaysPut ==
  ASSUME UNCHANGED <<roots, journal>>
  PROVE  Effective' = Effective
BY DEF Effective

(* An uncommitted journal goes on standing for the roots it holds while a  *)
(* restore is prepared, installed, rolled back or replayed.                *)
LEMMA PreparingKeeps ==
  ASSUME IInv, IInv',
         WritePrepared \/ ImportCore \/ InstallStore \/ InstallKey \/ WriteInstalled
         \/ PersistCredentials \/ WriteCredentials \/ SwapAccount \/ RestoreFails
  PROVE  [Atomic!Next]_(Atomic!vars)
<1> USE DEF Goes, SetStore, SetKey, SetJournal, Exchange
<1>1. Pending' => Pending
  BY DEF WritePrepared, ImportCore, InstallStore, InstallKey, WriteInstalled,
         PersistCredentials, WriteCredentials, SwapAccount, RestoreFails, Pending
<1>2. CASE WritePrepared
  <2>1. journal = None /\ mem.previous = roots /\ mem # None /\ mem.phase = "prepared"
    BY <1>2 DEF WritePrepared, IInv, MemoryInv
  <2>2. Effective = Contents(roots) BY <2>1, EffectiveCases
  <2>3. Effective' = Contents(roots)
    BY <1>2, <2>1, EffectiveCasesNext DEF WritePrepared, Uncommitted
  <2> QED BY <1>1, <2>2, <2>3, Keeps
<1>3. CASE ImportCore \/ PersistCredentials \/ RestoreFails
  BY <1>1, <1>3, StaysPut, Keeps DEF ImportCore, PersistCredentials, RestoreFails
<1>4. CASE InstallStore \/ InstallKey \/ SwapAccount
  <2>1. Uncommitted
    BY <1>4 DEF InstallStore, InstallKey, SwapAccount, IInv, MemoryInv, Uncommitted
  <2>2. journal' = journal BY <1>4 DEF InstallStore, InstallKey, SwapAccount
  <2>3. Uncommitted' BY <2>1, <2>2 DEF Uncommitted
  <2> QED BY <1>1, <2>1, <2>2, <2>3, StaysUncommitted, Keeps
<1>5. CASE WriteInstalled \/ WriteCredentials
  <2>1. Uncommitted /\ mem # None /\ mem.phase # "committed" /\ journal.previous = mem.previous
    BY <1>5 DEF WriteInstalled, WriteCredentials, IInv, MemoryInv
  <2>2. journal' = mem BY <1>5 DEF WriteInstalled, WriteCredentials
  <2>3. Uncommitted' BY <2>1, <2>2 DEF Uncommitted
  <2> QED BY <1>1, <2>1, <2>2, <2>3, StaysUncommitted, Keeps
<1> QED BY <1>2, <1>3, <1>4, <1>5

(* A restore begins.                                                       *)
LEMMA BeginRestoreBegins ==
  ASSUME IInv, IInv', NEW b \in Backups, BeginRestore(b)
  PROVE  [Atomic!Next]_(Atomic!vars)
<1>1. Effective' = Effective BY StaysPut DEF BeginRestore
<1>2. ~Pending /\ Pending' BY DEF BeginRestore, Pending
<1> QED BY <1>1, <1>2 DEF Atomic!Next, Atomic!Begin

(* The last journal write completes the restore, if it took effect.        *)
LEMMA WriteCommittedCompletes ==
  ASSUME IInv, IInv', WriteCommitted
  PROVE  [Atomic!Next]_(Atomic!vars)
<1>1. /\ mem # None /\ sidecar # None /\ mem.phase = "committed" /\ Uncommitted
      /\ journal.previous = mem.previous
  <2>1. /\ mem # None /\ sidecar # None /\ mem.phase = "committed" /\ journal # None
        /\ journal = [mem EXCEPT !.phase = "credentials-prepared"]
        /\ journal.previous = mem.previous
    BY DEF WriteCommitted, IInv, MemoryInv, UnjournaledInv
  <2>2. journal.phase = "credentials-prepared" BY <2>1 DEF IInv, TypeOK, Journal
  <2> QED BY <2>1, <2>2 DEF Uncommitted
<1>2. journal' = mem /\ roots' = roots /\ pc' \in Finishing
  BY <1>1 DEF WriteCommitted, SetJournal, Goes, Caught
<1>3. Effective = Contents(mem.previous) BY <1>1, EffectiveCases
<1>4. /\ Atomic!Extends(Content(roots.store), StoreGoal) /\ roots.key = KeyGoal
      /\ roots.key = mem.donor.key
      /\ roots.account = mem.donor.account /\ roots.account = sidecar.account
  BY DEF WriteCommitted, IInv, InstalledInv
<1>5. Effective' = Contents(roots)
  <2>1. Committed' BY <1>1, <1>2 DEF Committed
  <2> QED BY <1>2, <1>4, <2>1, EffectiveCasesNext DEF Contents
<1>6. Pending BY DEF WriteCommitted, Pending
<1>7. ~Pending' BY <1>1, <1>2, NotPending
<1> QED BY <1>1, <1>3, <1>4, <1>5, <1>6, <1>7, Completes DEF IInv

(* Removing the journal leaves the files to stand for what it stood for,   *)
(* or completes a restore whose last journal write had thrown.             *)
LEMMA FinishCompletes ==
  ASSUME IInv, IInv', Finish
  PROVE  [Atomic!Next]_(Atomic!vars)
<1>1. /\ mem # None /\ sidecar # None /\ mem.phase = "committed"
      /\ journal \in {mem, [mem EXCEPT !.phase = "credentials-prepared"]}
      /\ pc = "finish" => journal = mem
  BY DEF Finish, IInv, MemoryInv
<1>2. journal' = None /\ roots' = roots /\ pc' \in {"running", "idle"}
  BY DEF Finish, SetJournal, Goes, Caught
<1>3. Effective' = Contents(roots) BY <1>2, EffectiveCasesNext
<1>4. ~Pending' BY <1>2, NotPending
<1>5. /\ roots.key = mem.donor.key
      /\ roots.account = mem.donor.account /\ mem.donor.account = sidecar.account
  BY DEF Finish, IInv, InstalledInv
<1>6. CASE journal = mem
  <2>1. Committed BY <1>1, <1>6 DEF Committed
  <2>2. Effective = Contents(roots) BY <1>5, <1>6, <2>1, EffectiveCases DEF Contents
  <2> QED BY <1>3, <1>4, <2>2, Keeps
<1>7. CASE journal # mem
  <2>1. pc = "finishUnpublished" /\ journal.phase = "credentials-prepared"
        /\ journal.previous = mem.previous
    BY <1>1, <1>7 DEF Finish, IInv, TypeOK, Journal
  <2>2. Effective = Contents(mem.previous)
    <3>1. Uncommitted BY <2>1 DEF Uncommitted, IInv, UnjournaledInv
    <3> QED BY <2>1, <3>1, EffectiveCases
  <2>3. Pending BY <2>1 DEF Pending
  <2>4. Atomic!Extends(Content(roots.store), StoreGoal) /\ roots.key = KeyGoal
    BY <2>1 DEF IInv, InstalledInv
  <2> QED BY <1>1, <1>3, <1>4, <1>5, <2>2, <2>3, <2>4, Completes DEF IInv
<1> QED BY <1>6, <1>7

(* Rolling back and replaying change nothing the files amount to: until    *)
(* the journal goes it stands for the roots it puts back or keeps.         *)
LEMMA PuttingBackKeeps ==
  ASSUME IInv, IInv',
         RollbackStore \/ RollbackKey \/ RollbackAccount
         \/ RecoverStore \/ RecoverKey \/ RecoverAccount
  PROVE  [Atomic!Next]_(Atomic!vars)
<1>1. /\ journal' = journal
      /\ pc \in RollingBack \cup Recovering
      /\ pc' \in RollingBack \cup Recovering \cup Settled
  <2> USE DEF RollbackStore, RollbackKey, RollbackAccount, RecoverStore, RecoverKey,
    RecoverAccount
  <2>1. journal' = journal BY DEF SetStore, SetKey, Exchange, NothingToDo
  <2>2. pc \in RollingBack \cup Recovering OBVIOUS
  <2>3. Caught \in Settled BY <2>2 DEF Caught
  <2> QED BY <2>1, <2>2, <2>3 DEF Goes
<1>2. ~Pending' BY <1>1, NotPending
<1>3. Uncommitted \/ Committed
  BY <1>1 DEF IInv, MemoryInv, UnjournaledInv, Uncommitted, Committed
<1>4. CASE Uncommitted
  <2>1. Uncommitted' BY <1>1, <1>4 DEF Uncommitted
  <2> QED BY <1>1, <1>2, <1>4, <2>1, StaysUncommitted, Keeps
<1>5. CASE Committed
  <2>1. Committed' /\ pc \in Recovering /\ journal = mem
    BY <1>1, <1>5 DEF Committed, IInv, MemoryInv, Uncommitted
  <2>2. roots'.store = roots.store
    <3>1. CASE RecoverStore BY <1>5, <2>1, <3>1, RecoverStoreKeeps DEF Committed
    <3>2. CASE RecoverKey \/ RecoverAccount
      BY <3>2 DEF RecoverKey, RecoverAccount, SetKey, Exchange, NothingToDo, IInv, TypeOK, Roots
    <3>3. pc \notin RollingBack BY <2>1
    <3> QED BY <3>1, <3>2, <3>3 DEF RollbackStore, RollbackKey, RollbackAccount
  <2> QED BY <1>1, <1>2, <1>5, <2>1, <2>2, EffectiveCases, EffectiveCasesNext, Keeps
<1> QED BY <1>3, <1>4, <1>5

(* When the journal goes, everything it stood for is in place.             *)
LEMMA RemoveJournalKeeps ==
  ASSUME IInv, IInv', RemoveJournal
  PROVE  [Atomic!Next]_(Atomic!vars)
<1>1. journal' = None /\ roots' = roots /\ pc \in {"rollbackRemove", "recoverRemove"}
      /\ pc' \in Settled
  BY DEF RemoveJournal, SetJournal, Goes, Booted, Caught
<1>2. ~Pending' BY <1>1, NotPending
<1>3. Effective' = Contents(roots) BY <1>1, EffectiveCasesNext
<1>4. Effective = Contents(roots)
  <2>1. CASE Uncommitted
    <3>1. Contents(journal.previous) = Contents(mem.previous) /\ mem.phase # "committed"
      BY <1>1, <2>1 DEF IInv, MemoryInv, Uncommitted
    <3>2. /\ Content(roots.store) = Content(mem.previous.store)
          /\ roots.key = mem.previous.key /\ roots.account = mem.previous.account
      BY <1>1, <3>1 DEF IInv, PutBackInv
    <3> QED BY <2>1, <3>1, <3>2, EffectiveCases DEF Contents
  <2>2. CASE Committed
    <3>1. pc = "recoverRemove" /\ journal = mem /\ mem.phase = "committed"
      BY <1>1, <2>2 DEF IInv, MemoryInv, Uncommitted, Committed
    <3>2. roots.key = mem.donor.key /\ roots.account = journal.donor.account
      BY <2>2, <3>1 DEF IInv, PutBackInv, CommittedInv
    <3> QED BY <2>2, <3>1, <3>2, EffectiveCases DEF Contents
  <2>3. Uncommitted \/ Committed
    BY <1>1 DEF IInv, MemoryInv, Uncommitted, Committed
  <2> QED BY <2>1, <2>2, <2>3
<1> QED BY <1>2, <1>3, <1>4, Keeps

(* A start, a crash or an error is no change of the files.                 *)
LEMMA FailingKeeps ==
  ASSUME IInv, IInv', Start \/ Throw \/ Crash \/ UNCHANGED vars
  PROVE  [Atomic!Next]_(Atomic!vars)
<1>1. Effective' = Effective BY StaysPut DEF Start, Throw, Crash, vars
<1>2. Pending' => Pending
  <2>1. CASE Start BY <2>1 DEF Start, Booted, Pending
  <2>2. CASE Throw
    <3>1. pc' = Caught /\ journal' = journal /\ pc \notin {"import", "opening"} \cup Settled
      BY <2>2 DEF Throw
    <3>2. pc' = "finishUnpublished" => pc \in Installing BY <3>1 DEF Caught, IInv, TypeOK
    <3>3. pc' \notin Installing BY <3>1 DEF Caught
    <3> QED BY <3>2, <3>3 DEF Pending
  <2>3. CASE Crash BY <2>3 DEF Crash, Pending
  <2>4. CASE UNCHANGED vars BY <2>4 DEF vars, Pending
  <2> QED BY <2>1, <2>2, <2>3, <2>4
<1> QED BY <1>1, <1>2, Keeps

(* A mutation edits what the files amount to, or, before the commit,       *)
(* nothing that counts yet.                                                *)
LEMMA EditEdits ==
  ASSUME IInv, IInv', Edit
  PROVE  [Atomic!Next]_(Atomic!vars)
<1>1. Pending' <=> Pending BY DEF Edit, Pending
<1>2. CASE Uncommitted
  <2>1. Uncommitted' /\ journal' = journal BY <1>2 DEF Edit, Uncommitted
  <2> QED BY <1>1, <1>2, <2>1, StaysUncommitted, Keeps
<1>3. CASE ~Uncommitted
  <2>1. roots.store \in Snapshot \cup {None} BY DEF IInv, TypeOK, Roots
  <2>2. /\ roots'.store = Edited(roots.store)
        /\ roots'.key = roots.key /\ roots'.account = roots.account
        /\ journal' = journal
    BY DEF Edit, IInv, TypeOK, Roots
  <2>3. Content(roots'.store) = [base  |-> Atomic!BaseOf(Content(roots.store)),
                                 edits |-> Atomic!EditsOf(Content(roots.store)) + 1]
    BY <2>1, <2>2, EditedContent
  <2>4. roots.account # None /\ (journal = None \/ Committed)
    <3>1. journal = None \/ Committed BY <1>3 DEF Uncommitted, Committed
    <3>2. CASE Committed BY <3>2 DEF IInv, CommittedInv
    <3>3. CASE journal = None
      <4>1. pc = "running" BY <1>3, <3>3 DEF Edit, Ingesting, IInv, UnjournaledInv, MemoryInv
      <4> QED BY <3>3, <4>1 DEF IInv, RunningInv
    <3> QED BY <3>1, <3>2, <3>3
  <2>5. /\ Effective.account # None
        /\ Effective' = [Effective EXCEPT !.store =
             [base |-> Atomic!BaseOf(@), edits |-> Atomic!EditsOf(@) + 1]]
    <3>1. CASE journal = None
      <4>1. Effective = Contents(roots) /\ Effective' = Contents(roots')
        BY <2>2, <3>1, EffectiveCases, EffectiveCasesNext
      <4> QED BY <2>2, <2>3, <2>4, <4>1 DEF Contents
    <3>2. CASE Committed
      <4>1. Committed' BY <2>2, <3>2 DEF Committed
      <4>2. roots.account = journal.donor.account BY <3>2 DEF IInv, CommittedInv
      <4> QED BY <2>2, <2>3, <2>4, <3>2, <4>1, <4>2, EffectiveCases, EffectiveCasesNext
    <3> QED BY <2>4, <3>1, <3>2
  <2>6. Pending' = Pending BY <1>1 DEF Pending
  <2> QED BY <2>5, <2>6 DEF Atomic!Next, Atomic!Edit
<1> QED BY <1>2, <1>3

(* A key is created where there was none, unless a journal still holds one.*)
LEMMA CreateKeyCreates ==
  ASSUME IInv, IInv', CreateKey
  PROVE  [Atomic!Next]_(Atomic!vars)
<1>1. PICK k \in Keys : roots' = [roots EXCEPT !.key = k] /\ journal' = journal
  BY DEF CreateKey, SetKey
<1>2. /\ roots'.store = roots.store /\ roots'.key = k /\ roots'.account = roots.account
  BY <1>1 DEF IInv, TypeOK, Roots
<1>3. Pending' <=> Pending BY <1>1 DEF CreateKey, Pending
<1>4. roots.account # None /\ roots.key = None /\ (journal = None \/ Committed)
  BY DEF CreateKey, IInv, RunningInv, Uncommitted, Committed
<1>5. CASE journal = None
  <2>1. Effective = Contents(roots) /\ Effective' = Contents(roots')
    BY <1>1, <1>5, EffectiveCases, EffectiveCasesNext
  <2>2. Effective' = [Effective EXCEPT !.key = k] BY <1>2, <2>1 DEF Contents
  <2>3. Effective.account # None /\ Effective.key = None BY <1>4, <2>1 DEF Contents
  <2>4. Pending' = Pending BY <1>3 DEF Pending
  <2> QED BY <2>2, <2>3, <2>4 DEF Atomic!Next, Atomic!CreateKey
<1>6. CASE Committed
  <2>1. Committed' BY <1>1, <1>6 DEF Committed
  <2>2. Effective' = Effective
    BY <1>1, <1>2, <1>6, <2>1, EffectiveCases, EffectiveCasesNext
  <2> QED BY <1>3, <2>2, Keeps
<1> QED BY <1>4, <1>5, <1>6

(* A node starts with what is left in the data directory.                  *)
LEMMA InitAtomic == Init => Atomic!Init
<1> SUFFICES ASSUME Init PROVE Atomic!Init OBVIOUS
<1>1. Effective = Contents(roots) /\ ~Pending
  BY EffectiveUnjournaled DEF Init, Effective, Pending
<1>2. Content(roots.store) \in {None} \cup {Atomic!Fresh(b) : b \in Bases}
  <2>1. CASE roots.store = None BY <2>1 DEF Content
  <2>2. CASE roots.store # None
    <3>1. /\ roots.store \in [generation : {1}, base : Bases, edits : {0}]
      BY <2>2 DEF Init
    <3>2. roots.store.base \in Bases /\ roots.store.edits = 0 BY <3>1
    <3>3. Content(roots.store) = Atomic!Fresh(roots.store.base)
      BY <2>2, <3>2 DEF Content, Atomic!Fresh
    <3> QED BY <3>2, <3>3
  <2> QED BY <2>1, <2>2
<1>3. roots.key \in Keys \cup {None} /\ roots.account = None BY DEF Init
<1> QED BY <1>1, <1>2, <1>3 DEF Contents, Atomic!Init

(* Every step of the journal is a step of the atomic restore, or none.     *)
LEMMA NextAtomic ==
  ASSUME IInv, IInv', [Next]_vars
  PROVE  [Atomic!Next]_(Atomic!vars)
<1>1. CASE Restoring
  <2>1. ASSUME NEW b \in Backups, BeginRestore(b) PROVE [Atomic!Next]_(Atomic!vars)
    BY <2>1, BeginRestoreBegins
  <2>2. CASE WriteCommitted BY <2>2, WriteCommittedCompletes
  <2>3. CASE Finish BY <2>3, FinishCompletes
  <2>4. CASE WritePrepared \/ ImportCore \/ InstallStore \/ InstallKey \/ WriteInstalled
             \/ PersistCredentials \/ WriteCredentials \/ SwapAccount \/ RestoreFails
    BY <2>4, PreparingKeeps
  <2> QED BY <1>1, <2>1, <2>2, <2>3, <2>4 DEF Restoring
<1>2. CASE RollingBackOrRecovering
  <2>1. CASE RemoveJournal BY <2>1, RemoveJournalKeeps
  <2>2. CASE Start BY <2>2, FailingKeeps
  <2>3. CASE RollbackStore \/ RollbackKey \/ RollbackAccount
             \/ RecoverStore \/ RecoverKey \/ RecoverAccount
    BY <2>3, PuttingBackKeeps
  <2> QED BY <1>2, <2>1, <2>2, <2>3 DEF RollingBackOrRecovering
<1>3. CASE Throw \/ Crash \/ UNCHANGED vars BY <1>3, FailingKeeps
<1>4. CASE Edit BY <1>4, EditEdits
<1>5. CASE CreateKey BY <1>5, CreateKeyCreates
<1> QED BY <1>1, <1>2, <1>3, <1>4, <1>5 DEF Next

(* The store, the signing key and the credentials change together or not   *)
(* at all, whatever crashes, throws and replays happen.                    *)
THEOREM RestoreIsAtomic == Spec => RestoresAtomically
<1>1. Init => Atomic!Init BY InitAtomic
<1>2. IInv /\ IInv' /\ [Next]_vars => [Atomic!Next]_(Atomic!vars) BY NextAtomic
<1> QED BY <1>1, <1>2, RestoreInvariant, PTL DEF Spec, RestoresAtomically, Atomic!Spec

=============================================================================
