--------------------------- MODULE AtomicRestore ---------------------------
(***************************************************************************)
(* What src/daemon/src/restore-journal.ts promises of the three files that *)
(* carry a node's identity beside the Delta Chat core: the store, the      *)
(* signing key and the credentials.  A restore replaces the three at once; *)
(* otherwise the configured node edits its store and creates its key.      *)
(***************************************************************************)
EXTENDS Naturals

CONSTANTS
  None,      \* no store, no key, no account, no journal
  Bases,     \* snapshots a store can start from
  Keys,      \* signing keys
  Accounts,  \* credentials
  Backups    \* what a backup carries: a store and a key, or neither, and an account

VARIABLES
  roots,    \* the three files
  pending   \* a restore is under way

vars == <<roots, pending>>

(* A store is the snapshot it started from and the edits made since.       *)
Contents == [base : Bases \cup {None}, edits : Nat] \cup {None}
Roots == [store : Contents, key : Keys \cup {None}, account : Accounts \cup {None}]

Fresh(base) == [base |-> base, edits |-> 0]
BaseOf(s) == IF s = None THEN None ELSE s.base
EditsOf(s) == IF s = None THEN 0 ELSE s.edits

(* s is t, or t after some edits.                                          *)
Extends(s, t) == s = t \/ (s # None /\ s.base = BaseOf(t) /\ s.edits > EditsOf(t))

Begin ==
  /\ ~pending /\ pending'
  /\ UNCHANGED roots

(* A part the backup does not carry stays as it was; the restored core may *)
(* already have delivered something to the store.                          *)
Restore ==
  /\ pending /\ ~pending'
  /\ roots' \in Roots
  /\ \E b \in Backups :
       /\ Extends(roots'.store, IF b.store = None THEN roots.store ELSE Fresh(b.store))
       /\ roots'.key = (IF b.key = None THEN roots.key ELSE b.key)
       /\ roots'.account = b.account

GiveUp ==
  /\ pending /\ ~pending'
  /\ UNCHANGED roots

Edit ==
  /\ roots.account # None
  /\ roots' = [roots EXCEPT !.store = [base |-> BaseOf(@), edits |-> EditsOf(@) + 1]]
  /\ UNCHANGED pending

CreateKey ==
  /\ roots.account # None /\ roots.key = None
  /\ \E k \in Keys : roots' = [roots EXCEPT !.key = k]
  /\ UNCHANGED pending

Init ==
  /\ roots \in [store : {None} \cup {Fresh(b) : b \in Bases}, key : Keys \cup {None},
                account : {None}]
  /\ ~pending

Next == Begin \/ Restore \/ GiveUp \/ Edit \/ CreateKey
Spec == Init /\ [][Next]_vars
=============================================================================
