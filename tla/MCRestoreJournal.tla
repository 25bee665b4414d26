------------------------- MODULE MCRestoreJournal -------------------------
(* A node with or without a leftover store and key restores a full backup  *)
(* and one that carries neither store nor key.                             *)
EXTENDS RestoreJournal

CONSTANTS b0, b1, k0, k1, a1, a2

MCBases == {b0, b1}
MCKeys == {k0, k1}
MCAccounts == {a1, a2}
MCBackups == {[store |-> b1, key |-> k1, account |-> a1],
              [store |-> None, key |-> None, account |-> a2]}
=============================================================================
