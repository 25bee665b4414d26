---------------------------- MODULE MCBackupExport ----------------------------
(* Two changes and two export requests: a change that begins before the    *)
(* core copies and one that ends after it, both attempts, a second export. *)
EXTENDS BackupExport

CONSTANTS c1, c2, e1, e2
MCChange == {c1, c2}
MCExport == {e1, e2}
=============================================================================
