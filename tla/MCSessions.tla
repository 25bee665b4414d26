------------------------------ MODULE MCSessions ------------------------------
(* Two accounts, ids enough for one whole chain from enrollment code to    *)
(* socket and two more, one failed write and one restart.                  *)
EXTENDS Sessions

CONSTANTS a, b
MCAccount == {a, b}
=============================================================================
