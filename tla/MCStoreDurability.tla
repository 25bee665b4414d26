------------------------- MODULE MCStoreDurability -------------------------
(* Up to four values are handed to the store, with any number of crashes   *)
(* and power losses and any mix of faults.                                 *)
EXTENDS StoreDurability
=============================================================================
