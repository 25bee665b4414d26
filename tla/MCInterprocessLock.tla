------------------------- MODULE MCInterprocessLock -------------------------
(* Three incarnations under two pids: p3 starts after p1 has died, under   *)
(* the same pid, the way a restarted container does.                       *)
EXTENDS InterprocessLock, TLC

CONSTANTS p1, p2, p3, d1, d2

MCProc == {p1, p2, p3}
MCPid == {d1, d2}
MCPidOf == p1 :> d1 @@ p2 :> d2 @@ p3 :> d1
=============================================================================
