----------------------------- MODULE MCBackfill -----------------------------
(* A thread: b replies to the root a, which q wrote, and c replies to b.   *)
(* We get c from p, and b from q or by asking; p answers with b, then a.   *)
(* In the wide instance p sends us b, and q bundles of a and of c, which   *)
(* refers to both: more references than a flush has requests for, asked    *)
(* for again when the daemon restarts with c held.                         *)
EXTENDS Backfill, TLC

CONSTANTS p, q, a, b, c

MCPeer == {p, q}
MCUuid == {a, b, c}
MCRefOf == a :> {} @@ b :> {a} @@ c :> {b}
MCAuthorOf == a :> q @@ b :> p @@ c :> p
MCSends == {<<p, c>>, <<q, b>>}
MCServes == {<<p, a>>, <<p, b>>}

MCWideRefOf == [MCRefOf EXCEPT ![c] = {a, b}]
MCWideSends == {<<p, b>>}
MCWideServes == {<<q, a>>, <<q, c>>}
=============================================================================
