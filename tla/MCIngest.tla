------------------------------ MODULE MCIngest ------------------------------
(* We wrote the post x.  p, whose messages come in the order p sent them,  *)
(* reacts to x, takes that back and replies; or asks for our feed and      *)
(* offers its own; or offers its own twice.                                *)
EXTENDS Ingest, TLC

CONSTANTS me, p, x, r, u, y, w, g, h, feed, dm, t1, t2

MCTask == {t1, t2}
MCSymmetry == Permutations(MCTask)
MCOneTask == {t1}
MCPeer == {p}
MCMsg == {x, r, u, y, w, g, h}
MCKind == x :> "post" @@ r :> "react" @@ u :> "unreact" @@ y :> "reply"
          @@ w :> "request" @@ g :> "grant" @@ h :> "grant"
MCFrom == [m \in MCMsg |-> IF m = x THEN me ELSE p]
MCChat == [m \in MCMsg |-> IF m = x THEN feed ELSE dm]
MCAbout == [m \in MCMsg |-> IF m \in {r, u, y} THEN x ELSE m]
MCAfter == x :> {} @@ r :> {x} @@ u :> {r} @@ y :> {x} @@ w :> {} @@ g :> {w} @@ h :> {g}
MCCasts == {{x, r, u}, {x, y}, {w, g}, {g, h}}
=============================================================================
