-------------------------- MODULE MCThreadChannels --------------------------
(* One subscriber, which asks twice, and a reply that comes by a feed and  *)
(* as a copy by DM, or that the host wrote itself.                         *)
EXTENDS ThreadChannels, TLC

CONSTANTS s1, r1, feed, dm, own, t1, t2

MCSub == {s1}
MCReply == {r1}
MCMessage == {feed, dm, own}
MCReplyOf == feed :> r1 @@ dm :> r1 @@ own :> r1
MCCopy == feed :> "feed" @@ dm :> "dm" @@ own :> "own"
MCCasts == {{feed, dm}, {own}}
MCTask == {t1, t2}
MCSymmetry == Permutations(MCTask)
=============================================================================
