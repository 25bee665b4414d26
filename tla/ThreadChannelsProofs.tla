------------------------- MODULE ThreadChannelsProofs -------------------------
(***************************************************************************)
(* What holds of the channel of a thread for any number of subscribers,    *)
(* replies, messages, handlers, requests and restarts.                     *)
(*                                                                         *)
(* RepublishedOnce needs to know where a marked reply is: Once says that a *)
(* reply awaited by a post is marked, has not been posted, and is awaited  *)
(* by that post only.  UnsubscribedStaysSo needs to know what could bring  *)
(* a subscription back: Settled says that a subscriber that left in peace  *)
(* has no request noted or about to be, and no join under way.             *)
(***************************************************************************)
EXTENDS ThreadChannels, FiniteSetTheorems, TLAPS

\* The handlers that may yet create a channel.
Opening == {t \in Task : tasks[t].at \in {"root", "creating"}}

\* Every channel, created or to be created, is of a delivery of its own.
Counted ==
  /\ IsFiniteSet(Opening) /\ serves \in 0..MaxServes
  /\ created + Cardinality(Opening) <= serves

\* A handler that grants, grants a channel.
Granting == \A t \in Task : tasks[t].at \in {"inviting", "collecting"} => tasks[t].chat \in Chan

IInv == TypeOK /\ Counted /\ Granting

Once ==
  /\ \A p \in posting : p[2] \in republished /\ timesPosted[p[2]] = 0
  /\ \A p, q \in posting : p[2] = q[2] => p = q
  /\ \A r \in Reply : timesPosted[r] <= 1 /\ (timesPosted[r] > 0 => r \in republished)

Settled ==
  \A s \in settled :
    /\ s \in Sub /\ subscription[s] = NoChan
    /\ s \notin pending /\ route[s] # "asking"
    /\ \A c \in Chan : <<s, c>> \notin joining

(* The handler a task is given when it ends belongs to some subscriber. *)
LEMMA IdleTyped == IdleTask.at = "idle" /\ IdleTask.for \in Sub /\ IdleTask.chat = NoChan
  BY SubAssumption DEF IdleTask

(* A step of one task changes that task only, and what it becomes. *)
LEMMA StepTyped ==
  ASSUME TypeOK, NEW t \in Task,
         NEW at \in {"idle", "root", "creating", "inviting", "collecting"},
         NEW chat \in Chan \union {NoChan}, Step(t, at, chat)
  PROVE  /\ tasks' \in [Task -> [at : {"idle", "root", "creating", "inviting", "collecting"},
                                 for : Sub, chat : Chan \union {NoChan}]]
         /\ tasks'[t].at = at /\ tasks'[t].chat = chat
         /\ \A u \in Task \ {t} : tasks'[u] = tasks[u]
  BY ZenonT(60) DEF TypeOK, Step

LEMMA FinishTyped ==
  ASSUME TypeOK, NEW t \in Task, Finish(t)
  PROVE  /\ tasks' \in [Task -> [at : {"idle", "root", "creating", "inviting", "collecting"},
                                 for : Sub, chat : Chan \union {NoChan}]]
         /\ tasks'[t].at = "idle"
         /\ \A u \in Task \ {t} : tasks'[u] = tasks[u]
  BY IdleTyped DEF TypeOK, Finish, IdleTask

(* Dropping handlers only lowers the count. *)
LEMMA FewerOpening ==
  ASSUME Counted, created \in Nat, created' = created, serves' = serves, Opening' \subseteq Opening
  PROVE  Counted'
<1>1. IsFiniteSet(Opening') /\ Cardinality(Opening') <= Cardinality(Opening)
  BY FS_Subset DEF Counted
<1>2. Cardinality(Opening') \in Nat /\ Cardinality(Opening) \in Nat
  BY <1>1, FS_CardinalityType DEF Counted
<1>3. QED BY <1>1, <1>2, BoundsAssumption DEF Counted

(* Initially nothing is under way. *)
LEMMA InitIInv == Init => IInv
<1> SUFFICES ASSUME Init PROVE IInv
  OBVIOUS
<1>1. TypeOK
  BY IdleTyped, SubAssumption, BoundsAssumption DEF Init, TypeOK, Chan, NoChan, IdleTask
<1>2. Opening = {}
  BY IdleTyped DEF Init, Opening
<1>3. Counted
  BY <1>2, FS_EmptySet, BoundsAssumption DEF Init, Counted
<1>4. Granting
  BY IdleTyped DEF Init, Granting
<1>5. QED BY <1>1, <1>3, <1>4 DEF IInv

(* A handler begins: there is one more that may create a channel, and one  *)
(* more delivery.                                                          *)
LEMMA ServeStep ==
  ASSUME IInv, NEW t \in Task, NEW s \in Sub, Serve(t, s) PROVE IInv'
<1> USE DEF IInv
<1>1. TypeOK'
  BY DEF Serve, TypeOK, subVars, netVars, NoChan
<1>2. Opening' = Opening \union {t} /\ t \notin Opening
  BY DEF Serve, Opening, TypeOK, Free
<1>3. IsFiniteSet(Opening') /\ Cardinality(Opening') = Cardinality(Opening) + 1
  BY <1>2, FS_AddElement DEF Counted
<1>4. Cardinality(Opening) \in Nat
  BY FS_CardinalityType DEF Counted
<1>5. Counted'
  BY <1>3, <1>4, BoundsAssumption DEF Counted, Serve, TypeOK
<1>6. Granting'
  BY DEF Granting, Serve, TypeOK
<1>7. QED BY <1>1, <1>5, <1>6

(* A handler finds the channel there is, or is about to create one. *)
LEMMA FindStep ==
  ASSUME IInv, NEW t \in Task, FindChannel(t) PROVE IInv'
<1> USE DEF IInv
<1>1. \E at \in {"creating", "inviting"} :
        /\ at = IF hosted = NoChan THEN "creating" ELSE "inviting"
        /\ Step(t, at, hosted)
  BY DEF FindChannel
<1>2. PICK at \in {"creating", "inviting"} :
        /\ at = IF hosted = NoChan THEN "creating" ELSE "inviting"
        /\ Step(t, at, hosted)
  BY <1>1
<1>3. hosted \in Chan \union {NoChan}
  BY DEF TypeOK
<1>4. /\ tasks' \in [Task -> [at : {"idle", "root", "creating", "inviting", "collecting"},
                              for : Sub, chat : Chan \union {NoChan}]]
      /\ tasks'[t].at = at /\ tasks'[t].chat = hosted
      /\ \A u \in Task \ {t} : tasks'[u] = tasks[u]
  BY <1>2, <1>3, StepTyped
<1>5. TypeOK'
  BY <1>4 DEF TypeOK, FindChannel, subVars, netVars, ghosts
<1>6. Opening' \subseteq Opening
  BY <1>4 DEF Opening, FindChannel
<1>7. Counted'
  BY <1>6, FewerOpening DEF FindChannel, counters, TypeOK
<1>8. Granting'
  BY <1>2, <1>3, <1>4 DEF Granting
<1>9. QED BY <1>5, <1>7, <1>8

(* A channel is created by a handler that counted as one about to. *)
LEMMA CreateStep ==
  ASSUME IInv, NEW t \in Task, CreateChannel(t) PROVE IInv'
<1> USE DEF IInv
<1>1. t \in Opening
  BY DEF CreateChannel, Opening
<1>2. Cardinality(Opening) \in Nat /\ Cardinality(Opening \ {t}) = Cardinality(Opening) - 1
      /\ IsFiniteSet(Opening \ {t}) /\ Cardinality(Opening \ {t}) \in Nat
  BY <1>1, FS_RemoveElement, FS_CardinalityType DEF Counted
<1>3. created + 1 \in Chan
  BY <1>2, BoundsAssumption DEF Counted, TypeOK, Chan
<1>4. /\ tasks' \in [Task -> [at : {"idle", "root", "creating", "inviting", "collecting"},
                              for : Sub, chat : Chan \union {NoChan}]]
      /\ tasks'[t].at = "inviting" /\ tasks'[t].chat = created + 1
      /\ \A u \in Task \ {t} : tasks'[u] = tasks[u]
  BY <1>3, StepTyped DEF CreateChannel
<1>5. TypeOK'
  BY <1>3, <1>4 DEF TypeOK, CreateChannel, subVars, netVars, ghosts, Chan
<1>6. Opening' = Opening \ {t}
  BY <1>4 DEF Opening
<1>7. Counted'
  BY <1>2, <1>6, BoundsAssumption DEF Counted, CreateChannel, counters, TypeOK
<1>8. Granting'
  BY <1>3, <1>4 DEF Granting
<1>9. QED BY <1>5, <1>7, <1>8

(* The grant names the channel of the handler. *)
LEMMA GrantStep ==
  ASSUME IInv, NEW t \in Task, Grant(t) PROVE IInv'
<1> USE DEF IInv
<1>1. tasks[t].chat \in Chan /\ tasks[t].for \in Sub
  BY DEF Granting, Grant, TypeOK
<1>2. /\ tasks' \in [Task -> [at : {"idle", "root", "creating", "inviting", "collecting"},
                              for : Sub, chat : Chan \union {NoChan}]]
      /\ tasks'[t].at = "collecting" /\ tasks'[t].chat = tasks[t].chat
      /\ \A u \in Task \ {t} : tasks'[u] = tasks[u]
  BY <1>1, StepTyped DEF Grant
<1>3. grants' \subseteq Sub \X Chan
  BY <1>1 DEF Grant, TypeOK
<1>4. TypeOK'
  BY <1>2, <1>3 DEF TypeOK, Grant, subVars
<1>5. Opening' \subseteq Opening
  BY <1>2 DEF Opening, Grant
<1>6. Counted'
  BY <1>5, FewerOpening DEF Grant, counters, TypeOK
<1>7. Granting'
  BY <1>1, <1>2 DEF Granting
<1>8. QED BY <1>4, <1>6, <1>7

(* A handler ends, having sent the thread so far or failed. *)
LEMMA EndStep ==
  ASSUME IInv, NEW t \in Task, SendThreadSoFar(t) \/ ServeFails(t) PROVE IInv'
<1> USE DEF IInv
<1>1. /\ tasks' \in [Task -> [at : {"idle", "root", "creating", "inviting", "collecting"},
                              for : Sub, chat : Chan \union {NoChan}]]
      /\ tasks'[t].at = "idle"
      /\ \A u \in Task \ {t} : tasks'[u] = tasks[u]
  BY FinishTyped DEF SendThreadSoFar, ServeFails
<1>2. collectThreadUuids \in SUBSET Reply
  BY MessagesAssumption DEF collectThreadUuids, TypeOK
<1>3. bundles' \subseteq Sub \X SUBSET Reply
  <2>1. tasks[t].for \in Sub
    BY DEF TypeOK
  <2>2. QED BY <1>2, <2>1 DEF SendThreadSoFar, ServeFails, netVars, TypeOK
<1>4. TypeOK'
  BY <1>1, <1>3 DEF TypeOK, SendThreadSoFar, ServeFails, subVars, netVars
<1>5. Opening' \subseteq Opening
  BY <1>1 DEF Opening
<1>6. Counted'
  BY <1>5, FewerOpening DEF SendThreadSoFar, ServeFails, counters, TypeOK
<1>7. Granting'
  BY <1>1 DEF Granting
<1>8. QED BY <1>4, <1>6, <1>7

(* A restart ends every handler. *)
LEMMA RestartStep ==
  ASSUME IInv, RestartHost PROVE IInv'
<1> USE DEF IInv
<1>1. /\ tasks' \in [Task -> [at : {"idle", "root", "creating", "inviting", "collecting"},
                              for : Sub, chat : Chan \union {NoChan}]]
      /\ \A t \in Task : tasks'[t].at = "idle"
  BY IdleTyped DEF RestartHost, IdleTask
<1>2. TypeOK'
  BY <1>1 DEF TypeOK, RestartHost, subVars, netVars
<1>3. Opening' \subseteq Opening
  BY <1>1 DEF Opening
<1>4. Counted'
  BY <1>3, FewerOpening DEF RestartHost, TypeOK
<1>5. Granting'
  BY <1>1 DEF Granting
<1>6. QED BY <1>2, <1>4, <1>5

(* The other steps leave the handlers and the channels alone. *)
LEMMA OtherSteps ==
  ASSUME IInv, TypeOK', tasks' = tasks, created' = created, serves' = serves PROVE IInv'
  BY DEF IInv, Counted, Granting, Opening

(* Every step preserves the types and the count of channels. *)
LEMMA NextIInv == IInv /\ [Next]_vars => IInv'
<1> SUFFICES ASSUME IInv, [Next]_vars PROVE IInv'
  OBVIOUS
<1>1. CASE UNCHANGED vars
  BY <1>1, OtherSteps DEF vars, IInv, TypeOK
<1>2. ASSUME NEW t \in Task, NEW s \in Sub, Serve(t, s) PROVE IInv'
  BY <1>2, ServeStep
<1>3. ASSUME NEW t \in Task,
             FindChannel(t) \/ CreateChannel(t) \/ Grant(t) \/ SendThreadSoFar(t) \/ ServeFails(t)
      PROVE  IInv'
  BY <1>3, FindStep, CreateStep, GrantStep, EndStep
<1>4. ASSUME NEW m \in Message, IngestReply(m) PROVE IInv'
  <2>1. TypeOK'
    <3>1. offering' \subseteq Message \X {"event", "route"}
      BY <1>4 DEF IInv, TypeOK, IngestReply, Republisher
    <3>2. overlooked' \subseteq Sub \X Message
      <4>1. overlooked \subseteq Sub \X Message /\ \A g \in grants : g[1] \in Sub
        BY DEF IInv, TypeOK
      <4>2. Overlook(m) \subseteq Sub \X Message
        BY <4>1 DEF Overlook
      <4>3. overlooked' \subseteq overlooked \union Overlook(m)
        BY <1>4 DEF IngestReply
      <4>4. QED BY <4>1, <4>2, <4>3
    <3>3. QED BY <1>4, <3>1, <3>2 DEF IInv, TypeOK, IngestReply, subVars, netVars, counters
  <2>2. QED BY <1>4, <2>1, OtherSteps DEF IngestReply, counters
<1>5. ASSUME NEW o \in offering, Republish(o) PROVE IInv'
  <2>1. o[1] \in Message
    BY DEF IInv, TypeOK
  <2>2. ReplyOf[o[1]] \in Reply
    BY <2>1, MessagesAssumption
  <2>3. republished' \subseteq Reply /\ posting' \subseteq Chan \X Reply
    BY <1>5, <2>2 DEF IInv, TypeOK, Republish, Marks, Wanted
  <2>4. TypeOK'
    BY <1>5, <2>3 DEF IInv, TypeOK, Republish, subVars, netVars, counters, ghosts
  <2>5. QED BY <1>5, <2>4, OtherSteps DEF Republish, counters
<1>6. ASSUME NEW p \in posting, Post(p) \/ PostFails(p) PROVE IInv'
  <2>1. p[1] \in Chan /\ p[2] \in Reply
    BY DEF IInv, TypeOK
  <2>2. posts' \subseteq Sub \X Chan \X Reply
    <3>1. posts \subseteq Sub \X Chan \X Reply
      BY DEF IInv, TypeOK
    <3>2. \/ posts' = posts
          \/ posts' = posts \union {<<s, p[1], p[2]>> : s \in {u \in Sub : <<u, p[1]>> \in member}}
      BY <1>6 DEF Post, PostFails, netVars
    <3>3. ASSUME NEW s \in Sub PROVE <<s, p[1], p[2]>> \in Sub \X Chan \X Reply
      BY <2>1
    <3>4. \A x \in posts' \ posts : \E s \in Sub : x = <<s, p[1], p[2]>>
      BY <3>2
    <3>5. QED BY <3>1, <3>3, <3>4
  <2>3. timesPosted' \in [Reply -> Nat]
    <3>1. timesPosted \in [Reply -> Nat]
      BY DEF IInv, TypeOK
    <3>2. timesPosted' = timesPosted \/ timesPosted' = [timesPosted EXCEPT ![p[2]] = timesPosted[p[2]] + 1]
      BY <1>6 DEF Post, PostFails
    <3>3. QED BY <2>1, <3>1, <3>2
  <2>4. TypeOK'
    BY <1>6, <2>2, <2>3 DEF IInv, TypeOK, Post, PostFails, subVars, netVars
  <2>5. QED BY <1>6, <2>4, OtherSteps DEF Post, PostFails, counters
<1>7. CASE RestartHost
  BY <1>7, RestartStep
<1>8. ASSUME NEW s \in Sub, Ask(s) \/ NoteRequest(s) \/ Leave(s) \/ Forget(s) \/ RestartSub(s)
      PROVE  IInv'
  <2>1. TypeOK'
    BY <1>8 DEF IInv, TypeOK, Ask, NoteRequest, Leave, Forget, RestartSub, NoChan, hostVars, netVars, counters, ghosts
  <2>2. QED
    BY <1>8, <2>1, OtherSteps DEF Ask, NoteRequest, Leave, Forget, RestartSub, hostVars, counters
<1>9. ASSUME NEW s \in Sub, NEW c \in Chan,
             AcceptGrant(s, c) \/ Joined(s, c) \/ JoinFails(s, c) \/ Admit(s, c)
      PROVE  IInv'
  <2>1. TypeOK'
    BY <1>9 DEF IInv, TypeOK, AcceptGrant, Joined, JoinFails, Admit, hostVars, subVars, netVars, counters, ghosts
  <2>2. QED
    BY <1>9, <2>1, OtherSteps DEF AcceptGrant, Joined, JoinFails, Admit, hostVars, counters
<1>10. QED
  BY <1>1, <1>2, <1>3, <1>4, <1>5, <1>6, <1>7, <1>8, <1>9 DEF Next, HostStep, SubStep

(* The variables keep their types; in particular the host never creates    *)
(* more channels than requests reached it.                                 *)
THEOREM ThreadTypes == Spec => []TypeOK
<1>1. IInv => TypeOK
  BY DEF IInv
<1>2. QED BY InitIInv, NextIInv, <1>1, PTL DEF Spec

-----------------------------------------------------------------------------
(* One post for each reply.                                                *)

LEMMA InitOnce == Init => Once
  BY DEF Init, Once

(* What is posted was marked before, and marked once. *)
LEMMA NextOnce == TypeOK /\ Once /\ [Next]_vars => Once'
<1> SUFFICES ASSUME TypeOK, Once, [Next]_vars PROVE Once'
  OBVIOUS
<1>1. ASSUME UNCHANGED <<republished, posting, timesPosted>> PROVE Once'
  BY <1>1 DEF Once
<1>2. ASSUME NEW o \in offering, Republish(o) PROVE Once'
  <2> DEFINE r == ReplyOf[o[1]]
  <2>1. timesPosted' = timesPosted
    BY <1>2 DEF Republish, ghosts
  <2>2. CASE ~Wanted(o[1])
    BY <1>1, <1>2, <2>1, <2>2 DEF Republish, Marks
  <2>3. CASE Wanted(o[1])
    <3>1. r \notin republished
      BY <2>3 DEF Wanted
    <3>2. republished' = republished \union {r} /\ posting' = posting \union {<<hosted, r>>}
      BY <1>2, <2>3 DEF Republish, Marks
    <3>3. r \in Reply
      BY MessagesAssumption DEF TypeOK
    <3>4. timesPosted[r] = 0
      BY <3>1, <3>3 DEF Once, TypeOK
    <3>5. \A p \in posting : p[2] # r
      BY <3>1 DEF Once
    <3> HIDE DEF r
    <3>6. QED BY <2>1, <3>2, <3>4, <3>5 DEF Once
  <2>4. QED BY <2>2, <2>3
<1>3. ASSUME NEW p \in posting, Post(p) PROVE Once'
  <2>1. p[2] \in Reply /\ p[2] \in republished /\ timesPosted[p[2]] = 0
    BY DEF Once, TypeOK
  <2>2. \A q \in posting \ {p} : q[2] # p[2]
    BY DEF Once
  <2>3. /\ republished' = republished /\ posting' = posting \ {p}
        /\ timesPosted' = [timesPosted EXCEPT ![p[2]] = timesPosted[p[2]] + 1]
    BY <1>3 DEF Post
  <2>4. \A r \in Reply : timesPosted'[r] = IF r = p[2] THEN 1 ELSE timesPosted[r]
    BY <2>1, <2>3 DEF TypeOK
  <2>5. \A q \in posting' : q[2] \in Reply
    BY <2>3 DEF TypeOK
  <2>6. QED BY <2>1, <2>2, <2>3, <2>4, <2>5 DEF Once
<1>4. ASSUME NEW p \in posting, PostFails(p) PROVE Once'
  BY <1>4 DEF Once, PostFails
<1>5. CASE RestartHost
  BY <1>5 DEF Once, RestartHost
<1>6. ASSUME NEW t \in Task,
             \/ \E s \in Sub : Serve(t, s)
             \/ FindChannel(t) \/ CreateChannel(t) \/ Grant(t) \/ SendThreadSoFar(t) \/ ServeFails(t)
      PROVE  Once'
  BY <1>1, <1>6 DEF Serve, FindChannel, CreateChannel, Grant, SendThreadSoFar, ServeFails, ghosts
<1>7. ASSUME NEW m \in Message, IngestReply(m) PROVE Once'
  BY <1>1, <1>7 DEF IngestReply, ghosts
<1>8. ASSUME NEW s \in Sub, SubStep(s) PROVE Once'
  BY <1>1, <1>8 DEF SubStep, Ask, NoteRequest, Leave, Forget, RestartSub, AcceptGrant, Joined, JoinFails,
                    Admit, hostVars, ghosts
<1>9. CASE UNCHANGED vars
  BY <1>1, <1>9 DEF vars
<1>10. QED
  BY <1>2, <1>3, <1>4, <1>5, <1>6, <1>7, <1>8, <1>9 DEF Next, HostStep

(* A reply goes to the channel at most once, however many messages bring   *)
(* it, handlers meet it and restarts fall between (republishReplyToThread).*)
THEOREM ThreadRepublishesOnce == Spec => []RepublishedOnce
<1>1. Once => RepublishedOnce
  BY DEF Once, RepublishedOnce
<1>2. QED BY ThreadTypes, InitOnce, NextOnce, <1>1, PTL DEF Spec

-----------------------------------------------------------------------------
(* Who left in peace is not brought back.                                  *)

LEMMA InitSettled == Init => Settled
  BY DEF Init, Settled

LEMMA NextSettled == TypeOK /\ Settled /\ [Next]_vars => Settled'
<1> SUFFICES ASSUME TypeOK, Settled, [Next]_vars PROVE Settled'
  OBVIOUS
<1>1. ASSUME UNCHANGED <<settled, subscription, pending, route, joining>> PROVE Settled'
  BY <1>1 DEF Settled
<1>2. ASSUME NEW s \in Sub, Ask(s) PROVE Settled'
  BY <1>2 DEF Ask, Settled, TypeOK
<1>3. ASSUME NEW s \in Sub, NoteRequest(s) PROVE Settled'
  BY <1>3 DEF NoteRequest, Settled, TypeOK, ghosts
<1>4. ASSUME NEW s \in Sub, Leave(s) PROVE Settled'
  BY <1>4 DEF Leave, Settled, TypeOK, ghosts
<1>5. ASSUME NEW s \in Sub, Forget(s) PROVE Settled'
  BY <1>5 DEF Forget, Settled, TypeOK
<1>6. ASSUME NEW s \in Sub, RestartSub(s) PROVE Settled'
  BY <1>6 DEF RestartSub, Settled, TypeOK, ghosts
<1>7. ASSUME NEW s \in Sub, NEW c \in Chan, AcceptGrant(s, c) PROVE Settled'
  BY <1>7 DEF AcceptGrant, Solicited, Settled, ghosts
<1>8. ASSUME NEW s \in Sub, NEW c \in Chan, Joined(s, c) \/ JoinFails(s, c) PROVE Settled'
  BY <1>8 DEF Joined, JoinFails, Settled, TypeOK, ghosts
<1>9. ASSUME NEW s \in Sub, NEW c \in Chan, Admit(s, c) PROVE Settled'
  BY <1>1, <1>9 DEF Admit, subVars, ghosts
<1>10. CASE HostStep
  BY <1>1, <1>10 DEF HostStep, Serve, FindChannel, CreateChannel, Grant, SendThreadSoFar, ServeFails,
                     IngestReply, Republish, Post, PostFails, RestartHost, subVars, ghosts
<1>11. CASE UNCHANGED vars
  BY <1>1, <1>11 DEF vars
<1>12. QED
  BY <1>2, <1>3, <1>4, <1>5, <1>6, <1>7, <1>8, <1>9, <1>10, <1>11 DEF Next, SubStep

(* A subscription that was given up with no request, join or grant of its  *)
(* own under way does not come back by any delivery of an old grant        *)
(* (handleThreadInviteGrant, and the DELETE route).                        *)
THEOREM ThreadStaysUnsubscribed == Spec => []UnsubscribedStaysSo
<1>1. Settled => UnsubscribedStaysSo
  BY DEF Settled, UnsubscribedStaysSo
<1>2. QED BY ThreadTypes, InitSettled, NextSettled, <1>1, PTL DEF Spec

-----------------------------------------------------------------------------
(* Nothing falls between the thread so far and the channel.                *)

\* The replies the host looked at before it had a channel: no post brings them.
Early ==
  {m \in ingested :
     /\ Copy[m] # "dm" /\ ReplyOf[m] \notin republished \union lost
     /\ \A o \in offering : o[1] # m}

Collecting(s) == \E t \in Task : tasks[t].at = "collecting" /\ tasks[t].for = s
Bundled(s, r) == \E b \in bundles : b[1] = s /\ r \in b[2]

\* Nobody is granted a channel there is not.
Unopened ==
  hosted = NoChan => grants = {} /\ \A t \in Task : tasks[t].at \notin {"inviting", "collecting"}

\* Nobody is subscribed but by a grant.
Granted ==
  /\ joining \subseteq grants
  /\ \A s \in Sub : subscription[s] # NoChan => <<s, subscription[s]>> \in grants

\* A marked reply is given to a channel, or known to be lost.
Accounted ==
  \A r \in republished : timesPosted[r] > 0 \/ r \in lost \/ \E p \in posting : p[2] = r

\* Whoever was granted a channel was sent what came before it, or is about to be, but
\* for what came when it had been granted and nobody passed on.
Telling(s, m) ==
  s \in cut \/ Collecting(s) \/ Bundled(s, ReplyOf[m]) \/ <<s, m>> \in overlooked
Told == \A g \in grants, m \in Early : Telling(g[1], m)

Follows == Unopened /\ Granted /\ Accounted /\ Told

LEMMA InitFollows == Init => Follows
  BY IdleTyped DEF Init, Follows, Unopened, Granted, Accounted, Told, Early

(* A step that neither grants nor meets a reply can only tell more. *)
LEMMA TellsMore ==
  ASSUME Told, grants' \subseteq grants, Early' \subseteq Early, cut \subseteq cut', bundles \subseteq bundles',
         overlooked \subseteq overlooked',
         \A s \in Sub : Collecting(s) => s \in cut' \/ Collecting(s)',
         \A g \in grants : g[1] \in Sub
  PROVE  Told'
<1> SUFFICES ASSUME NEW g \in grants', NEW m \in Early'
             PROVE  Telling(g[1], m)'
  BY DEF Told
<1>1. Telling(g[1], m)
  BY DEF Told
<1>2. Bundled(g[1], ReplyOf[m]) => Bundled(g[1], ReplyOf[m])'
  BY DEF Bundled
<1>3. QED BY <1>1, <1>2 DEF Telling

(* The set of the early replies depends on what the host does only. *)
LEMMA SameEarly ==
  ASSUME UNCHANGED <<ingested, republished, offering>>, lost \subseteq lost'
  PROVE  Early' \subseteq Early
  BY DEF Early

(* The tasks: the thread so far holds all the host has met when it is sent.*)
LEMMA TaskFollows ==
  ASSUME IInv, Follows, NEW t \in Task,
         \/ \E s \in Sub : Serve(t, s)
         \/ FindChannel(t) \/ CreateChannel(t) \/ Grant(t) \/ SendThreadSoFar(t) \/ ServeFails(t)
  PROVE  Follows'
<1> USE DEF IInv, Follows
<1>1. /\ UNCHANGED <<ingested, republished, offering, posting, timesPosted, lost, overlooked>>
      /\ UNCHANGED <<subscription, joining>>
      /\ grants \subseteq grants' /\ cut \subseteq cut' /\ bundles \subseteq bundles'
  BY DEF Serve, FindChannel, CreateChannel, Grant, SendThreadSoFar, ServeFails, subVars, netVars, ghosts
<1>2. Granted' /\ Accounted'
  BY <1>1 DEF Granted, Accounted
<1>3. Early' = Early
  BY <1>1 DEF Early
<1>4. \A g \in grants : g[1] \in Sub
  BY DEF TypeOK
<1>5. CASE \E s \in Sub : Serve(t, s)
  <2>1. PICK s \in Sub : Serve(t, s)
    BY <1>5
  <2>2. tasks'[t].at = "root" /\ \A u \in Task \ {t} : tasks'[u] = tasks[u]
    BY <2>1 DEF Serve, TypeOK
  <2>3. tasks[t].at = "idle" /\ UNCHANGED <<hosted, grants>>
    BY <2>1 DEF Serve, Free, netVars
  <2>4. Unopened'
    BY <2>2, <2>3 DEF Unopened
  <2>5. \A z \in Sub : Collecting(z) => Collecting(z)'
    BY <2>2, <2>3 DEF Collecting
  <2>6. Told'
    BY <1>1, <1>3, <1>4, <2>3, <2>5, TellsMore
  <2>7. QED BY <1>2, <2>4, <2>6
<1>6. CASE FindChannel(t)
  <2>1. /\ tasks[t].at = "root" /\ UNCHANGED <<hosted, grants>>
        /\ tasks'[t].at = IF hosted = NoChan THEN "creating" ELSE "inviting"
        /\ \A u \in Task \ {t} : tasks'[u] = tasks[u]
    BY <1>6 DEF FindChannel, Step, netVars, TypeOK
  <2>2. Unopened'
    BY <2>1 DEF Unopened
  <2>3. \A z \in Sub : Collecting(z) => Collecting(z)'
    BY <2>1 DEF Collecting
  <2>4. Told'
    BY <1>1, <1>3, <1>4, <2>1, <2>3, TellsMore
  <2>5. QED BY <1>2, <2>2, <2>4
<1>7. CASE CreateChannel(t)
  <2>1. /\ tasks[t].at = "creating" /\ hosted' = created + 1 /\ UNCHANGED grants
        /\ \A u \in Task \ {t} : tasks'[u] = tasks[u]
    BY <1>7 DEF CreateChannel, Step, netVars, TypeOK
  <2>2. hosted' # NoChan
    BY <2>1, BoundsAssumption DEF TypeOK, NoChan
  <2>3. Unopened'
    BY <2>2 DEF Unopened
  <2>4. \A z \in Sub : Collecting(z) => Collecting(z)'
    BY <2>1 DEF Collecting
  <2>5. Told'
    BY <1>1, <1>3, <1>4, <2>1, <2>4, TellsMore
  <2>6. QED BY <1>2, <2>3, <2>5
<1>8. CASE Grant(t)
  <2>1. /\ tasks[t].at = "inviting" /\ UNCHANGED <<hosted, bundles>>
        /\ tasks'[t].at = "collecting" /\ tasks'[t].for = tasks[t].for
        /\ \A u \in Task \ {t} : tasks'[u] = tasks[u]
    BY <1>8 DEF Grant, Step, TypeOK
  <2>2. grants' \subseteq grants \union {<<tasks[t].for, tasks[t].chat>>}
    BY <1>8 DEF Grant
  <2>3. hosted' # NoChan
    BY <2>1 DEF Unopened
  <2>4. Unopened'
    BY <2>3 DEF Unopened
  <2>5. \A z \in Sub : Collecting(z) => Collecting(z)'
    BY <2>1 DEF Collecting
  <2>6. \A z \in Sub : z = tasks[t].for => Collecting(z)'
    BY <2>1 DEF Collecting
  <2>7. ASSUME NEW g \in grants', NEW m \in Early'
        PROVE  Telling(g[1], m)'
    <3>1. CASE g \in grants
      <4>1. Telling(g[1], m)
        BY <1>3, <3>1 DEF Told
      <4>2. Bundled(g[1], ReplyOf[m]) => Bundled(g[1], ReplyOf[m])'
        BY <2>1 DEF Bundled
      <4>3. QED BY <1>1, <1>4, <2>5, <3>1, <4>1, <4>2 DEF Telling
    <3>2. CASE g = <<tasks[t].for, tasks[t].chat>>
      <4>1. g[1] = tasks[t].for /\ g[1] \in Sub
        BY <3>2 DEF TypeOK
      <4>2. QED BY <2>6, <4>1 DEF Telling
    <3>3. QED BY <2>2, <3>1, <3>2
  <2>8. QED BY <1>2, <2>4, <2>7 DEF Told
<1>9. CASE SendThreadSoFar(t)
  <2>1. /\ tasks[t].at = "collecting" /\ UNCHANGED <<hosted, grants>>
        /\ tasks'[t].at = "idle" /\ \A u \in Task \ {t} : tasks'[u] = tasks[u]
    BY <1>9, FinishTyped DEF SendThreadSoFar
  <2>2. Unopened'
    BY <2>1 DEF Unopened
  <2>3. tasks[t].for \in cut' \/ <<tasks[t].for, collectThreadUuids>> \in bundles'
    BY <1>9 DEF SendThreadSoFar
  <2>4. \A m \in Early : ReplyOf[m] \in collectThreadUuids
    BY DEF Early, collectThreadUuids
  <2>5. ASSUME NEW g \in grants', NEW m \in Early'
        PROVE  Telling(g[1], m)'
    <3>1. Telling(g[1], m)
      BY <1>3, <2>1 DEF Told
    <3>2. Bundled(g[1], ReplyOf[m]) => Bundled(g[1], ReplyOf[m])'
      BY <1>1 DEF Bundled
    <3>3. CASE Collecting(g[1])
      <4>1. PICK u \in Task : tasks[u].at = "collecting" /\ tasks[u].for = g[1]
        BY <3>3 DEF Collecting
      <4>2. u # t => Collecting(g[1])'
        BY <2>1, <4>1 DEF Collecting
      <4>3. u = t => g[1] \in cut' \/ Bundled(g[1], ReplyOf[m])'
        BY <1>3, <2>3, <2>4, <4>1 DEF Bundled
      <4>4. QED BY <4>2, <4>3 DEF Telling
    <3>4. QED BY <1>1, <3>1, <3>2, <3>3 DEF Telling
  <2>6. QED BY <1>2, <2>2, <2>5 DEF Told
<1>10. CASE ServeFails(t)
  <2>1. /\ tasks[t].at # "collecting" /\ UNCHANGED <<hosted, grants>>
        /\ tasks'[t].at = "idle" /\ \A u \in Task \ {t} : tasks'[u] = tasks[u]
    BY <1>10, FinishTyped DEF ServeFails, netVars
  <2>2. Unopened'
    BY <2>1 DEF Unopened
  <2>3. \A z \in Sub : Collecting(z) => Collecting(z)'
    BY <2>1 DEF Collecting
  <2>4. Told'
    BY <1>1, <1>3, <1>4, <2>1, <2>3, TellsMore
  <2>5. QED BY <1>2, <2>2, <2>4
<1>11. QED BY <1>5, <1>6, <1>7, <1>8, <1>9, <1>10

(* The replies: one becomes early only while there is no channel, and then *)
(* nobody has been granted one.                                            *)
LEMMA ReplyFollows ==
  ASSUME IInv, Follows,
         \/ \E m \in Message : IngestReply(m)
         \/ \E o \in offering : Republish(o)
         \/ \E p \in posting : Post(p) \/ PostFails(p)
  PROVE  Follows'
<1> USE DEF IInv, Follows
<1>1. /\ UNCHANGED <<hosted, tasks, grants, bundles, subscription, joining, cut>>
      /\ lost \subseteq lost' /\ overlooked \subseteq overlooked'
  BY DEF IngestReply, Republish, Post, PostFails, subVars, netVars, ghosts
<1>2. Unopened' /\ Granted'
  BY <1>1 DEF Unopened, Granted
<1>3. \A s \in Sub : Collecting(s) => Collecting(s)'
  BY <1>1 DEF Collecting
<1>4. \A g \in grants : g[1] \in Sub
  BY DEF TypeOK
<1>5. CASE \E m \in Message : IngestReply(m)
  <2>1. PICK m \in Message : IngestReply(m)
    BY <1>5
  <2>2. /\ UNCHANGED <<republished, posting, timesPosted, lost>>
        /\ ingested' = ingested \union {m} /\ offering \subseteq offering'
    BY <2>1 DEF IngestReply
  <2>3. Accounted'
    BY <2>2 DEF Accounted
  <2>4. CASE overlooked' = overlooked \union Overlook(m)
    <3> SUFFICES ASSUME NEW g \in grants', NEW n \in Early' PROVE Telling(g[1], n)'
      BY <1>2, <2>3 DEF Told
    <3>1. CASE n = m
      <4>1. Copy[m] # "dm" /\ g \in grants
        BY <1>1, <3>1 DEF Early
      <4>2. <<g[1], m>> \in Overlook(m)
        BY <4>1 DEF Overlook
      <4>3. QED BY <2>4, <3>1, <4>2 DEF Telling
    <3>2. CASE n # m
      <4>1. n \in Early
        BY <2>2, <3>2 DEF Early
      <4>2. Telling(g[1], n)
        BY <1>1, <4>1 DEF Told
      <4>3. Bundled(g[1], ReplyOf[n]) => Bundled(g[1], ReplyOf[n])'
        BY <1>1 DEF Bundled
      <4>4. Collecting(g[1]) => Collecting(g[1])'
        BY <1>1 DEF Collecting
      <4>5. QED BY <1>1, <4>2, <4>3, <4>4 DEF Telling
    <3>3. QED BY <3>1, <3>2
  <2>5. CASE \E offers \in (SUBSET Republisher(m)) \ {{}} : offering' = offering \union offers
    <3>1. PICK offers \in (SUBSET Republisher(m)) \ {{}} : offering' = offering \union offers
      BY <2>5
    <3>2. PICK o \in offers : o[1] = m
      BY DEF Republisher
    <3>3. Early' \subseteq Early
      BY <2>2, <3>1, <3>2 DEF Early
    <3>4. QED BY <1>1, <1>2, <1>3, <1>4, <2>3, <3>3, TellsMore
  <2>6. QED BY <2>1, <2>4, <2>5 DEF IngestReply
<1>6. CASE \E o \in offering : Republish(o)
  <2>1. PICK o \in offering : Republish(o)
    BY <1>6
  <2>2. /\ UNCHANGED <<ingested, timesPosted, lost>> /\ offering' = offering \ {o}
        /\ republished' = republished \union Marks(o[1]) /\ posting \subseteq posting'
    BY <2>1 DEF Republish, ghosts
  <2>3. Wanted(o[1]) => <<hosted, ReplyOf[o[1]]>> \in posting' /\ Marks(o[1]) = {ReplyOf[o[1]]}
    BY <2>1 DEF Republish, Marks
  <2>4. ~Wanted(o[1]) => Marks(o[1]) = {}
    BY DEF Marks
  <2>5. Accounted'
    BY <2>2, <2>3, <2>4 DEF Accounted
  <2>6. CASE hosted = NoChan
    BY <1>1, <1>2, <2>5, <2>6 DEF Unopened, Told
  <2>7. CASE hosted # NoChan
    <3>1. Copy[o[1]] # "dm" => ReplyOf[o[1]] \in republished'
      BY <2>2, <2>3, <2>7 DEF Wanted
    <3>2. Early' \subseteq Early
      BY <2>2, <3>1 DEF Early
    <3>3. QED BY <1>1, <1>2, <1>3, <1>4, <2>5, <3>2, TellsMore
  <2>8. QED BY <2>6, <2>7
<1>7. CASE \E p \in posting : Post(p) \/ PostFails(p)
  <2>1. PICK p \in posting : Post(p) \/ PostFails(p)
    BY <1>7
  <2>2. UNCHANGED <<ingested, republished, offering>> /\ posting' = posting \ {p} /\ p[2] \in Reply
    BY <2>1 DEF Post, PostFails, TypeOK
  <2>3. \A r \in republished : timesPosted[r] > 0 => timesPosted'[r] > 0
    <3>1. CASE Post(p)
      <4>1. \A r \in Reply : timesPosted'[r] = IF r = p[2] THEN timesPosted[r] + 1 ELSE timesPosted[r]
        BY <2>2, <3>1 DEF Post, TypeOK
      <4>2. \A r \in Reply : timesPosted[r] \in Nat
        BY DEF TypeOK
      <4>3. QED BY <4>1, <4>2 DEF TypeOK
    <3>2. CASE PostFails(p)
      BY <3>2 DEF PostFails
    <3>3. QED BY <2>1, <3>1, <3>2
  <2>4. timesPosted'[p[2]] > 0 \/ p[2] \in lost'
    BY <2>1, <2>2 DEF Post, PostFails, TypeOK
  <2>5. Accounted'
    <3> SUFFICES ASSUME NEW r \in republished
                 PROVE  timesPosted'[r] > 0 \/ r \in lost' \/ \E q \in posting' : q[2] = r
      BY <2>2 DEF Accounted
    <3>1. CASE r = p[2]
      BY <2>4, <3>1
    <3>2. CASE r # p[2]
      BY <1>1, <2>2, <2>3, <3>2 DEF Accounted
    <3>3. QED BY <3>1, <3>2
  <2>6. Early' \subseteq Early
    BY <1>1, <2>2, SameEarly
  <2>7. QED BY <1>1, <1>2, <1>3, <1>4, <2>5, <2>6, TellsMore
<1>8. QED BY <1>5, <1>6, <1>7

(* A restart of the host cuts its handlers off, and says whose they were.  *)
LEMMA RestartFollows ==
  ASSUME IInv, Follows, RestartHost PROVE Follows'
<1> USE DEF IInv, Follows
<1>1. UNCHANGED <<hosted, ingested, republished, timesPosted, overlooked, grants, bundles, subscription, joining>>
  BY DEF RestartHost, subVars, netVars
<1>2. \A t \in Task : tasks'[t].at = "idle"
  BY IdleTyped DEF RestartHost
<1>3. Unopened' /\ Granted'
  BY <1>1, <1>2 DEF Unopened, Granted
<1>4. /\ \A p \in posting : p[2] \in lost'
      /\ \A o \in offering : Copy[o[1]] # "dm" => ReplyOf[o[1]] \in lost'
      /\ lost \subseteq lost' /\ cut \subseteq cut'
      /\ \A t \in Task : tasks[t].at # "idle" => tasks[t].for \in cut'
  BY DEF RestartHost, Free
<1>5. Accounted'
  BY <1>1, <1>4 DEF Accounted
<1>6. Early' \subseteq Early
  BY <1>1, <1>4 DEF Early
<1>7. \A s \in Sub : Collecting(s) => s \in cut'
  BY <1>4 DEF Collecting
<1>8. \A g \in grants : g[1] \in Sub
  BY DEF TypeOK
<1>9. Told'
  BY <1>1, <1>4, <1>6, <1>7, <1>8, TellsMore
<1>10. QED BY <1>3, <1>5, <1>9

(* The subscriber is subscribed by what it was granted. *)
LEMMA SubFollows ==
  ASSUME IInv, Follows, NEW s \in Sub, SubStep(s) PROVE Follows'
<1> USE DEF IInv, Follows
<1>1. /\ UNCHANGED <<hosted, ingested, republished, offering, posting, tasks>>
      /\ UNCHANGED <<timesPosted, lost, overlooked, cut, grants, bundles>>
  BY DEF SubStep, Ask, NoteRequest, Leave, Forget, RestartSub, AcceptGrant, Joined, JoinFails, Admit,
         hostVars, netVars, ghosts
<1>2. Unopened' /\ Accounted'
  BY <1>1 DEF Unopened, Accounted
<1>3. Told'
  BY <1>1 DEF Told, Telling, Early, Collecting, Bundled
<1>4. ASSUME joining' \subseteq joining, subscription' = subscription PROVE Granted'
  BY <1>1, <1>4 DEF Granted
<1>5. CASE Ask(s) \/ NoteRequest(s) \/ Leave(s) \/ RestartSub(s)
  <2>1. subscription' = subscription
    BY <1>5 DEF Ask, NoteRequest, Leave, RestartSub
  <2>2. joining' \subseteq joining
    BY <1>5 DEF Ask, NoteRequest, Leave, RestartSub
  <2>3. QED BY <1>2, <1>3, <1>4, <2>1, <2>2
<1>6. CASE Forget(s)
  <2>1. joining' = joining /\ subscription' = [subscription EXCEPT ![s] = NoChan]
    BY <1>6 DEF Forget
  <2>2. \A z \in Sub : subscription'[z] # NoChan => subscription'[z] = subscription[z]
    BY <2>1 DEF TypeOK
  <2>3. Granted'
    BY <1>1, <2>1, <2>2 DEF Granted
  <2>4. QED BY <1>2, <1>3, <2>3
<1>7. ASSUME NEW c \in Chan, AcceptGrant(s, c) PROVE Granted'
  BY <1>1, <1>7 DEF AcceptGrant, Granted
<1>8. ASSUME NEW c \in Chan, Joined(s, c) PROVE Granted'
  <2>1. /\ joining' = joining \ {<<s, c>>} /\ <<s, c>> \in grants
        /\ subscription' = [subscription EXCEPT ![s] = c]
    BY <1>8 DEF Joined, Granted
  <2>2. QED BY <1>1, <2>1 DEF Granted, TypeOK
<1>9. ASSUME NEW c \in Chan, JoinFails(s, c) \/ Admit(s, c) PROVE Granted'
  BY <1>4, <1>9 DEF JoinFails, Admit, subVars
<1>10. QED BY <1>2, <1>3, <1>5, <1>6, <1>7, <1>8, <1>9 DEF SubStep

LEMMA NextFollows == IInv /\ Follows /\ [Next]_vars => Follows'
<1> SUFFICES ASSUME IInv, Follows, [Next]_vars PROVE Follows'
  OBVIOUS
<1>1. CASE UNCHANGED vars
  BY <1>1 DEF vars, Follows, Unopened, Granted, Accounted, Told, Telling, Early, Collecting, Bundled
<1>2. CASE HostStep
  BY <1>2, TaskFollows, ReplyFollows, RestartFollows DEF HostStep
<1>3. ASSUME NEW s \in Sub, SubStep(s) PROVE Follows'
  BY <1>3, SubFollows
<1>4. QED BY <1>1, <1>2, <1>3 DEF Next

(* What is neither under way nor lost was posted, or was early, and then   *)
(* it is in what the grant was followed by.                                *)
LEMMA FollowsMissNothing == TypeOK /\ Follows => NothingElseMissed
<1> SUFFICES ASSUME TypeOK, Follows, NEW s \in Sub, NEW m \in ingested,
                    Copy[m] # "dm", subscription[s] = hosted, hosted # NoChan,
                    ~BeingServed(s), ~UnderWay(ReplyOf[m])
             PROVE  \/ ReplyOf[m] \in Sent(s) \union lost
                    \/ PostedBefore(s, ReplyOf[m]) \/ s \in cut \/ <<s, m>> \in overlooked
  BY DEF NothingElseMissed
<1> DEFINE r == ReplyOf[m]
<1>1. \A o \in offering : o[1] # m
  BY DEF UnderWay
<1>2. CASE r \in republished
  <2>1. timesPosted[r] > 0 \/ r \in lost
    BY <1>2 DEF Follows, Accounted, UnderWay
  <2>2. <<s, hosted, r>> \in posts => r \in Sent(s)
    <3> SUFFICES ASSUME <<s, hosted, r>> \in posts PROVE r \in Sent(s)
      OBVIOUS
    <3>1. <<s, hosted, r>> \in {x \in posts : x[1] = s /\ x[2] = subscription[s]}
      OBVIOUS
    <3>2. <<s, hosted, r>>[3] = r
      OBVIOUS
    <3>3. r \in {x[3] : x \in {y \in posts : y[1] = s /\ y[2] = subscription[s]}}
      BY <3>1, <3>2
    <3>4. QED BY <3>3 DEF Sent
  <2>3. QED BY <2>1, <2>2 DEF PostedBefore
<1>3. CASE r \notin republished /\ r \notin lost
  <2>1. m \in Early
    BY <1>1, <1>3 DEF Early
  <2>2. <<s, hosted>> \in grants
    BY DEF Follows, Granted
  <2>3. <<s, hosted>>[1] = s
    OBVIOUS
  <2>4. s \in cut \/ Collecting(s) \/ Bundled(s, r) \/ <<s, m>> \in overlooked
    BY <2>1, <2>2, <2>3 DEF Follows, Told, Telling
  <2>5. ~Collecting(s)
    BY DEF Collecting, BeingServed, Free
  <2>6. Bundled(s, r) => r \in Sent(s)
    BY DEF Bundled, Sent
  <2>7. QED BY <2>4, <2>5, <2>6
<1>4. CASE r \in lost
  BY <1>4
<1>5. QED BY <1>2, <1>3, <1>4

(* A subscriber is sent every reply the host has for the channel, by the   *)
(* bundle that follows its grant or by a post, but for the exceptions the  *)
(* property names, of which one is that nobody passed the reply on when it *)
(* was first ingested (handleThreadInviteRequest against daemon.ts 629 and *)
(* republishReplyToThread).                                                *)
THEOREM ThreadMissesNothing == Spec => []NothingElseMissed
<1>1. Init => IInv /\ Follows
  BY InitIInv, InitFollows
<1>2. (IInv /\ Follows) /\ [Next]_vars => (IInv /\ Follows)'
  BY NextIInv, NextFollows
<1>3. IInv /\ Follows => NothingElseMissed
  BY FollowsMissNothing DEF IInv
<1>4. QED BY <1>1, <1>2, <1>3, PTL DEF Spec
=============================================================================
