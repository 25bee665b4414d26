---------------------------- MODULE ThreadChannels ----------------------------
(***************************************************************************)
(* Following one thread: thread-subscribe.ts, thread-collect.ts, the part  *)
(* of the ingest hook that calls them, and the subscribe routes.           *)
(*                                                                         *)
(* A subscriber asks the host of the thread by a control DM and notes that *)
(* it asked.  The host creates the thread's broadcast channel when it has  *)
(* none, answers with a grant that carries the channel's invite link, and  *)
(* sends the thread so far.  The subscriber joins on a grant it waits for, *)
(* and from then on takes the bundles that arrive on that channel.  A      *)
(* reply the hook is the first to ingest from a feed, and a reply of the   *)
(* host's own, is posted to the channel once; what a route or the sweep    *)
(* ingests first is not.                                                   *)
(*                                                                         *)
(* The thread is one whose root the host holds and may serve.  What was    *)
(* sent may be delivered any number of times, late, in any order or never: *)
(* core reports one message by several events, routes ingest what they     *)
(* show, and neither handler looks at freshness.  A handler runs until it  *)
(* awaits; a restart drops the handlers and keeps the store.               *)
(***************************************************************************)
EXTENDS Naturals, FiniteSets

CONSTANTS
  Sub,          \* the subscribing nodes
  Reply,        \* the replies of the thread, by uuid
  Message,      \* the messages that bring them to the host
  ReplyOf,      \* the reply a message carries
  Copy,         \* how it came: "feed", "dm", or "own", written by the host
  Casts,        \* which messages are sent: one of these sets
  Task,         \* bound: request handlers under way at once
  MaxServes,    \* bound: deliveries of requests to the host
  MaxAsks,      \* bound: subscribe requests of each subscriber
  MaxRestarts   \* bound: restarts, of all nodes together

ASSUME MessagesAssumption ==
  /\ ReplyOf \in [Message -> Reply]
  /\ Copy \in [Message -> {"feed", "dm", "own"}]
  /\ Casts \subseteq SUBSET Message
ASSUME SubAssumption == Sub # {}
ASSUME BoundsAssumption == {MaxServes, MaxAsks, MaxRestarts} \subseteq Nat

Chan == 1..MaxServes
NoChan == 0
IdleTask == [at |-> "idle", for |-> CHOOSE s \in Sub : TRUE, chat |-> NoChan]

VARIABLES
  cast,         \* the messages that are sent
  hosted,       \* host store: hostedThreads of the root
  created,      \* how many channels the host's core has created
  ingested,     \* host store: the messages met, hence the reply graph
  republished,  \* host store: republishedUuids
  tasks,        \* host: the request handlers under way
  offering,     \* host: replies on their way to republishReplyToThread
  posting,      \* host: posts awaited, as <<channel, reply>>
  pending,      \* subscriber store: pendingThreadRequests
  subscription, \* subscriber store: threadSubscriptions
  route,        \* the subscriber's route under way: "none", "asking", "leaving"
  joining,      \* <<subscriber, channel>>: joins awaited
  begun,        \* joins whose handshake the subscriber's core goes on with
  member,       \* joins the host's core has completed
  requests,     \* sent: the subscribers that asked
  grants,       \* sent: <<subscriber, channel>>
  bundles,      \* sent: <<subscriber, set of replies>>
  posts,        \* sent: <<subscriber, channel, reply>>
  serves, asks, restarts,
  timesPosted,  \* ghost: how often each reply was given to a channel
  lost,         \* ghost: replies marked whose post failed or was cut off
  overlooked,   \* ghost: <<subscriber granted already, message not passed on>>
  cut,          \* ghost: subscribers one of whose requests was not fully served
  settled,      \* ghost: subscribers whose last unsubscribing raced nothing
  wants         \* ghost: whether the user asked to be subscribed

hostVars == <<cast, hosted, created, ingested, republished, tasks, offering, posting>>
subVars == <<pending, subscription, route, joining>>
netVars == <<begun, member, requests, grants, bundles, posts>>
counters == <<serves, asks, restarts>>
ghosts == <<timesPosted, lost, overlooked, cut, settled, wants>>
vars == <<cast, hosted, created, ingested, republished, tasks, offering, posting,
          pending, subscription, route, joining,
          begun, member, requests, grants, bundles, posts, serves, asks, restarts,
          timesPosted, lost, overlooked, cut, settled, wants>>

Init ==
  /\ cast \in Casts
  /\ hosted = NoChan /\ created = 0
  /\ ingested = {} /\ republished = {}
  /\ tasks = [t \in Task |-> IdleTask]
  /\ offering = {} /\ posting = {}
  /\ pending = {}
  /\ subscription = [s \in Sub |-> NoChan]
  /\ route = [s \in Sub |-> "none"]
  /\ joining = {} /\ begun = {} /\ member = {}
  /\ requests = {} /\ grants = {} /\ bundles = {} /\ posts = {}
  /\ serves = 0 /\ asks = [s \in Sub |-> 0] /\ restarts = 0
  /\ timesPosted = [r \in Reply |-> 0]
  /\ lost = {} /\ overlooked = {} /\ cut = {}
  /\ settled = {} /\ wants = {}

-----------------------------------------------------------------------------
(* The host answers a request.                                             *)

Free(t) == tasks[t].at = "idle"
Step(t, at, chat) == tasks' = [tasks EXCEPT ![t].at = at, ![t].chat = chat]
Finish(t) == tasks' = [tasks EXCEPT ![t] = IdleTask]

collectThreadUuids == {ReplyOf[m] : m \in ingested}

\* A delivery of a request: the handler first awaits the message of the root.
Serve(t, s) ==
  /\ Free(t) /\ s \in requests
  /\ serves < MaxServes
  /\ serves' = serves + 1
  /\ tasks' = [tasks EXCEPT ![t] = [at |-> "root", for |-> s, chat |-> NoChan]]
  /\ UNCHANGED <<cast, hosted, created, ingested, republished, offering, posting>>
  /\ UNCHANGED <<subVars, netVars, asks, restarts>>
  /\ UNCHANGED <<timesPosted, lost, overlooked, cut, settled, wants>>

FindChannel(t) ==
  /\ tasks[t].at = "root"
  /\ Step(t, IF hosted = NoChan THEN "creating" ELSE "inviting", hosted)
  /\ UNCHANGED <<cast, hosted, created, ingested, republished, offering, posting>>
  /\ UNCHANGED <<subVars, netVars, counters, ghosts>>

CreateChannel(t) ==
  /\ tasks[t].at = "creating"
  /\ created' = created + 1
  /\ hosted' = created + 1
  /\ Step(t, "inviting", created + 1)
  /\ UNCHANGED <<cast, ingested, republished, offering, posting>>
  /\ UNCHANGED <<subVars, netVars, counters, ghosts>>

\* chatInvite, then the grant; a grant that cannot be sent is logged and passed over.
Grant(t) ==
  /\ tasks[t].at = "inviting"
  /\ \/ grants' = grants \union {<<tasks[t].for, tasks[t].chat>>} /\ cut' = cut
     \/ grants' = grants /\ cut' = cut \union {tasks[t].for}
  /\ Step(t, "collecting", tasks[t].chat)
  /\ UNCHANGED <<cast, hosted, created, ingested, republished, offering, posting>>
  /\ UNCHANGED <<subVars, begun, member, requests, bundles, posts, counters>>
  /\ UNCHANGED <<timesPosted, lost, overlooked, settled, wants>>

\* The thread as it is when the grant has been sent.
SendThreadSoFar(t) ==
  /\ tasks[t].at = "collecting"
  /\ \/ bundles' = bundles \union {<<tasks[t].for, collectThreadUuids>>} /\ cut' = cut
     \/ bundles' = bundles /\ cut' = cut \union {tasks[t].for}
  /\ Finish(t)
  /\ UNCHANGED <<cast, hosted, created, ingested, republished, offering, posting>>
  /\ UNCHANGED <<subVars, begun, member, requests, grants, posts, counters>>
  /\ UNCHANGED <<timesPosted, lost, overlooked, settled, wants>>

\* createBroadcast or chatInvite throws: the hook reports it and goes on.
ServeFails(t) ==
  /\ tasks[t].at \in {"root", "creating", "inviting"}
  /\ Finish(t)
  /\ cut' = cut \union {tasks[t].for}
  /\ UNCHANGED <<cast, hosted, created, ingested, republished, offering, posting>>
  /\ UNCHANGED <<subVars, netVars, counters>>
  /\ UNCHANGED <<timesPosted, lost, overlooked, settled, wants>>

-----------------------------------------------------------------------------
(* The host republishes replies.                                           *)

\* Who may pass a message on to republishReplyToThread: the hook, and the route that
\* wrote an own reply, whatever an event of that message did.
Republisher(m) == {<<m, "event">>} \union (IF Copy[m] = "own" THEN {<<m, "route">>} ELSE {})

\* Who a message that nobody passes on is kept from: those granted the channel by now.
Overlook(m) == {<<g[1], m>> : g \in IF Copy[m] = "dm" THEN {} ELSE grants}

\* The first to ingest a message makes it stale for the others.  The hook passes it on
\* if that is a live delivery, it has a transport and nothing threw before; a route that
\* shows the message and the sweep do not; the route that wrote it may throw before.
IngestReply(m) ==
  /\ m \in cast \ ingested
  /\ ingested' = ingested \union {m}
  /\ \/ /\ \E offers \in (SUBSET Republisher(m)) \ {{}} : offering' = offering \union offers
        /\ UNCHANGED overlooked
     \/ overlooked' = overlooked \union Overlook(m) /\ UNCHANGED offering
  /\ UNCHANGED <<cast, hosted, created, republished, tasks, posting>>
  /\ UNCHANGED <<subVars, netVars, counters>>
  /\ UNCHANGED <<timesPosted, lost, cut, settled, wants>>

\* The mutants stand for a missing check of the channel, and of the mark.
WantedUnhosted(m) == Copy[m] # "dm" /\ ReplyOf[m] \notin republished
WantedAgain(m) == Copy[m] # "dm" /\ hosted # NoChan
Wanted(m) == Copy[m] # "dm" /\ hosted # NoChan /\ ReplyOf[m] \notin republished

\* What is marked; the mutant marks on sight, before it looks at the copy.
MarksOnSight(m) == IF hosted # NoChan THEN {ReplyOf[m]} ELSE {}
Marks(m) == IF Wanted(m) THEN {ReplyOf[m]} ELSE {}

\* The checks of republishReplyToThread and its mark, with no await between them.
Republish(o) ==
  LET m == o[1]
  IN /\ o \in offering
     /\ offering' = offering \ {o}
     /\ republished' = republished \union Marks(m)
     /\ posting' = posting \union (IF Wanted(m) THEN {<<hosted, ReplyOf[m]>>} ELSE {})
     /\ UNCHANGED <<cast, hosted, created, ingested, tasks>>
     /\ UNCHANGED <<subVars, netVars, counters, ghosts>>

\* postToChat: core sends to whoever is a member by now.
Post(p) ==
  LET c == p[1]
      r == p[2]
  IN /\ p \in posting
     /\ posting' = posting \ {p}
     /\ posts' = posts \union {<<s, c, r>> : s \in {u \in Sub : <<u, c>> \in member}}
     /\ timesPosted' = [timesPosted EXCEPT ![r] = @ + 1]
     /\ UNCHANGED <<cast, hosted, created, ingested, republished, tasks, offering>>
     /\ UNCHANGED <<subVars, begun, member, requests, grants, bundles, counters>>
     /\ UNCHANGED <<lost, overlooked, cut, settled, wants>>

PostFails(p) ==
  /\ p \in posting
  /\ posting' = posting \ {p}
  /\ lost' = lost \union {p[2]}
  /\ UNCHANGED <<cast, hosted, created, ingested, republished, tasks, offering>>
  /\ UNCHANGED <<subVars, netVars, counters>>
  /\ UNCHANGED <<timesPosted, overlooked, cut, settled, wants>>

-----------------------------------------------------------------------------
(* The subscriber's routes.                                                *)

\* POST .../subscribe: the request is sent, and noted when the send resolves.
Ask(s) ==
  /\ route[s] = "none" /\ subscription[s] = NoChan
  /\ asks[s] < MaxAsks
  /\ asks' = [asks EXCEPT ![s] = @ + 1]
  /\ route' = [route EXCEPT ![s] = "asking"]
  /\ requests' = requests \union {s}
  /\ wants' = wants \union {s}
  /\ settled' = settled \ {s}
  /\ UNCHANGED <<hostVars, pending, subscription, joining>>
  /\ UNCHANGED <<begun, member, grants, bundles, posts, serves, restarts>>
  /\ UNCHANGED <<timesPosted, lost, overlooked, cut>>

NoteRequest(s) ==
  /\ route[s] = "asking"
  /\ route' = [route EXCEPT ![s] = "none"]
  /\ pending' = pending \union {s}
  /\ UNCHANGED <<hostVars, subscription, joining>>
  /\ UNCHANGED <<netVars, counters, ghosts>>

\* DELETE .../subscribe: leave the channel, then forget it and what was asked.
Leave(s) ==
  /\ route[s] = "none" /\ subscription[s] # NoChan
  /\ route' = [route EXCEPT ![s] = "leaving"]
  /\ UNCHANGED <<hostVars, pending, subscription, joining>>
  /\ UNCHANGED <<netVars, counters, ghosts>>

Forget(s) ==
  /\ \/ route[s] = "leaving"
     \/ route[s] \in {"none", "asking"} /\ subscription[s] = NoChan /\ s \in wants
  /\ route' = [route EXCEPT ![s] = IF @ = "leaving" THEN "none" ELSE @]
  /\ subscription' = [subscription EXCEPT ![s] = NoChan]
  /\ pending' = pending \ {s}
  /\ wants' = wants \ {s}
  /\ settled' = IF route[s] # "asking" /\ \A c \in Chan : <<s, c>> \notin joining
                THEN settled \union {s} ELSE settled
  /\ UNCHANGED <<hostVars, joining>>
  /\ UNCHANGED <<netVars, counters>>
  /\ UNCHANGED <<timesPosted, lost, overlooked, cut>>

-----------------------------------------------------------------------------
(* What reaches the subscriber.                                            *)

SolicitedOnce(s) == s \in requests
Solicited(s) == s \in pending

\* handleThreadInviteGrant up to the awaited join; other grants are consumed.
AcceptGrant(s, c) ==
  /\ <<s, c>> \in grants \ joining
  /\ Solicited(s)
  /\ joining' = joining \union {<<s, c>>}
  /\ UNCHANGED <<hostVars, pending, subscription, route>>
  /\ UNCHANGED <<netVars, counters, ghosts>>

\* follow() resolved: it unblocked the channel; the handshake goes on in the core.
Joined(s, c) ==
  /\ <<s, c>> \in joining
  /\ joining' = joining \ {<<s, c>>}
  /\ subscription' = [subscription EXCEPT ![s] = c]
  /\ pending' = pending \ {s}
  /\ begun' = begun \union {<<s, c>>}
  /\ UNCHANGED <<hostVars, route>>
  /\ UNCHANGED <<member, requests, grants, bundles, posts, counters, ghosts>>

JoinFails(s, c) ==
  /\ <<s, c>> \in joining
  /\ joining' = joining \ {<<s, c>>}
  /\ pending' = pending \ {s}
  /\ UNCHANGED <<hostVars, subscription, route>>
  /\ UNCHANGED <<netVars, counters, ghosts>>

\* The host's core completes a handshake that follow() began.
Admit(s, c) ==
  /\ <<s, c>> \in (joining \union begun) \ member
  /\ member' = member \union {<<s, c>>}
  /\ UNCHANGED <<hostVars, subVars, begun, requests, grants, bundles, posts, counters, ghosts>>

-----------------------------------------------------------------------------
(* A restart drops what was under way.                                     *)

RestartHost ==
  /\ restarts < MaxRestarts
  /\ restarts' = restarts + 1
  /\ tasks' = [t \in Task |-> IdleTask]
  /\ offering' = {} /\ posting' = {}
  /\ lost' = lost \union {ReplyOf[o[1]] : o \in {q \in offering : Copy[q[1]] # "dm"}} \union {p[2] : p \in posting}
  /\ cut' = cut \union {tasks[t].for : t \in {u \in Task : ~Free(u)}}
  /\ UNCHANGED <<cast, hosted, created, ingested, republished>>
  /\ UNCHANGED <<subVars, netVars, serves, asks>>
  /\ UNCHANGED <<timesPosted, overlooked, settled, wants>>

RestartSub(s) ==
  /\ restarts < MaxRestarts
  /\ restarts' = restarts + 1
  /\ route' = [route EXCEPT ![s] = "none"]
  /\ joining' = {j \in joining : j[1] # s}
  /\ UNCHANGED <<hostVars, pending, subscription>>
  /\ UNCHANGED <<netVars, serves, asks, ghosts>>

HostStep ==
  \/ \E t \in Task, s \in Sub : Serve(t, s)
  \/ \E t \in Task : FindChannel(t) \/ CreateChannel(t) \/ Grant(t)
                     \/ SendThreadSoFar(t) \/ ServeFails(t)
  \/ \E m \in Message : IngestReply(m)
  \/ \E o \in offering : Republish(o)
  \/ \E p \in posting : Post(p) \/ PostFails(p)
  \/ RestartHost

SubStep(s) ==
  \/ Ask(s) \/ NoteRequest(s) \/ Leave(s) \/ Forget(s) \/ RestartSub(s)
  \/ \E c \in Chan : AcceptGrant(s, c) \/ Joined(s, c) \/ JoinFails(s, c) \/ Admit(s, c)

Next == HostStep \/ \E s \in Sub : SubStep(s)
Spec == Init /\ [][Next]_vars

-----------------------------------------------------------------------------
TypeOK ==
  /\ cast \in Casts
  /\ hosted \in Chan \union {NoChan} /\ created \in 0..MaxServes
  /\ ingested \subseteq Message /\ republished \subseteq Reply
  /\ tasks \in [Task -> [at : {"idle", "root", "creating", "inviting", "collecting"},
                         for : Sub, chat : Chan \union {NoChan}]]
  /\ offering \subseteq Message \X {"event", "route"}
  /\ posting \subseteq Chan \X Reply
  /\ pending \subseteq Sub
  /\ subscription \in [Sub -> Chan \union {NoChan}]
  /\ route \in [Sub -> {"none", "asking", "leaving"}]
  /\ joining \union begun \union member \union grants \subseteq Sub \X Chan
  /\ requests \subseteq Sub
  /\ bundles \subseteq Sub \X SUBSET Reply
  /\ posts \subseteq Sub \X Chan \X Reply
  /\ timesPosted \in [Reply -> Nat]
  /\ overlooked \subseteq Sub \X Message

(* A reply goes to the channel once, though it comes in several messages,  *)
(* by the hook and by the route that wrote it, before and after a restart  *)
(* of the host: thread-subscribe.ts marks it before it awaits the post.    *)
RepublishedOnce == \A r \in Reply : timesPosted[r] <= 1

(* No reply falls between the thread so far and the channel: whatever the  *)
(* host ingested from a feed or wrote itself was sent to each subscriber   *)
(* of the channel it posts to, unless it was posted before the subscriber  *)
(* was in, its post failed or was cut off, the subscriber's request was    *)
(* not fully served, or the subscriber had been granted the channel when   *)
(* the message was first ingested by a route, by the sweep or by a hook    *)
(* that had no transport or threw, and so was not passed on.               *)
Sent(s) ==
  (UNION {b[2] : b \in {x \in bundles : x[1] = s}})
  \union {p[3] : p \in {x \in posts : x[1] = s /\ x[2] = subscription[s]}}
UnderWay(r) ==
  \/ \E o \in offering : ReplyOf[o[1]] = r
  \/ \E p \in posting : p[2] = r
BeingServed(s) == \E t \in Task : ~Free(t) /\ tasks[t].for = s
PostedBefore(s, r) == timesPosted[r] > 0 /\ <<s, hosted, r>> \notin posts

NothingElseMissed ==
  \A s \in Sub, m \in ingested :
    LET r == ReplyOf[m]
    IN  Copy[m] # "dm" /\ subscription[s] = hosted /\ hosted # NoChan
        /\ ~BeingServed(s) /\ ~UnderWay(r)
        => \/ r \in Sent(s) \union lost
              \/ PostedBefore(s, r) \/ s \in cut \/ <<s, m>> \in overlooked

(* Who unsubscribed stays so until the next request: a subscription comes  *)
(* back only when the DELETE raced a join or a request of the same user,   *)
(* whatever old grants are delivered again.                                *)
UnsubscribedStaysSo == \A s \in settled : subscription[s] = NoChan

=============================================================================
