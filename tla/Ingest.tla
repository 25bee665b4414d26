------------------------------- MODULE Ingest -------------------------------
(***************************************************************************)
(* How a message becomes state: transport/deltachat.ts hands each message  *)
(* to the hook of daemon.ts, which indexes it (store.ingestMessage), then  *)
(* derives its effects (deriveOnIngest) and answers the follow-back        *)
(* requests it carries (runFollowbackOnIngest); routes of server.ts do the *)
(* first two on what they show.                                            *)
(*                                                                         *)
(* The same message arrives by an event, by repeats of the event, by       *)
(* routes, and by the sweep of each start, which indexes all it collected  *)
(* and then derives all of it.  A handler runs on until it awaits, so      *)
(* indexing and deriving are one step each and others run between them.    *)
(* Nothing but the store survives a restart, and a restart may bring a     *)
(* newer schema, which drops what a sweep can derive again.                *)
(*                                                                         *)
(* Post keys are the messages themselves: the copies of one post and their *)
(* aliases are not told apart here.  There is one emoji, and a boost is    *)
(* notified the way a reply is.  Two lookups of one mid under way at once  *)
(* have one outcome.                                                       *)
(***************************************************************************)
EXTENDS Naturals, FiniteSets, Sequences, SequencesExt, Functions

CONSTANTS
  Self, Peer,
  Msg,
  Kind,         \* "post", "reply", "react", "unreact", "request" or "grant"
  From,         \* who wrote each message
  Chat,         \* the chat it is in
  About,        \* the post a reply or a reaction refers to; itself for others
  After,        \* what reaches us before it, when it is sent at all
  Casts,        \* which messages are sent: one of these sets
  Task,         \* bound: a place for each handler that may be under way at once
  MaxRestarts,  \* bound: restarts of the daemon
  MaxAsks,      \* bound: follow requests of ours
  MaxFailures   \* bound: lookups of a mid that fail

Kinds == {"post", "reply", "react", "unreact", "request", "grant"}

ASSUME PeopleAssumption == Self \notin Peer
ASSUME MessagesAssumption ==
  /\ Msg # {}
  /\ Kind \in [Msg -> Kinds]
  /\ From \in [Msg -> Peer \union {Self}]
  /\ About \in [Msg -> Msg]
  /\ After \in [Msg -> SUBSET Msg]
  /\ DOMAIN Chat = Msg
  /\ Casts \subseteq SUBSET Msg
ASSUME BoundsAssumption == {MaxRestarts, MaxAsks, MaxFailures} \subseteq Nat

isReaction(m) == Kind[m] \in {"react", "unreact"}

(* A reaction is a control message in the chat with its author, so what    *)
(* one of us says of one post is in one chat, in order.                    *)
ASSUME ReactionsAssumption ==
  \A m, n \in Msg :
    isReaction(m) /\ isReaction(n) /\ From[m] = From[n] /\ About[m] = About[n]
    => Chat[m] = Chat[n]

VARIABLES
  cast,        \* the messages that are sent
  history,     \* the core's messages of each chat, in the order they reached it
  ingested,    \* store: ingestedMsgIds
  own,         \* store: ownMids
  reactions,   \* store: who reacts to which post
  notified,    \* store: notificationDedupeKeys
  notes,       \* store: how many notifications there are of each key
  pending,     \* store: pendingFollowRequests
  midCache,    \* what is known of each mid: "unknown", "mid" or "null"
  transport,   \* whether daemon.ts has been given its transport
  tasks,       \* the handlers under way
  sweep,       \* the startup sweep
  asking,      \* routes between the request DM and its record
  restarts, migrations, asks, failures,
  touched,     \* ghost: a handler derived a reaction since the sweep began
  granted,     \* ghost: how often each request was answered
  joined,      \* ghost: how often we joined on each grant
  asked        \* ghost: the peers a grant was ever asked of

store == <<ingested, own, reactions, notified, notes, pending>>
ghosts == <<touched, granted, joined, asked>>
bounds == <<restarts, migrations, asks, failures>>
vars == <<cast, history, ingested, own, reactions, notified, notes, pending, midCache,
          transport, tasks, sweep, asking, restarts, migrations, asks, failures,
          touched, granted, joined, asked>>

Chats == Range(Chat)
Received == UNION {ToSet(history[c]) : c \in Chats}
IdleTask == [at |-> "idle", msg |-> CHOOSE m \in Msg : TRUE, by |-> "event", fresh |-> FALSE]
NewSweep == [at |-> "collect", chats |-> Chats, list |-> <<>>, pos |-> 1]

Init ==
  /\ cast \in Casts
  /\ history = [c \in Chats |-> <<>>]
  /\ ingested = {} /\ own = {} /\ reactions = {} /\ notified = {} /\ pending = {}
  /\ notes = [m \in Msg |-> 0]
  /\ midCache = [m \in Msg |-> "unknown"]
  /\ transport = FALSE
  /\ tasks = [t \in Task |-> IdleTask]
  /\ sweep = NewSweep
  /\ asking = {}
  /\ restarts = 0 /\ migrations = 0 /\ asks = 0 /\ failures = 0
  /\ touched = FALSE
  /\ granted = [m \in Msg |-> 0]
  /\ joined = [m \in Msg |-> 0]
  /\ asked = {}

-----------------------------------------------------------------------------
(* The two halves of the hook, and what they have in common.               *)

\* dedupeKey: one notification for all messages of one kind by one author about one post.
Key(m) == <<Kind[m], From[m], About[m]>>
Counted(m) == CHOOSE n \in Msg : Key(n) = Key(m)

\* store.ingestMessage; it says whether the message is fresh.
Index(m) ==
  /\ ingested' = ingested \union {m}
  /\ own' = IF m \notin ingested /\ From[m] = Self THEN own \union {m} ELSE own

\* applyReaction, retractReaction.
Tallied(m) ==
  CASE Kind[m] = "react" -> reactions \union {<<About[m], From[m]>>}
    [] Kind[m] = "unreact" -> reactions \ {<<About[m], From[m]>>}
    [] OTHER -> reactions

Notifies(m) ==
  /\ Kind[m] \in {"react", "reply"}
  /\ From[m] # Self
  /\ About[m] \in own
  /\ Key(m) \notin notified

\* deriveOnIngest: never gated on freshness, it has the dedupe keys.
Derive(m) ==
  /\ reactions' = Tallied(m)
  /\ IF Notifies(m)
       THEN /\ notified' = notified \union {Key(m)}
            /\ notes' = [notes EXCEPT ![Counted(m)] = @ + 1]
       ELSE UNCHANGED <<notified, notes>>

(* resolveMid: a failed lookup is remembered like a found mid.  When no    *)
(* lookup can fail any more, a mid not looked up is as good as a found one *)
(* and is left as it is.                                                   *)
ResolveMid(m, found) ==
  /\ midCache[m] # "unknown" => found = (midCache[m] = "mid")
  /\ midCache[m] = "unknown" /\ ~found => failures < MaxFailures
  /\ failures' = IF midCache[m] = "unknown" /\ ~found THEN failures + 1 ELSE failures
  /\ LET known == [midCache EXCEPT ![m] = IF found THEN "mid" ELSE "null"] IN
     midCache' = IF failures' < MaxFailures THEN known
                 ELSE [n \in Msg |-> IF known[n] = "null" THEN "null" ELSE "unknown"]

-----------------------------------------------------------------------------
(* Live messages and routes.                                               *)

\* The core receives a message, or stores one of ours.
Arrive(m) ==
  /\ m \in cast \ Received /\ After[m] \intersect cast \subseteq Received
  /\ history' = [history EXCEPT ![Chat[m]] = Append(@, m)]
  /\ UNCHANGED <<cast, store, midCache, transport, tasks, sweep, asking, bounds, ghosts>>

\* IncomingMsg, MsgsChanged or loadMessages, for a message new or old; or a route's `ingest'.
Begin(t, m, by) ==
  /\ tasks[t].at = "idle"
  /\ m \in Received
  /\ by = "api" => transport /\ Kind[m] \in {"post", "reply"}
  /\ tasks' = [tasks EXCEPT ![t] = [at |-> "loading", msg |-> m, by |-> by, fresh |-> FALSE]]
  /\ UNCHANGED <<cast, history, store, midCache, transport, sweep, asking, bounds, ghosts>>

\* The message and its mid are loaded; without a mid it is dropped.
TaskIndexes(t, found) ==
  LET m == tasks[t].msg IN
  /\ tasks[t].at = "loading"
  /\ ResolveMid(m, found)
  /\ IF found
       THEN /\ Index(m)
            /\ tasks' = [tasks EXCEPT ![t].at = "indexed", ![t].fresh = m \notin ingested]
       ELSE /\ tasks' = [tasks EXCEPT ![t] = IdleTask]
            /\ UNCHANGED <<ingested, own>>
  /\ UNCHANGED <<cast, history, reactions, notified, notes, pending, transport, sweep, asking,
                 restarts, migrations, asks, ghosts>>

\* Bug: one grant for every delivery of the request.
ActsAlways(t) == tasks[t].by = "event" /\ transport

\* runFollowbackOnIngest acts live only, on a fresh message, with a transport.
Acts(t) == tasks[t].by = "event" /\ tasks[t].fresh /\ transport

\* Bug: any grant is joined, asked for or not.
FollowupUnsolicited(m) ==
  CASE Kind[m] = "request" -> "granting"
    [] Kind[m] = "grant" -> "joining"
    [] OTHER -> "idle"

\* deriveFollowbackActions: where the message leads its handler.
Followup(m) ==
  CASE Kind[m] = "request" /\ From[m] # Self -> "granting"
    [] Kind[m] = "grant" /\ From[m] \in pending -> "joining"
    [] OTHER -> "idle"

\* The message has its effects, and its request or grant is looked at.
TaskDerives(t) ==
  LET m == tasks[t].msg
      next == IF Acts(t) THEN Followup(m) ELSE "idle"
  IN
  /\ tasks[t].at = "indexed"
  /\ Derive(m)
  /\ tasks' = [tasks EXCEPT ![t] = IF next = "idle" THEN IdleTask ELSE [@ EXCEPT !.at = next]]
  /\ touched' = (touched \/ isReaction(m))
  /\ UNCHANGED <<cast, history, ingested, own, pending, midCache, transport, sweep, asking,
                 bounds, granted, joined, asked>>

\* grant-invite: the DM with our invite is sent, or fails for good.
Grant(t, sent) ==
  /\ tasks[t].at = "granting"
  /\ granted' = IF sent THEN [granted EXCEPT ![tasks[t].msg] = @ + 1] ELSE granted
  /\ tasks' = [tasks EXCEPT ![t] = IdleTask]
  /\ UNCHANGED <<cast, history, store, midCache, transport, sweep, asking, bounds,
                 touched, joined, asked>>

\* accept-grant: the core joins the feed.
Join(t) ==
  /\ tasks[t].at = "joining"
  /\ joined' = [joined EXCEPT ![tasks[t].msg] = @ + 1]
  /\ tasks' = [tasks EXCEPT ![t].at = "joined"]
  /\ UNCHANGED <<cast, history, store, midCache, transport, sweep, asking, bounds,
                 touched, granted, asked>>

\* The request is settled, whether the feed was joined or not.
Settle(t) ==
  /\ tasks[t].at \in {"joining", "joined"}
  /\ pending' = pending \ {From[tasks[t].msg]}
  /\ tasks' = [tasks EXCEPT ![t] = IdleTask]
  /\ UNCHANGED <<cast, history, ingested, own, reactions, notified, notes, midCache,
                 transport, sweep, asking, bounds, ghosts>>

(* POST follow, first half: the request DM is sent.  One route asks a peer *)
(* at a time; a feed joined once may have been left since.                 *)
Ask(p) ==
  /\ transport
  /\ asks < MaxAsks
  /\ p \notin asking
  /\ asking' = asking \union {p}
  /\ asks' = asks + 1
  /\ asked' = asked \union {p}
  /\ UNCHANGED <<cast, history, store, midCache, transport, tasks, sweep,
                 restarts, migrations, failures, touched, granted, joined>>

\* POST follow, second half: the request is recorded.
Record(p) ==
  /\ p \in asking
  /\ asking' = asking \ {p}
  /\ pending' = pending \union {p}
  /\ UNCHANGED <<cast, history, ingested, own, reactions, notified, notes, midCache, transport,
                 tasks, sweep, bounds, ghosts>>

-----------------------------------------------------------------------------
(* The start of the daemon and its sweep.                                  *)

\* openTransport has returned.
Assign ==
  /\ ~transport
  /\ transport' = TRUE
  /\ UNCHANGED <<cast, history, store, midCache, tasks, sweep, asking, bounds, ghosts>>

\* Bug: the messages of a chat are taken newest first.
FoundNewestFirst(c) == Reverse(history[c])

\* getMessageIds, getMessages.
Found(c) == history[c]

\* The chats come in any order, the messages of one in theirs.
Collect(c) ==
  /\ sweep.at = "collect"
  /\ c \in sweep.chats
  /\ LET left == sweep.chats \ {c}
     IN sweep' = [at |-> IF left = {} THEN "index" ELSE "collect",
                  chats |-> left, list |-> sweep.list \o Found(c), pos |-> 1]
  /\ UNCHANGED <<cast, history, store, midCache, transport, tasks, asking, bounds, ghosts>>

\* Bug: each pass goes one past its end.
NextOfTooFar(at, after) ==
  IF sweep.pos <= Len(sweep.list) THEN [sweep EXCEPT !.pos = @ + 1]
  ELSE [sweep EXCEPT !.at = after, !.pos = 1]

\* The sweep after one message of a pass: its next, or the next pass.
NextOf(at, after) ==
  IF sweep.pos < Len(sweep.list) THEN [sweep EXCEPT !.pos = @ + 1]
  ELSE [sweep EXCEPT !.at = after, !.pos = 1]

\* A pass over nothing.
SweepNothing ==
  /\ sweep.at \in {"index", "derive"} /\ sweep.list = <<>>
  /\ sweep' = [sweep EXCEPT !.at = "done"]
  /\ UNCHANGED <<cast, history, store, midCache, transport, tasks, asking, bounds, ghosts>>

\* Bug: a single pass, deriving each message as soon as it is indexed.
SweepAtOnce(found) ==
  LET m == sweep.list[sweep.pos] IN
  /\ sweep.at = "index" /\ sweep.list # <<>>
  /\ ResolveMid(m, found)
  /\ IF found THEN Index(m) /\ Derive(m)
              ELSE UNCHANGED <<ingested, own, reactions, notified, notes>>
  /\ sweep' = NextOf("index", "done")
  /\ UNCHANGED <<cast, history, pending, transport, tasks, asking,
                 restarts, migrations, asks, ghosts>>

\* The index pass: nothing but the indexes.
SweepIndexes(found) ==
  LET m == sweep.list[sweep.pos] IN
  /\ sweep.at = "index" /\ sweep.list # <<>>
  /\ ResolveMid(m, found)
  /\ IF found THEN Index(m) ELSE UNCHANGED <<ingested, own>>
  /\ sweep' = NextOf("index", "derive")
  /\ UNCHANGED <<cast, history, reactions, notified, notes, pending, transport, tasks, asking,
                 restarts, migrations, asks, ghosts>>

\* The derive pass answers nothing; a grant settles the request it finds.
SweepDerives ==
  LET m == sweep.list[sweep.pos] IN
  /\ sweep.at = "derive" /\ sweep.list # <<>>
  /\ IF midCache[m] # "null"
       THEN /\ Derive(m)
            /\ pending' = IF Kind[m] = "grant" THEN pending \ {From[m]} ELSE pending
       ELSE UNCHANGED <<reactions, notified, notes, pending>>
  /\ sweep' = NextOf("derive", "done")
  /\ UNCHANGED <<cast, history, ingested, own, midCache, transport, tasks, asking, bounds, ghosts>>

\* Bug: the migration drops the dedupe keys with the rest.
MigrateAll ==
  /\ ingested' = {} /\ own' = {} /\ reactions' = {} /\ notified' = {}

\* migrate: what a sweep derives again is dropped, what was shown or asked is kept.
Migrate ==
  /\ ingested' = {} /\ own' = {} /\ reactions' = {}
  /\ UNCHANGED notified

\* The daemon dies, and starts again, with the same schema or a newer one.
Restart(newer) ==
  /\ restarts < MaxRestarts
  /\ restarts' = restarts + 1
  /\ IF newer
       THEN Migrate /\ migrations' = migrations + 1
       ELSE UNCHANGED <<ingested, own, reactions, notified, migrations>>
  /\ midCache' = [m \in Msg |-> "unknown"]
  /\ transport' = FALSE
  /\ tasks' = [t \in Task |-> IdleTask]
  /\ sweep' = NewSweep
  /\ asking' = {}
  /\ touched' = FALSE
  /\ UNCHANGED <<cast, history, notes, pending, asks, failures, granted, joined, asked>>

-----------------------------------------------------------------------------
Next ==
  \/ \E m \in Msg : Arrive(m)
  \/ \E t \in Task, m \in Msg, by \in {"event", "api"} : Begin(t, m, by)
  \/ \E t \in Task, found \in BOOLEAN : TaskIndexes(t, found)
  \/ \E t \in Task : TaskDerives(t)
  \/ \E t \in Task, sent \in BOOLEAN : Grant(t, sent)
  \/ \E t \in Task : Join(t) \/ Settle(t)
  \/ \E p \in Peer : Ask(p) \/ Record(p)
  \/ Assign
  \/ \E c \in Chats : Collect(c)
  \/ SweepNothing
  \/ \E found \in BOOLEAN : SweepIndexes(found)
  \/ SweepDerives
  \/ \E newer \in BOOLEAN : Restart(newer)

Spec == Init /\ [][Next]_vars

-----------------------------------------------------------------------------
(* Properties.                                                             *)

TypeOK ==
  /\ history \in [Chats -> Seq(cast)] /\ cast \subseteq Msg
  /\ {ingested, own} \subseteq SUBSET Msg /\ own \subseteq ingested
  /\ reactions \subseteq Msg \X (Peer \union {Self})
  /\ notified \subseteq {Key(m) : m \in Msg}
  /\ {pending, asking} \subseteq SUBSET Peer
  /\ {notes, granted, joined} \subseteq [Msg -> Nat]
  /\ asked \subseteq Peer
  /\ midCache \in [Msg -> {"unknown", "mid", "null"}]
  /\ {transport, touched} \subseteq BOOLEAN
  /\ tasks \in [Task -> [at : {"idle", "loading", "indexed", "granting", "joining", "joined"},
                        msg : Msg, by : {"event", "api"}, fresh : BOOLEAN]]
  /\ sweep.at \in {"collect", "index", "derive", "done"}
  /\ sweep.chats \subseteq Chats /\ sweep.list \in Seq(Msg)
  /\ sweep.pos \in 1..(Len(sweep.list) + 1)
  /\ sweep.list # <<>> => sweep.pos <= Len(sweep.list)
  /\ {restarts, migrations, asks, failures} \subseteq Nat

(* A request for our feed is answered at most once, whatever deliveries,   *)
(* routes, sweeps and restarts meet its message; a newer schema forgets    *)
(* what was ingested and may add one answer each (ingest.ts 347-352).      *)
GrantedOnce == \A m \in Msg : granted[m] <= 1 + migrations

(* No event is notified twice, across repeated deliveries, the replays of  *)
(* every start and the migrations, which keep the dedupe keys for that     *)
(* (store.ts 671-687).                                                     *)
NotifiedOnce == \A m \in Msg : notes[m] <= 1

Swept == {m \in ToSet(sweep.list) : midCache[m] # "null"}

(* A sweep that has ended has notified each reaction and each reply to a   *)
(* post of ours it collected, in whatever order the chats came: what the   *)
(* two passes are for (deltachat.ts 769-784).                              *)
SweepNotifies ==
  sweep.at = "done" =>
    \A m \in Swept :
      Kind[m] \in {"react", "reply"} /\ From[m] # Self
        /\ About[m] \in Swept /\ From[About[m]] = Self
      => Key(m) \in notified

Before(m, n) ==
  LET said == history[Chat[n]]
  IN  \E j \in 1..Len(said) : \E i \in 1..(j - 1) : said[i] = m /\ said[j] = n

(* The last reaction or retraction of its author on its post.              *)
IsLastWord(m) ==
  isReaction(m) /\ \A n \in Swept :
    isReaction(n) /\ From[n] = From[m] /\ About[n] = About[m] => ~Before(m, n)

(* A sweep that no handler crossed leaves, for everybody and every post,   *)
(* the last word of what it collected: the replay heals whatever the store *)
(* said before (ingest.ts 46-49, 60-63).                                   *)
SweepRestoresTallies ==
  sweep.at = "done" /\ ~touched =>
    \A m \in Swept :
      IsLastWord(m) => (<<About[m], From[m]>> \in reactions <=> Kind[m] = "react")

(* A grant is joined on at most once, and only if we ever asked its sender *)
(* for one: neither an unsolicited grant nor the replay of an old one      *)
(* joins a feed (ingest.ts 232-236, 344-346).                              *)
JoinsOnceIfAsked ==
  \A m \in Msg : joined[m] <= 1 + migrations /\ (joined[m] > 0 => From[m] \in asked)

=============================================================================
