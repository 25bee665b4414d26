----------------------------- MODULE IngestProofs -----------------------------
(***************************************************************************)
(* What holds of the ingest hook for any messages, peers, chats, handlers, *)
(* restarts, migrations and failed lookups.                                *)
(*                                                                         *)
(* Answers: at most one handler holds the right to act on a message, which *)
(* indexing gave it, and it has not been used while it is held.            *)
(* Notes: a notification has its dedupe key.  Passes: what the index pass  *)
(* has been over is indexed, and for sure, or dropped for good; what the   *)
(* derive pass has been over has its notifications and its tallies.        *)
(***************************************************************************)
EXTENDS Ingest, SequenceTheorems, TLAPS

TaskType == [at : {"idle", "loading", "indexed", "granting", "joining", "joined"},
             msg : Msg, by : {"event", "api"}, fresh : BOOLEAN]
SweepType == [at : {"collect", "index", "derive", "done"}, chats : SUBSET Chats,
              list : Seq(Msg), pos : Nat \ {0}]
Typed == TypeOK /\ sweep \in SweepType

\* Handler t may act on m, and nobody did before.
Holds(t, m) ==
  tasks[t].msg = m /\ tasks[t].fresh /\ tasks[t].at \in {"indexed", "granting", "joining"}
Unanswered(m) == granted[m] <= migrations /\ joined[m] <= migrations

Answers ==
  /\ \A t \in Task : tasks[t].at \in {"granting", "joining"} => tasks[t].fresh
  /\ \A m \in Msg :
       /\ \A t, u \in Task : Holds(t, m) /\ Holds(u, m) => t = u
       /\ \A t \in Task : Holds(t, m) => Unanswered(m) /\ m \in ingested
       /\ m \notin ingested => Unanswered(m)
       /\ granted[m] <= 1 + migrations /\ joined[m] <= 1 + migrations

Solicited ==
  /\ pending \union asking \subseteq asked
  /\ \A t \in Task : tasks[t].at = "joining" => From[tasks[t].msg] \in asked
  /\ \A m \in Msg : joined[m] > 0 => From[m] \in asked

Notes == \A m \in Msg : notes[m] <= 1 /\ (notes[m] > 0 => Key(m) \in notified)

\* A mid that no later lookup can lose.
Sure(m) == midCache[m] = "mid" \/ (failures >= MaxFailures /\ midCache[m] # "null")

IndexedTo ==
  IF sweep.at = "index" THEN sweep.pos - 1
  ELSE IF sweep.at = "collect" THEN 0 ELSE Len(sweep.list)
DerivedTo ==
  IF sweep.at = "derive" THEN sweep.pos - 1
  ELSE IF sweep.at = "done" THEN Len(sweep.list) ELSE 0

Owned == \A m \in ingested : From[m] = Self => m \in own
Indexed ==
  \A i \in 1..IndexedTo :
    midCache[sweep.list[i]] = "null" \/ (Sure(sweep.list[i]) /\ sweep.list[i] \in ingested)

\* The message at i calls for a notification.
Calls(i) ==
  LET m == sweep.list[i] IN
  /\ midCache[m] # "null" /\ Kind[m] \in {"react", "reply"} /\ From[m] # Self
  /\ About[m] \in Swept /\ From[About[m]] = Self
Notified == \A i \in 1..DerivedTo : Calls(i) => Key(sweep.list[i]) \in notified

Passes == Owned /\ Indexed /\ Notified

\* The list of a sweep has the messages of a chat in their order.
Chronicle ==
  /\ \A c \in Chats : \A i \in 1..Len(history[c]) : Chat[history[c][i]] = c
  /\ \A i \in 1..Len(sweep.list) : Chat[sweep.list[i]] \notin sweep.chats
  /\ \A i, j \in 1..Len(sweep.list) :
       i < j /\ Chat[sweep.list[i]] = Chat[sweep.list[j]] => Before(sweep.list[i], sweep.list[j])

\* What n says is of the same author and post as what m says.
Rivals(m, n) == isReaction(m) /\ isReaction(n) /\ From[m] = From[n] /\ About[m] = About[n]
LastTo(i, k) ==
  \A j \in (i + 1)..k : midCache[sweep.list[j]] # "null" => ~Rivals(sweep.list[i], sweep.list[j])
Right(m) == <<About[m], From[m]>> \in reactions <=> Kind[m] = "react"
Tallies ==
  ~touched =>
    \A i \in 1..DerivedTo :
      midCache[sweep.list[i]] # "null" /\ isReaction(sweep.list[i]) /\ LastTo(i, DerivedTo)
      => Right(sweep.list[i])

IInv == Typed /\ Answers /\ Solicited /\ Notes /\ Passes /\ Chronicle /\ Tallies

-----------------------------------------------------------------------------
(* Helpers of the model.                                                   *)

(* The handler that is idle has some message. *)
LEMMA IdleTyped == IdleTask \in TaskType /\ IdleTask.at = "idle" /\ ~IdleTask.fresh
<1>1. (CHOOSE m \in Msg : TRUE) \in Msg
  BY MessagesAssumption
<1>2. QED BY <1>1 DEF IdleTask, TaskType

(* A key is counted at a message that has it. *)
LEMMA CountedHasKey == ASSUME NEW m \in Msg PROVE Counted(m) \in Msg /\ Key(Counted(m)) = Key(m)
  BY DEF Counted

LEMMA ChatTyped == \A m \in Msg : Chat[m] \in Chats
  BY MessagesAssumption DEF Chats, Range

(* What a lookup does to the cache: what is lost stays lost, what is sure  *)
(* stays sure, and the message looked up is one or the other afterwards.   *)
LEMMA LookedUp ==
  ASSUME midCache \in [Msg -> {"unknown", "mid", "null"}], failures \in Nat,
         NEW m \in Msg, NEW found \in BOOLEAN, ResolveMid(m, found)
  PROVE  /\ midCache' \in [Msg -> {"unknown", "mid", "null"}] /\ failures' \in Nat
         /\ \A n \in Msg : /\ midCache[n] = "null" => midCache'[n] = "null"
                           /\ Sure(n) => Sure(n)'
         /\ found => Sure(m)'
         /\ ~found => midCache'[m] = "null"
<1> DEFINE known == [midCache EXCEPT ![m] = IF found THEN "mid" ELSE "null"]
<1>1. known \in [Msg -> {"unknown", "mid", "null"}]
  OBVIOUS
<1>2. failures' \in Nat /\ MaxFailures \in Nat /\ failures <= failures'
      /\ (midCache[m] = "unknown" /\ ~found => failures < MaxFailures)
      /\ (midCache[m] # "unknown" => (found <=> midCache[m] = "mid"))
  BY BoundsAssumption DEF ResolveMid
<1>3. midCache' = IF failures' < MaxFailures THEN known
                  ELSE [n \in Msg |-> IF known[n] = "null" THEN "null" ELSE "unknown"]
  BY DEF ResolveMid
<1>4. midCache' \in [Msg -> {"unknown", "mid", "null"}]
  BY <1>1, <1>3
<1>5. \A n \in Msg : midCache'[n] = "null" <=> known[n] = "null"
  BY <1>1, <1>3
<1>6. \A n \in Msg : failures' < MaxFailures => midCache'[n] = known[n]
  BY <1>3
<1>7. \A n \in Msg : known[n] = IF n = m THEN (IF found THEN "mid" ELSE "null") ELSE midCache[n]
  OBVIOUS
<1> HIDE DEF known
<1>8. \A n \in Msg : midCache[n] = "null" => midCache'[n] = "null"
  BY <1>2, <1>5, <1>7
<1>9. \A n \in Msg : Sure(n) => midCache'[n] # "null"
  BY <1>2, <1>5, <1>7 DEF Sure
<1>10. \A n \in Msg : Sure(n) => Sure(n)'
  BY <1>2, <1>6, <1>7, <1>9 DEF Sure
<1>11. found => Sure(m)'
  BY <1>2, <1>5, <1>6, <1>7 DEF Sure
<1>12. QED BY <1>2, <1>4, <1>5, <1>7, <1>8, <1>10, <1>11

\* What the types say of a sweep.
SweepOK ==
  /\ sweep.at \in {"collect", "index", "derive", "done"}
  /\ sweep.chats \subseteq Chats /\ sweep.list \in Seq(Msg)
  /\ sweep.pos \in 1..(Len(sweep.list) + 1)
  /\ sweep.list # <<>> => sweep.pos <= Len(sweep.list)

(* What the sweep does after one message of a pass. *)
LEMMA NextTyped ==
  ASSUME Typed, sweep.list # <<>>, NEW at, NEW after \in {"derive", "done"}, sweep.at = at,
         sweep' = NextOf(at, after)
  PROVE  /\ sweep' \in SweepType /\ sweep'.list = sweep.list /\ sweep'.chats = sweep.chats
         /\ sweep.pos \in 1..Len(sweep.list) /\ sweep.list[sweep.pos] \in Msg
         /\ sweep'.pos \in 1..Len(sweep.list)
         /\ \/ sweep.pos < Len(sweep.list) /\ sweep'.at = at /\ sweep'.pos = sweep.pos + 1
            \/ sweep.pos = Len(sweep.list) /\ sweep'.at = after /\ sweep'.pos = 1
<1>1. sweep \in SweepType /\ Len(sweep.list) \in Nat /\ sweep.pos <= Len(sweep.list) /\ sweep.pos \in Nat \ {0}
  BY DEF Typed, TypeOK, SweepType
<1>2. sweep.pos \in 1..Len(sweep.list) /\ sweep.list[sweep.pos] \in Msg
  BY <1>1 DEF SweepType
<1>3. CASE sweep.pos < Len(sweep.list)
  <2>1. sweep' = [sweep EXCEPT !.pos = @ + 1]
    BY <1>3 DEF NextOf
  <2>2. QED BY <1>1, <1>2, <1>3, <2>1 DEF SweepType
<1>4. CASE sweep.pos = Len(sweep.list)
  <2>1. sweep' = [sweep EXCEPT !.at = after, !.pos = 1]
    BY <1>4 DEF NextOf
  <2>2. sweep' \in SweepType /\ sweep'.list = sweep.list /\ sweep'.chats = sweep.chats
        /\ sweep'.at = after /\ sweep'.pos = 1
    <3>1. sweep' = [at |-> after, chats |-> sweep.chats, list |-> sweep.list, pos |-> 1]
      BY <1>1, <2>1 DEF SweepType
    <3>2. after \in {"collect", "index", "derive", "done"} /\ 1 \in Nat \ {0}
      OBVIOUS
    <3>3. sweep.chats \in SUBSET Chats /\ sweep.list \in Seq(Msg)
      BY <1>1 DEF SweepType
    <3>4. QED BY <3>1, <3>2, <3>3 DEF SweepType
  <2>3. 1 \in 1..Len(sweep.list)
    BY <1>1
  <2>4. QED BY <1>2, <1>4, <2>2, <2>3
<1>5. QED BY <1>1, <1>3, <1>4

(* The empty pass, and the collection of a chat. *)
LEMMA SweepNothingTyped ==
  ASSUME Typed, SweepNothing
  PROVE  /\ sweep' \in SweepType /\ sweep'.at = "done" /\ sweep'.list = <<>> /\ sweep'.chats = sweep.chats
         /\ sweep'.pos = sweep.pos /\ sweep.list = <<>> /\ sweep.at \in {"index", "derive"}
  BY DEF Typed, SweepNothing, SweepType

LEMMA CollectTyped ==
  ASSUME Typed, NEW c \in Chats, Collect(c)
  PROVE  /\ sweep' \in SweepType /\ sweep'.at \in {"collect", "index"} /\ sweep'.pos = 1
         /\ sweep'.chats = sweep.chats \ {c} /\ sweep'.list = sweep.list \o history[c]
         /\ sweep.at = "collect" /\ c \in sweep.chats
         /\ history[c] \in Seq(Msg) /\ sweep.list \in Seq(Msg)
<1>1. history[c] \in Seq(cast) /\ cast \subseteq Msg
  BY DEF Typed, TypeOK
<1>2. history[c] \in Seq(Msg)
  BY <1>1
<1>3. QED BY <1>2 DEF Typed, Collect, SweepType, Found

LEMMA NewSweepTyped == NewSweep \in SweepType /\ NewSweep.at = "collect" /\ NewSweep.list = <<>>
                       /\ NewSweep.chats = Chats /\ NewSweep.pos = 1
  BY DEF NewSweep, SweepType

LEMMA InitIInv == Init => IInv
<1> SUFFICES ASSUME Init PROVE IInv
  OBVIOUS
<1>1. sweep = NewSweep /\ sweep.list = <<>> /\ Len(sweep.list) = 0
  BY NewSweepTyped DEF Init
<1>2. tasks = [t \in Task |-> IdleTask]
  BY DEF Init
<1>3. \A t \in Task : tasks[t].at = "idle" /\ tasks[t] \in TaskType
  BY <1>2, IdleTyped
<1>4. TypeOK
  <2>1. history \in [Chats -> Seq(cast)] /\ cast \subseteq Msg
    BY MessagesAssumption DEF Init
  <2>2. tasks \in [Task -> TaskType]
    BY <1>2, IdleTyped
  <2>3. {notes, granted, joined} \subseteq [Msg -> Nat] /\ midCache \in [Msg -> {"unknown", "mid", "null"}]
    BY DEF Init
  <2>4. /\ {ingested, own} \subseteq SUBSET Msg /\ own \subseteq ingested /\ reactions = {} /\ notified = {}
        /\ {pending, asking} \subseteq SUBSET Peer /\ asked = {}
        /\ {restarts, migrations, asks, failures} \subseteq Nat
    BY DEF Init
  <2>6. {transport, touched} \subseteq BOOLEAN
    <3>1. transport \in BOOLEAN /\ touched \in BOOLEAN
      BY DEF Init
    <3>2. QED BY <3>1
  <2>5. /\ sweep.at = "collect" /\ sweep.chats = Chats /\ sweep.pos = 1
    BY <1>1, NewSweepTyped
  <2>7. QED BY <1>1, <2>1, <2>2, <2>3, <2>4, <2>5, <2>6 DEF TypeOK, TaskType
<1>5. Typed
  BY <1>1, <1>4, NewSweepTyped DEF Typed
<1>6. Answers
  BY <1>3, BoundsAssumption DEF Init, Answers, Holds, Unanswered
<1>7. Solicited /\ Notes
  BY <1>3 DEF Init, Solicited, Notes
<1>8. DerivedTo = 0 /\ IndexedTo = 0
  BY <1>1, NewSweepTyped DEF DerivedTo, IndexedTo
<1>9. Passes /\ Tallies
  BY <1>8 DEF Init, Passes, Owned, Indexed, Notified, Tallies
<1>10. Chronicle
  BY <1>1 DEF Init, Chronicle
<1>11. QED BY <1>5, <1>6, <1>7, <1>9, <1>10 DEF IInv

-----------------------------------------------------------------------------
(* Types.                                                                  *)

LEMMA IndexTyped ==
  ASSUME Typed, NEW m \in Msg, Index(m)
  PROVE  {ingested', own'} \subseteq SUBSET Msg /\ own' \subseteq ingested'
  BY DEF Typed, TypeOK, Index

LEMMA DeriveTyped ==
  ASSUME Typed, NEW m \in Msg, Derive(m)
  PROVE  /\ reactions' \subseteq Msg \X (Peer \union {Self})
         /\ notified' \subseteq {Key(n) : n \in Msg} /\ notified \subseteq notified'
         /\ notes' \in [Msg -> Nat]
<1>1. reactions' \subseteq Msg \X (Peer \union {Self})
  BY MessagesAssumption DEF Typed, TypeOK, Derive, Tallied
<1>2. Counted(m) \in Msg
  BY CountedHasKey
<1>3. notified' \subseteq {Key(n) : n \in Msg} /\ notified \subseteq notified' /\ notes' \in [Msg -> Nat]
  BY <1>2 DEF Typed, TypeOK, Derive
<1>4. QED BY <1>1, <1>3

LEMMA TypedStep == ASSUME Typed, Next PROVE Typed'
<1>1. ASSUME NEW m \in Msg, Arrive(m) PROVE Typed'
  <2>1. history' \in [Chats -> Seq(cast)]
    BY <1>1, ChatTyped DEF Arrive, Typed, TypeOK
  <2>2. QED BY <1>1, <2>1 DEF Arrive, Typed, TypeOK, store, bounds, ghosts
<1>2. ASSUME NEW t \in Task, NEW m \in Msg, NEW by \in {"event", "api"}, Begin(t, m, by) PROVE Typed'
  BY <1>2 DEF Begin, Typed, TypeOK, store, bounds, ghosts
<1>3. ASSUME NEW t \in Task, NEW found \in BOOLEAN, TaskIndexes(t, found) PROVE Typed'
  <2> DEFINE m == tasks[t].msg
  <2>1. m \in Msg /\ ResolveMid(m, found)
    BY <1>3 DEF TaskIndexes, Typed, TypeOK
  <2>2. midCache' \in [Msg -> {"unknown", "mid", "null"}] /\ failures' \in Nat
    BY <2>1, LookedUp DEF Typed, TypeOK
  <2>3. {ingested', own'} \subseteq SUBSET Msg /\ own' \subseteq ingested'
    BY <1>3, <2>1, IndexTyped DEF TaskIndexes, Typed, TypeOK
  <2>4. tasks' \in [Task -> TaskType]
    <3>1. /\ tasks \in [Task -> TaskType] /\ (m \notin ingested) \in BOOLEAN
          /\ \/ tasks' = [tasks EXCEPT ![t] = IdleTask]
             \/ tasks' = [tasks EXCEPT ![t].at = "indexed", ![t].fresh = m \notin ingested]
      BY <1>3 DEF TaskIndexes, Typed, TypeOK, TaskType
    <3> DEFINE fresh == m \notin ingested
    <3> HIDE DEF fresh
    <3>2. [tasks EXCEPT ![t].at = "indexed", ![t].fresh = fresh] \in [Task -> TaskType]
      <4>1. [tasks EXCEPT ![t].at = "indexed"] \in [Task -> TaskType]
        BY <3>1 DEF TaskType
      <4>2. fresh \in BOOLEAN
        BY <3>1 DEF fresh
      <4>3. [tasks EXCEPT ![t].at = "indexed", ![t].fresh = fresh]
            = [[tasks EXCEPT ![t].at = "indexed"] EXCEPT ![t].fresh = fresh]
        BY <3>1 DEF TaskType
      <4>4. QED BY <4>1, <4>2, <4>3 DEF TaskType
    <3>3. QED BY <3>1, <3>2, IdleTyped DEF fresh
  <2>5. QED BY <1>3, <2>2, <2>3, <2>4 DEF TaskIndexes, Typed, TypeOK, TaskType, ghosts
<1>4. ASSUME NEW t \in Task, TaskDerives(t) PROVE Typed'
  <2> DEFINE m == tasks[t].msg
             next == IF Acts(t) THEN Followup(m) ELSE "idle"
  <2>1. m \in Msg /\ Derive(m)
    BY <1>4 DEF TaskDerives, Typed, TypeOK
  <2>2. next \in {"idle", "granting", "joining"}
    BY DEF Followup
  <2>3. tasks' = [tasks EXCEPT ![t] = IF next = "idle" THEN IdleTask ELSE [@ EXCEPT !.at = next]]
    BY <1>4 DEF TaskDerives
  <2> HIDE DEF next
  <2>4. tasks' \in [Task -> TaskType]
    BY <2>2, <2>3, IdleTyped DEF Typed, TypeOK, TaskType
  <2>5. touched' \in BOOLEAN
    BY <1>4 DEF TaskDerives
  <2>6. QED BY <1>4, <2>1, <2>4, <2>5, DeriveTyped DEF TaskDerives, Typed, TypeOK, TaskType, bounds
<1>5. ASSUME NEW t \in Task, NEW sent \in BOOLEAN, Grant(t, sent) PROVE Typed'
  <2>1. tasks' \in [Task -> TaskType] /\ granted' \in [Msg -> Nat]
    BY <1>5, IdleTyped DEF Grant, Typed, TypeOK, TaskType
  <2>2. QED BY SMTT(30), <1>5, <2>1 DEF Grant, Typed, TypeOK, TaskType, store, bounds
<1>6. ASSUME NEW t \in Task, Join(t) PROVE Typed'
  <2>1. tasks' \in [Task -> TaskType]
    BY ZenonT(60), <1>6 DEF Join, Typed, TypeOK, TaskType
  <2>2. joined' \in [Msg -> Nat]
    BY <1>6 DEF Join, Typed, TypeOK
  <2>3. QED BY <1>6, <2>1, <2>2 DEF Join, Typed, TypeOK, TaskType, store, bounds
<1>7. ASSUME NEW t \in Task, Settle(t) PROVE Typed'
  <2>1. tasks' \in [Task -> TaskType]
    BY <1>7, IdleTyped DEF Settle, Typed, TypeOK, TaskType
  <2>2. QED BY <1>7, <2>1 DEF Settle, Typed, TypeOK, TaskType, bounds, ghosts
<1>8. ASSUME NEW p \in Peer, Ask(p) \/ Record(p) PROVE Typed'
  <2>1. CASE Ask(p)
    BY <2>1 DEF Ask, Typed, TypeOK, store
  <2>2. CASE Record(p)
    BY <2>2 DEF Record, Typed, TypeOK, bounds, ghosts
  <2>3. QED BY <1>8, <2>1, <2>2
<1>9. ASSUME Assign PROVE Typed'
  BY <1>9 DEF Assign, Typed, TypeOK, store, bounds, ghosts
<1>10. ASSUME NEW c \in Chats, Collect(c) PROVE Typed'
  <2>1. sweep' \in SweepType /\ sweep'.at \in {"collect", "index"} /\ sweep'.pos = 1
    BY <1>10, CollectTyped
  <2>2. Len(sweep'.list) \in Nat /\ (sweep'.list # <<>> => 1 <= Len(sweep'.list))
    BY <2>1, EmptySeq DEF SweepType
  <2>3. SweepOK'
    BY <2>1, <2>2 DEF SweepOK, SweepType
  <2>4. QED BY <1>10, <2>1, <2>3 DEF Collect, Typed, TypeOK, SweepOK, store, bounds, ghosts
<1>11. ASSUME SweepNothing PROVE Typed'
  <2>1. sweep'.pos = sweep.pos /\ sweep'.list = sweep.list /\ sweep'.at = "done" /\ sweep'.chats = sweep.chats
        /\ sweep' \in SweepType
    BY <1>11, SweepNothingTyped
  <2>2. QED BY <1>11, <2>1 DEF SweepNothing, Typed, TypeOK, store, bounds, ghosts
<1>12. ASSUME NEW found \in BOOLEAN, SweepIndexes(found) PROVE Typed'
  <2> DEFINE m == sweep.list[sweep.pos]
  <2>1. /\ sweep' \in SweepType /\ sweep'.list = sweep.list /\ sweep'.chats = sweep.chats
        /\ sweep'.pos \in 1..Len(sweep.list) /\ m \in Msg /\ ResolveMid(m, found)
    BY <1>12, NextTyped DEF SweepIndexes
  <2>2. midCache' \in [Msg -> {"unknown", "mid", "null"}] /\ failures' \in Nat
    BY <2>1, LookedUp DEF Typed, TypeOK
  <2>3. {ingested', own'} \subseteq SUBSET Msg /\ own' \subseteq ingested'
    BY <1>12, <2>1, IndexTyped DEF SweepIndexes, Typed, TypeOK
  <2>4. SweepOK'
    BY <2>1 DEF SweepOK, SweepType
  <2>5. QED BY <1>12, <2>1, <2>2, <2>3, <2>4 DEF SweepIndexes, Typed, TypeOK, SweepOK, ghosts
<1>13. ASSUME SweepDerives PROVE Typed'
  <2> DEFINE m == sweep.list[sweep.pos]
  <2>1. /\ sweep' \in SweepType /\ sweep'.list = sweep.list /\ sweep'.chats = sweep.chats
        /\ sweep'.pos \in 1..Len(sweep.list) /\ m \in Msg
    BY <1>13, NextTyped DEF SweepDerives
  <2>2. /\ reactions' \subseteq Msg \X (Peer \union {Self})
        /\ notified' \subseteq {Key(n) : n \in Msg} /\ notes' \in [Msg -> Nat]
    BY <1>13, <2>1, DeriveTyped DEF SweepDerives, Typed, TypeOK
  <2>3. pending' \subseteq Peer
    BY <1>13 DEF SweepDerives, Typed, TypeOK
  <2>4. SweepOK'
    BY <2>1 DEF SweepOK, SweepType
  <2>5. QED BY <1>13, <2>1, <2>2, <2>3, <2>4 DEF SweepDerives, Typed, TypeOK, SweepOK, bounds, ghosts
<1>14. ASSUME NEW newer \in BOOLEAN, Restart(newer) PROVE Typed'
  <2>1. sweep' = NewSweep /\ Len(<<>>) = 0
    BY <1>14 DEF Restart
  <2>2. tasks' \in [Task -> TaskType]
    BY <1>14, IdleTyped DEF Restart
  <2>3. {ingested', own'} \subseteq SUBSET Msg /\ own' \subseteq ingested' /\ notified' = notified
        /\ reactions' \subseteq reactions /\ migrations' \in Nat /\ restarts' \in Nat
    BY <1>14 DEF Restart, Migrate, Typed, TypeOK
  <2>4. midCache' \in [Msg -> {"unknown", "mid", "null"}]
    BY <1>14 DEF Restart
  <2>5. SweepOK' /\ sweep' \in SweepType
    BY <2>1, NewSweepTyped DEF SweepOK, SweepType
  <2>6. {transport', touched'} \subseteq BOOLEAN
    <3>1. transport' \in BOOLEAN /\ touched' \in BOOLEAN
      BY <1>14 DEF Restart
    <3>2. QED BY <3>1
  <2>7. QED BY SMTT(30), <1>14, <2>2, <2>3, <2>4, <2>5, <2>6 DEF Restart, Typed, TypeOK, TaskType, SweepOK
<1>15. QED
  BY <1>1, <1>2, <1>3, <1>4, <1>5, <1>6, <1>7, <1>8, <1>9, <1>10, <1>11, <1>12, <1>13, <1>14 DEF Next

-----------------------------------------------------------------------------
(* Requests are answered once.                                             *)

\* No handler but t moves, and what t may do it was allowed to do before.
LEMMA AnswersOfTask ==
  ASSUME Typed, Answers, NEW t \in Task, \A u \in Task \ {t} : tasks'[u] = tasks[u],
         \A m \in Msg : Holds(t, m)' => Holds(t, m),
         tasks'[t].at \in {"granting", "joining"} => tasks'[t].fresh,
         granted' = granted, joined' = joined, migrations' = migrations, ingested \subseteq ingested'
  PROVE  Answers'
<1>1. \A u \in Task, m \in Msg : Holds(u, m)' => Holds(u, m)
  BY DEF Holds
<1>2. \A u \in Task : tasks'[u].at \in {"granting", "joining"} => tasks'[u].fresh
  BY DEF Answers
<1>3. QED BY <1>1, <1>2 DEF Answers, Unanswered

LEMMA AnswersFrame ==
  ASSUME Typed, Answers, tasks' = tasks, granted' = granted, joined' = joined,
         migrations' = migrations, ingested \subseteq ingested'
  PROVE  Answers'
<1>1. \A u \in Task, m \in Msg : Holds(u, m)' <=> Holds(u, m)
  BY DEF Holds
<1>2. QED BY <1>1 DEF Answers, Unanswered

\* A handler that held the right to act on m holds none now.
LEMMA AnswersUsed ==
  ASSUME Typed, Answers, NEW t \in Task, NEW m \in Msg, Holds(t, m),
         \A u \in Task \ {t} : tasks'[u] = tasks[u], \A n \in Msg : ~Holds(t, n)',
         tasks'[t].at \notin {"granting", "joining"},
         \A n \in Msg : n # m => granted'[n] = granted[n] /\ joined'[n] = joined[n],
         granted'[m] \in {granted[m], granted[m] + 1}, joined'[m] \in {joined[m], joined[m] + 1},
         migrations' = migrations, ingested' = ingested
  PROVE  Answers'
<1>1. \A u \in Task, n \in Msg : Holds(u, n)' => Holds(u, n) /\ u # t
  BY DEF Holds
<1>2. \A u \in Task : ~Holds(u, m)'
  BY <1>1 DEF Answers
<1>3. granted \in [Msg -> Nat] /\ joined \in [Msg -> Nat] /\ migrations \in Nat
  BY DEF Typed, TypeOK
<1>4. Unanswered(m) /\ m \in ingested
  BY DEF Answers
<1>5. granted'[m] <= 1 + migrations /\ joined'[m] <= 1 + migrations
  BY <1>3, <1>4 DEF Unanswered
<1>6. \A u \in Task : tasks'[u].at \in {"granting", "joining"} => tasks'[u].fresh
  BY DEF Answers
<1>7. QED BY <1>1, <1>2, <1>4, <1>5, <1>6 DEF Answers, Unanswered

LEMMA AnswersStep == ASSUME Typed, Typed', Answers, Next PROVE Answers'
<1>1. CASE \/ \E m \in Msg : Arrive(m)
           \/ \E p \in Peer : Ask(p) \/ Record(p)
           \/ Assign \/ SweepNothing \/ SweepDerives
           \/ \E c \in Chats : Collect(c)
  <2>1. UNCHANGED <<tasks, granted, joined, migrations, ingested>>
    BY <1>1 DEF Arrive, Ask, Record, Assign, SweepNothing, SweepDerives, Collect, store, bounds, ghosts
  <2>2. QED BY <2>1, AnswersFrame
<1>2. ASSUME NEW found \in BOOLEAN, SweepIndexes(found) PROVE Answers'
  <2>1. ingested \subseteq ingested' /\ UNCHANGED <<tasks, granted, joined, migrations>>
    BY <1>2 DEF SweepIndexes, Index, ghosts
  <2>2. QED BY <2>1, AnswersFrame
<1>3. ASSUME NEW t \in Task, NEW m \in Msg, NEW by \in {"event", "api"}, Begin(t, m, by) PROVE Answers'
  <2>1. /\ \A u \in Task \ {t} : tasks'[u] = tasks[u]
        /\ tasks'[t].at = "loading"
        /\ UNCHANGED <<granted, joined, migrations, ingested>>
    BY <1>3 DEF Begin, Typed, TypeOK, store, bounds, ghosts
  <2>2. QED BY <2>1, AnswersOfTask DEF Holds
<1>4. ASSUME NEW t \in Task, NEW found \in BOOLEAN, TaskIndexes(t, found) PROVE Answers'
  <2> DEFINE m == tasks[t].msg
  <2>1. /\ \A u \in Task \ {t} : tasks'[u] = tasks[u]
        /\ UNCHANGED <<granted, joined, migrations>> /\ m \in Msg
    BY <1>4 DEF TaskIndexes, Typed, TypeOK, ghosts
  <2>2. CASE ~found
    <3>1. tasks'[t] = IdleTask /\ ingested' = ingested
      BY <1>4, <2>2 DEF TaskIndexes, Typed, TypeOK
    <3>2. QED BY <2>1, <3>1, IdleTyped, AnswersOfTask DEF Holds
  <2>3. CASE found
    <3>1. /\ tasks'[t].at = "indexed" /\ tasks'[t].msg = m /\ (tasks'[t].fresh <=> m \notin ingested)
          /\ ingested' = ingested \union {m}
      BY <1>4, <2>3 DEF TaskIndexes, Typed, TypeOK, Index
    <3>2. CASE m \in ingested
      BY <2>1, <3>1, <3>2, AnswersOfTask DEF Holds
    <3>3. CASE m \notin ingested
      <4>1. \A u \in Task : ~Holds(u, m)
        BY <2>1, <3>3 DEF Answers
      <4>2. \A u \in Task, n \in Msg : Holds(u, n)' => Holds(u, n) \/ (u = t /\ n = m)
        BY <2>1, <3>1 DEF Holds
      <4>3. \A u \in Task : tasks'[u].at \in {"granting", "joining"} => tasks'[u].fresh
        BY <2>1, <3>1 DEF Answers
      <4>4. Unanswered(m)
        BY <2>1, <3>3 DEF Answers
      <4>5. \A n \in Msg : Unanswered(n)' <=> Unanswered(n)
        BY <2>1 DEF Unanswered
      <4>6. \A n \in Msg : \A u, v \in Task : Holds(u, n)' /\ Holds(v, n)' => u = v
        BY <4>1, <4>2 DEF Answers
      <4>7. \A n \in Msg : \A u \in Task : Holds(u, n)' => Unanswered(n)' /\ n \in ingested'
        BY <3>1, <4>2, <4>4, <4>5 DEF Answers
      <4>8. \A n \in Msg : n \notin ingested' => Unanswered(n)'
        BY <3>1, <4>5 DEF Answers
      <4>9. QED BY <2>1, <4>3, <4>6, <4>7, <4>8 DEF Answers
    <3>4. QED BY <3>2, <3>3
  <2>4. QED BY <2>2, <2>3
<1>5. ASSUME NEW t \in Task, TaskDerives(t) PROVE Answers'
  <2> DEFINE next == IF Acts(t) THEN Followup(tasks[t].msg) ELSE "idle"
  <2>1. /\ tasks[t].at = "indexed"
        /\ tasks' = [tasks EXCEPT ![t] = IF next = "idle" THEN IdleTask ELSE [@ EXCEPT !.at = next]]
        /\ UNCHANGED <<granted, joined, migrations, ingested>>
    BY <1>5 DEF TaskDerives, bounds
  <2>2. next # "idle" => tasks[t].fresh
    BY DEF Acts
  <2> HIDE DEF next
  <2>3. /\ \A u \in Task \ {t} : tasks'[u] = tasks[u]
        /\ tasks'[t] = IF next = "idle" THEN IdleTask ELSE [tasks[t] EXCEPT !.at = next]
    BY <2>1 DEF Typed, TypeOK
  <2>4. tasks[t] \in TaskType
    BY DEF Typed, TypeOK, TaskType
  <2>5. \/ tasks'[t] = IdleTask
        \/ tasks[t].fresh /\ tasks'[t].fresh /\ tasks'[t].msg = tasks[t].msg
    BY <2>2, <2>3, <2>4 DEF TaskType
  <2>6. \A m \in Msg : Holds(t, m)' => Holds(t, m)
    BY <2>1, <2>5, IdleTyped DEF Holds
  <2>7. tasks'[t].at \in {"granting", "joining"} => tasks'[t].fresh
    BY <2>5, IdleTyped
  <2>8. QED BY <2>1, <2>3, <2>6, <2>7, AnswersOfTask
<1>6. ASSUME NEW t \in Task, NEW sent \in BOOLEAN, Grant(t, sent) PROVE Answers'
  <2> DEFINE m == tasks[t].msg
  <2>1. /\ m \in Msg /\ tasks[t].at = "granting" /\ \A u \in Task \ {t} : tasks'[u] = tasks[u]
        /\ tasks'[t] = IdleTask /\ UNCHANGED <<joined, migrations, ingested>>
    BY <1>6 DEF Grant, Typed, TypeOK, store, bounds
  <2>2. Holds(t, m)
    BY <2>1 DEF Answers, Holds
  <2>3. granted'[m] \in {granted[m], granted[m] + 1} /\ \A n \in Msg : n # m => granted'[n] = granted[n]
    BY <1>6, <2>1 DEF Grant, Typed, TypeOK
  <2>4. (\A n \in Msg : ~Holds(t, n)') /\ tasks'[t].at = "idle"
    BY <2>1, IdleTyped DEF Holds
  <2>5. QED BY <2>1, <2>2, <2>3, <2>4, AnswersUsed
<1>7. ASSUME NEW t \in Task, Join(t) PROVE Answers'
  <2> DEFINE m == tasks[t].msg
  <2>1. /\ m \in Msg /\ tasks[t].at = "joining" /\ \A u \in Task \ {t} : tasks'[u] = tasks[u]
        /\ tasks'[t].at = "joined" /\ UNCHANGED <<granted, migrations, ingested>>
    BY <1>7 DEF Join, Typed, TypeOK, store, bounds
  <2>2. Holds(t, m)
    BY <2>1 DEF Answers, Holds
  <2>3. joined'[m] \in {joined[m], joined[m] + 1} /\ \A n \in Msg : n # m => joined'[n] = joined[n]
    BY <1>7, <2>1 DEF Join, Typed, TypeOK
  <2>4. \A n \in Msg : ~Holds(t, n)'
    BY <2>1 DEF Holds
  <2>5. QED BY <2>1, <2>2, <2>3, <2>4, AnswersUsed
<1>8. ASSUME NEW t \in Task, Settle(t) PROVE Answers'
  <2>1. /\ \A u \in Task \ {t} : tasks'[u] = tasks[u]
        /\ tasks'[t] = IdleTask /\ UNCHANGED <<granted, joined, migrations, ingested>>
    BY <1>8 DEF Settle, Typed, TypeOK, bounds, ghosts
  <2>2. QED BY <2>1, IdleTyped, AnswersOfTask DEF Holds
<1>9. ASSUME NEW newer \in BOOLEAN, Restart(newer) PROVE Answers'
  <2>1. (\A t \in Task : tasks'[t] = IdleTask) /\ UNCHANGED <<granted, joined>>
    BY <1>9 DEF Restart
  <2>2. \A t \in Task : tasks'[t].at = "idle" /\ \A m \in Msg : ~Holds(t, m)'
    BY <2>1, IdleTyped DEF Holds
  <2>3. granted \in [Msg -> Nat] /\ joined \in [Msg -> Nat] /\ migrations \in Nat
    BY DEF Typed, TypeOK
  <2>4. \/ migrations' = migrations + 1
        \/ migrations' = migrations /\ ingested' = ingested
    BY <1>9 DEF Restart
  <2>5. \A m \in Msg : m \notin ingested' => Unanswered(m)'
    BY <2>1, <2>3, <2>4 DEF Answers, Unanswered
  <2>6. \A m \in Msg : granted'[m] <= 1 + migrations' /\ joined'[m] <= 1 + migrations'
    BY <2>1, <2>3, <2>4 DEF Answers
  <2>7. QED BY <2>2, <2>5, <2>6 DEF Answers
<1>10. QED BY <1>1, <1>2, <1>3, <1>4, <1>5, <1>6, <1>7, <1>8, <1>9 DEF Next

-----------------------------------------------------------------------------
(* A feed is joined on request only.                                       *)

LEMMA SolicitedStep == ASSUME Typed, Solicited, Next PROVE Solicited'
<1>1. CASE \/ \E m \in Msg : Arrive(m)
           \/ Assign \/ SweepNothing \/ SweepDerives
           \/ \E c \in Chats : Collect(c)
           \/ \E found \in BOOLEAN : SweepIndexes(found)
  <2>1. pending' \subseteq pending /\ UNCHANGED <<tasks, joined, asking, asked>>
    BY <1>1 DEF Arrive, Assign, SweepNothing, SweepDerives, SweepIndexes, Collect, store, bounds, ghosts
  <2>2. QED BY <2>1 DEF Solicited
<1>2. CASE \/ \E t \in Task, m \in Msg, by \in {"event", "api"} : Begin(t, m, by)
           \/ \E t \in Task, found \in BOOLEAN : TaskIndexes(t, found)
           \/ \E t \in Task, sent \in BOOLEAN : Grant(t, sent)
           \/ \E t \in Task : Settle(t)
  <2>1. pending' \subseteq pending /\ UNCHANGED <<joined, asking, asked>>
    BY <1>2 DEF Begin, TaskIndexes, Grant, Settle, store, bounds, ghosts
  <2>2. \A u \in Task : tasks'[u].at = "joining" => tasks'[u] = tasks[u]
    <3>1. ASSUME NEW t \in Task, NEW m \in Msg, NEW by \in {"event", "api"}, Begin(t, m, by)
          PROVE  \A u \in Task : tasks'[u].at = "joining" => tasks'[u] = tasks[u]
      BY <3>1 DEF Begin, Typed, TypeOK
    <3>2. ASSUME NEW t \in Task, NEW found \in BOOLEAN, TaskIndexes(t, found)
          PROVE  \A u \in Task : tasks'[u].at = "joining" => tasks'[u] = tasks[u]
      <4>1. (tasks'[t].at = "indexed" \/ tasks'[t] = IdleTask) /\ \A u \in Task \ {t} : tasks'[u] = tasks[u]
        BY <3>2 DEF TaskIndexes, Typed, TypeOK
      <4>2. QED BY <4>1, IdleTyped
    <3>3. ASSUME NEW t \in Task, NEW sent \in BOOLEAN, Grant(t, sent) \/ Settle(t)
          PROVE  \A u \in Task : tasks'[u].at = "joining" => tasks'[u] = tasks[u]
      <4>1. tasks'[t] = IdleTask /\ \A u \in Task \ {t} : tasks'[u] = tasks[u]
        BY <3>3 DEF Grant, Settle, Typed, TypeOK
      <4>2. QED BY <4>1, IdleTyped
    <3>4. QED BY <1>2, <3>1, <3>2, <3>3
  <2>3. QED BY <2>1, <2>2 DEF Solicited
<1>3. ASSUME NEW t \in Task, TaskDerives(t) PROVE Solicited'
  <2> DEFINE next == IF Acts(t) THEN Followup(tasks[t].msg) ELSE "idle"
  <2>1. /\ tasks' = [tasks EXCEPT ![t] = IF next = "idle" THEN IdleTask ELSE [@ EXCEPT !.at = next]]
        /\ UNCHANGED <<pending, joined, asking, asked>>
    BY <1>3 DEF TaskDerives
  <2>2. next = "joining" => From[tasks[t].msg] \in pending
    BY DEF Followup
  <2> HIDE DEF next
  <2>3. tasks[t] \in TaskType /\ \A u \in Task \ {t} : tasks'[u] = tasks[u]
    BY <2>1 DEF Typed, TypeOK, TaskType
  <2>4. tasks'[t] = IF next = "idle" THEN IdleTask ELSE [tasks[t] EXCEPT !.at = next]
    BY <2>1 DEF Typed, TypeOK
  <2>5. tasks'[t].at = "joining" => next = "joining" /\ tasks'[t].msg = tasks[t].msg
    BY <2>3, <2>4, IdleTyped DEF TaskType
  <2>6. QED BY <2>1, <2>2, <2>3, <2>5 DEF Solicited
<1>4. ASSUME NEW t \in Task, Join(t) PROVE Solicited'
  <2>1. /\ tasks[t].at = "joining" /\ joined' = [joined EXCEPT ![tasks[t].msg] = @ + 1]
        /\ tasks'[t].at = "joined" /\ \A u \in Task \ {t} : tasks'[u] = tasks[u]
        /\ UNCHANGED <<pending, asking, asked>>
    BY <1>4 DEF Join, Typed, TypeOK, store, bounds
  <2>2. \A m \in Msg : joined'[m] > 0 => m = tasks[t].msg \/ joined[m] > 0
    BY <2>1 DEF Typed, TypeOK
  <2>3. QED BY <2>1, <2>2 DEF Solicited
<1>5. ASSUME NEW p \in Peer, Ask(p) \/ Record(p) PROVE Solicited'
  <2>1. /\ asked \subseteq asked' /\ pending' \union asking' \subseteq asked'
        /\ UNCHANGED <<tasks, joined>>
    BY <1>5 DEF Ask, Record, Solicited, store, bounds, ghosts
  <2>2. QED BY <2>1 DEF Solicited
<1>6. ASSUME NEW newer \in BOOLEAN, Restart(newer) PROVE Solicited'
  <2>1. /\ \A u \in Task : tasks'[u].at = "idle"
        /\ asking' = {} /\ UNCHANGED <<pending, joined, asked>>
    BY <1>6, IdleTyped DEF Restart
  <2>2. QED BY <2>1 DEF Solicited
<1>7. QED BY <1>1, <1>2, <1>3, <1>4, <1>5, <1>6 DEF Next

-----------------------------------------------------------------------------
(* An event is notified once.                                              *)

LEMMA DeriveNotes ==
  ASSUME Typed, Notes, NEW m \in Msg, Derive(m) PROVE Notes'
<1>1. notes \in [Msg -> Nat]
  BY DEF Typed, TypeOK
<1>2. CASE Notifies(m)
  <2>1. /\ Key(m) \notin notified /\ notified' = notified \union {Key(m)}
        /\ notes' = [notes EXCEPT ![Counted(m)] = @ + 1]
    BY <1>2 DEF Derive, Notifies
  <2>2. Counted(m) \in Msg /\ Key(Counted(m)) = Key(m)
    BY CountedHasKey
  <2>3. notes[Counted(m)] = 0
    BY <1>1, <2>1, <2>2 DEF Notes
  <2>4. QED BY <1>1, <2>1, <2>2, <2>3 DEF Notes
<1>3. CASE ~Notifies(m)
  BY <1>3 DEF Derive, Notes
<1>4. QED BY <1>2, <1>3

LEMMA NotesStep == ASSUME Typed, Notes, Next PROVE Notes'
<1>1. CASE \E t \in Task : TaskDerives(t)
  BY <1>1, DeriveNotes DEF TaskDerives, Typed, TypeOK
<1>2. CASE SweepDerives
  <2>1. sweep.list[sweep.pos] \in Msg
    BY <1>2, NextTyped DEF SweepDerives
  <2>2. QED BY <1>2, <2>1, DeriveNotes DEF SweepDerives, Notes
<1>3. CASE ~(\E t \in Task : TaskDerives(t)) /\ ~SweepDerives
  <2>1. UNCHANGED <<notes, notified>>
    BY <1>3 DEF Next, Arrive, Begin, TaskIndexes, Grant, Join, Settle, Ask, Record, Assign, Collect,
                SweepNothing, SweepIndexes, Restart, Migrate, store, ghosts
  <2>2. QED BY <2>1 DEF Notes
<1>4. QED BY <1>1, <1>2, <1>3

-----------------------------------------------------------------------------
(* The two passes of a sweep.                                              *)

(* How far the passes are. *)
LEMMA Spans ==
  ASSUME Typed
  PROVE  /\ Len(sweep.list) \in Nat
         /\ IndexedTo \in 0..Len(sweep.list) /\ DerivedTo \in 0..Len(sweep.list)
         /\ DerivedTo # 0 => IndexedTo = Len(sweep.list)
         /\ \A i \in 1..Len(sweep.list) : sweep.list[i] \in Msg
<1>1. sweep.list \in Seq(Msg) /\ Len(sweep.list) \in Nat /\ sweep.pos \in Nat \ {0}
      /\ sweep.pos <= Len(sweep.list) + 1
  BY DEF Typed, TypeOK, SweepType
<1>2. QED BY <1>1 DEF IndexedTo, DerivedTo

\* Nothing is lost that was sure, and nothing lost comes back.
Remembers ==
  \A n \in Msg : /\ midCache[n] = "null" => midCache'[n] = "null"
                 /\ Sure(n) => Sure(n)'

LEMMA OwnedIndexed ==
  ASSUME Typed, Owned, NEW m \in Msg, Index(m)
  PROVE  Owned' /\ m \in ingested' /\ ingested \subseteq ingested'
  BY DEF Owned, Index, Typed, TypeOK

LEMMA PassesFrame ==
  ASSUME Typed, Passes, sweep' = sweep, Remembers, ingested \subseteq ingested', Owned',
         notified \subseteq notified'
  PROVE  Passes'
<1>1. /\ IndexedTo' = IndexedTo /\ DerivedTo' = DerivedTo
      /\ IndexedTo \in 0..Len(sweep.list) /\ DerivedTo \in 0..Len(sweep.list)
      /\ \A i \in 1..Len(sweep.list) : sweep.list[i] \in Msg
  BY Spans DEF IndexedTo, DerivedTo
<1>2. Indexed'
  BY <1>1 DEF Passes, Indexed, Remembers
<1>3. Swept' \subseteq Swept
  <2>1. ToSet(sweep.list) \subseteq Msg
    BY DEF ToSet, Typed, TypeOK
  <2>2. QED BY <2>1 DEF Swept, Remembers
<1>4. \A i \in 1..DerivedTo : Calls(i)' => Calls(i)
  BY <1>1, <1>3 DEF Calls, Remembers
<1>5. Notified'
  BY <1>1, <1>4 DEF Passes, Notified
<1>6. QED BY <1>2, <1>5 DEF Passes

LEMMA PassesStep == ASSUME Typed, Typed', Passes, Next PROVE Passes'
<1>1. CASE \/ \E m \in Msg : Arrive(m)
           \/ \E t \in Task, m \in Msg, by \in {"event", "api"} : Begin(t, m, by)
           \/ \E t \in Task : TaskDerives(t)
           \/ \E t \in Task, sent \in BOOLEAN : Grant(t, sent)
           \/ \E t \in Task : Join(t) \/ Settle(t)
           \/ \E p \in Peer : Ask(p) \/ Record(p)
           \/ Assign
  <2>1. UNCHANGED <<sweep, midCache, failures, ingested, own>>
    BY <1>1 DEF Arrive, Begin, TaskDerives, Grant, Join, Settle, Ask, Record, Assign, store, bounds
  <2>2. notified \subseteq notified'
    BY <1>1 DEF Arrive, Begin, TaskDerives, Derive, Grant, Join, Settle, Ask, Record, Assign, store
  <2>3. Owned' /\ Remembers
    BY <2>1 DEF Passes, Owned, Remembers, Sure
  <2>4. QED BY <2>1, <2>2, <2>3, PassesFrame
<1>2. ASSUME NEW t \in Task, NEW found \in BOOLEAN, TaskIndexes(t, found) PROVE Passes'
  <2>1. /\ tasks[t].msg \in Msg /\ ResolveMid(tasks[t].msg, found) /\ UNCHANGED <<sweep, notified>>
        /\ midCache \in [Msg -> {"unknown", "mid", "null"}] /\ failures \in Nat
    BY <1>2 DEF TaskIndexes, Typed, TypeOK
  <2>2. Remembers
    BY <2>1, LookedUp DEF Remembers
  <2>3. Owned' /\ ingested \subseteq ingested'
    <3>1. CASE found
      BY <1>2, <2>1, <3>1, OwnedIndexed DEF TaskIndexes, Passes
    <3>2. CASE ~found
      BY <1>2, <3>2 DEF TaskIndexes, Passes, Owned
    <3>3. QED BY <3>1, <3>2
  <2>4. QED BY <2>1, <2>2, <2>3, PassesFrame
<1>3. ASSUME NEW c \in Chats, Collect(c) PROVE Passes'
  <2>1. sweep'.at \in {"collect", "index"} /\ sweep'.pos = 1 /\ UNCHANGED <<ingested, own>>
    BY <1>3, CollectTyped DEF Collect, store
  <2>2. IndexedTo' = 0 /\ DerivedTo' = 0
    BY <2>1 DEF IndexedTo, DerivedTo
  <2>3. QED BY <2>1, <2>2 DEF Passes, Owned, Indexed, Notified
<1>4. ASSUME SweepNothing PROVE Passes'
  <2>1. sweep'.at = "done" /\ sweep'.list = <<>> /\ Len(<<>>) = 0 /\ UNCHANGED <<ingested, own>>
    BY <1>4, SweepNothingTyped DEF SweepNothing, store
  <2>2. IndexedTo' = 0 /\ DerivedTo' = 0
    BY <2>1 DEF IndexedTo, DerivedTo
  <2>3. QED BY <2>1, <2>2 DEF Passes, Owned, Indexed, Notified
<1>5. ASSUME NEW found \in BOOLEAN, SweepIndexes(found) PROVE Passes'
  <2>1. /\ sweep.at = "index" /\ sweep.list # <<>> /\ sweep' = NextOf("index", "derive")
        /\ ResolveMid(sweep.list[sweep.pos], found)
        /\ IF found THEN Index(sweep.list[sweep.pos]) ELSE UNCHANGED <<ingested, own>>
    BY <1>5 DEF SweepIndexes
  <2>2. /\ sweep.list[sweep.pos] \in Msg /\ sweep'.list = sweep.list
        /\ sweep.pos \in 1..Len(sweep.list)
        /\ \/ sweep.pos < Len(sweep.list) /\ sweep'.at = "index" /\ sweep'.pos = sweep.pos + 1
           \/ sweep.pos = Len(sweep.list) /\ sweep'.at = "derive" /\ sweep'.pos = 1
    BY <2>1, NextTyped
  <2>3. IndexedTo = sweep.pos - 1 /\ IndexedTo' = sweep.pos /\ DerivedTo' = 0
    BY <2>1, <2>2 DEF IndexedTo, DerivedTo
  <2>4. PICK m \in Msg : m = sweep.list[sweep.pos]
    BY <2>2
  <2>5. midCache \in [Msg -> {"unknown", "mid", "null"}] /\ failures \in Nat /\ ResolveMid(m, found)
    BY <2>1, <2>4 DEF Typed, TypeOK
  <2>6. /\ \A n \in Msg : /\ midCache[n] = "null" => midCache'[n] = "null"
                          /\ Sure(n) => Sure(n)'
        /\ found => Sure(m)'
        /\ ~found => midCache'[m] = "null"
    BY <2>5, LookedUp
  <2>7. Remembers
    BY <2>6 DEF Remembers
  <2>8. Owned' /\ ingested \subseteq ingested' /\ (found => m \in ingested')
    BY <2>1, <2>4, OwnedIndexed DEF Passes, Owned
  <2>9. \A i \in 1..Len(sweep.list) : sweep.list[i] \in Msg
    BY Spans
  <2>10. ASSUME NEW n \in Msg, NEW i \in 1..sweep.pos, n = sweep.list[i]
         PROVE  midCache'[n] = "null" \/ (Sure(n)' /\ n \in ingested')
    <3>1. CASE i = sweep.pos
      BY <2>4, <2>6, <2>8, <2>10, <3>1
    <3>2. CASE i # sweep.pos
      <4>1. i \in 1..IndexedTo
        BY <2>2, <2>3, <3>2
      <4>2. midCache[n] = "null" \/ (Sure(n) /\ n \in ingested)
        BY <2>10, <4>1 DEF Passes, Indexed
      <4>3. QED BY <2>6, <2>8, <4>2
    <3>3. QED BY <3>1, <3>2
  <2>11. Indexed'
    <3> SUFFICES ASSUME NEW i \in 1..sweep.pos
                 PROVE  midCache'[sweep'.list[i]] = "null"
                        \/ (Sure(sweep.list[i])' /\ sweep'.list[i] \in ingested')
      BY <2>3 DEF Indexed
    <3>1. PICK n \in Msg : n = sweep.list[i]
      BY <2>2, <2>9
    <3>2. midCache'[n] = "null" \/ (Sure(n)' /\ n \in ingested')
      BY <2>10, <3>1
    <3>3. n = sweep'.list[i]
      BY <2>2, <3>1
    <3>4. QED BY <3>2, <3>3 DEF Sure
  <2>12. Notified'
    BY <2>3 DEF Notified
  <2>13. QED BY <2>8, <2>11, <2>12 DEF Passes
<1>6. ASSUME SweepDerives PROVE Passes'
  <2> DEFINE m == sweep.list[sweep.pos]
  <2>1. /\ sweep.at = "derive" /\ sweep.list # <<>> /\ sweep' = NextOf("derive", "done")
        /\ (midCache[m] # "null" => Derive(m)) /\ (midCache[m] = "null" => notified' = notified)
        /\ UNCHANGED <<ingested, own, midCache, failures>>
    BY <1>6 DEF SweepDerives, bounds
  <2>2. /\ m \in Msg /\ sweep'.list = sweep.list /\ sweep.pos \in 1..Len(sweep.list)
        /\ \/ sweep.pos < Len(sweep.list) /\ sweep'.at = "derive" /\ sweep'.pos = sweep.pos + 1
           \/ sweep.pos = Len(sweep.list) /\ sweep'.at = "done" /\ sweep'.pos = 1
    BY <2>1, NextTyped
  <2>3. /\ DerivedTo = sweep.pos - 1 /\ DerivedTo' = sweep.pos
        /\ IndexedTo = Len(sweep.list) /\ IndexedTo' = Len(sweep.list)
    BY <2>1, <2>2 DEF IndexedTo, DerivedTo
  <2>4. Owned' /\ Indexed'
    BY <2>1, <2>2, <2>3 DEF Passes, Owned, Indexed, Sure
  <2>5. \A i : Calls(i)' <=> Calls(i)
    BY <2>1, <2>2 DEF Calls, Swept
  <2>6. notified \subseteq notified'
    BY <2>1 DEF Derive
  <2>7. Calls(sweep.pos) => Key(m) \in notified'
    <3> SUFFICES ASSUME Calls(sweep.pos) PROVE Key(m) \in notified'
      OBVIOUS
    <3>1. /\ midCache[m] # "null" /\ Kind[m] \in {"react", "reply"} /\ From[m] # Self
          /\ About[m] \in Swept /\ From[About[m]] = Self
      BY DEF Calls
    <3>2. About[m] \in own
      <4>1. \E i \in 1..Len(sweep.list) : About[m] = sweep.list[i] /\ midCache[sweep.list[i]] # "null"
        <5>1. sweep.list \in Seq(Msg) /\ About[m] \in ToSet(sweep.list) /\ midCache[About[m]] # "null"
          BY <3>1 DEF Swept, Typed, TypeOK
        <5>2. PICK i \in DOMAIN sweep.list : sweep.list[i] = About[m]
          BY <5>1 DEF ToSet
        <5>3. i \in 1..Len(sweep.list)
          BY <5>1, <5>2
        <5>4. QED BY <5>1, <5>2, <5>3
      <4>2. About[m] \in ingested
        BY <2>3, <4>1 DEF Passes, Indexed
      <4>3. QED BY <3>1, <4>2 DEF Passes, Owned
    <3>3. QED BY <2>1, <3>1, <3>2 DEF Derive, Notifies
  <2>8. Notified'
    <3> SUFFICES ASSUME NEW i \in 1..sweep.pos, Calls(i) PROVE Key(sweep.list[i]) \in notified'
      BY <2>2, <2>3, <2>5 DEF Notified
    <3>1. CASE i = sweep.pos
      BY <2>7, <3>1
    <3>2. CASE i # sweep.pos
      <4>1. i \in 1..DerivedTo
        BY <2>2, <2>3, <3>2
      <4>2. QED BY <2>6, <4>1 DEF Passes, Notified
    <3>3. QED BY <3>1, <3>2
  <2>9. QED BY <2>4, <2>8 DEF Passes
<1>7. ASSUME NEW newer \in BOOLEAN, Restart(newer) PROVE Passes'
  <2>1. sweep'.at = "collect"
    BY <1>7, NewSweepTyped DEF Restart
  <2>2. IndexedTo' = 0 /\ DerivedTo' = 0
    BY <2>1 DEF IndexedTo, DerivedTo
  <2>3. ingested' = {} \/ (ingested' = ingested /\ own' = own)
    BY <1>7 DEF Restart, Migrate
  <2>4. QED BY <2>2, <2>3 DEF Passes, Owned, Indexed, Notified
<1>8. QED BY <1>1, <1>2, <1>3, <1>4, <1>5, <1>6, <1>7 DEF Next

-----------------------------------------------------------------------------
(* The list of a sweep, and the tallies it leaves.                         *)

LEMMA ChronicleFrame ==
  ASSUME Chronicle, history' = history, sweep'.list = sweep.list, sweep'.chats = sweep.chats
  PROVE  Chronicle'
  BY DEF Chronicle, Before

LEMMA ChronicleStep == ASSUME Typed, Chronicle, Next PROVE Chronicle'
<1>1. ASSUME NEW m \in Msg, Arrive(m) PROVE Chronicle'
  <2>1. /\ history' = [history EXCEPT ![Chat[m]] = Append(@, m)] /\ sweep' = sweep
        /\ history \in [Chats -> Seq(Msg)] /\ Chat[m] \in Chats
    <3>1. history \in [Chats -> Seq(cast)] /\ cast \subseteq Msg
      BY DEF Typed, TypeOK
    <3>2. \A c \in Chats : history[c] \in Seq(Msg)
      BY <3>1
    <3>3. QED BY <1>1, <3>1, <3>2, ChatTyped DEF Arrive
  <2>2. \A c \in Chats : history[c] \in Seq(Msg) /\ Len(history[c]) \in Nat
    BY <2>1
  <2>3. \A c \in Chats : c # Chat[m] => history'[c] = history[c]
    BY <2>1
  <2>4. history'[Chat[m]] = Append(history[Chat[m]], m)
    BY <2>1
  <2>5. \A c \in Chats : /\ Len(history'[c]) \in Nat /\ Len(history'[c]) >= Len(history[c])
                         /\ \A i \in 1..Len(history[c]) : history'[c][i] = history[c][i]
                         /\ \A i \in 1..Len(history'[c]) : i > Len(history[c]) => history'[c][i] = m /\ c = Chat[m]
    BY <2>1, <2>2, <2>3, <2>4
  <2>6. \A c \in Chats : \A i \in 1..Len(history'[c]) : Chat[history'[c][i]] = c
    BY <2>2, <2>5 DEF Chronicle
  <2>7. \A a, b \in Msg : Before(a, b) => Before(a, b)'
    <3> SUFFICES ASSUME NEW a \in Msg, NEW b \in Msg, Before(a, b) PROVE Before(a, b)'
      OBVIOUS
    <3>1. Chat[b] \in Chats
      BY ChatTyped
    <3>2. PICK j \in 1..Len(history[Chat[b]]) :
            \E i \in 1..(j - 1) : history[Chat[b]][i] = a /\ history[Chat[b]][j] = b
      BY DEF Before
    <3>3. PICK i \in 1..(j - 1) : history[Chat[b]][i] = a /\ history[Chat[b]][j] = b
      BY <3>2
    <3>4. /\ j \in 1..Len(history'[Chat[b]]) /\ i \in 1..Len(history[Chat[b]])
          /\ history'[Chat[b]][i] = a /\ history'[Chat[b]][j] = b
      BY <2>2, <2>5, <3>1, <3>3
    <3>5. QED BY <3>3, <3>4 DEF Before
  <2>8. \A i \in 1..Len(sweep.list) : sweep.list[i] \in Msg
    BY Spans
  <2>9. QED BY <2>1, <2>6, <2>7, <2>8 DEF Chronicle
<1>2. ASSUME NEW c \in Chats, Collect(c) PROVE Chronicle'
  <2>0. PICK h \in Seq(Msg), L \in Seq(Msg), n \in Nat : h = history[c] /\ L = sweep.list /\ n = Len(L)
    <3>1. history[c] \in Seq(Msg) /\ sweep.list \in Seq(Msg)
      BY <1>2, CollectTyped DEF Collect
    <3>2. Len(sweep.list) \in Nat
      BY <3>1
    <3>3. QED BY <3>1, <3>2
  <2>1. /\ sweep'.list = L \o h /\ sweep'.chats = sweep.chats \ {c} /\ c \in sweep.chats
        /\ history' = history
    BY <1>2, <2>0, CollectTyped DEF Collect
  <2>c. /\ Len(L \o h) = Len(L) + Len(h)
        /\ \A i \in 1..(Len(L) + Len(h)) :
             (L \o h)[i] = IF i <= Len(L) THEN L[i] ELSE h[i - Len(L)]
    BY ConcatProperties
  <2>2. n = Len(L) /\ Len(L) \in Nat /\ Len(h) \in Nat /\ Len(L \o h) = n + Len(h)
    BY <2>0, <2>c
  <2>3. \A i \in 1..n : (L \o h)[i] = L[i]
    <3> SUFFICES ASSUME NEW i \in 1..n PROVE (L \o h)[i] = L[i]
      OBVIOUS
    <3>1. i \in 1..(Len(L) + Len(h)) /\ i <= Len(L)
      BY <2>2
    <3>2. QED BY <2>c, <3>1
  <2>3a. ASSUME NEW i \in 1..Len(L \o h), i > n
         PROVE  i - n \in 1..Len(h) /\ (L \o h)[i] = h[i - n]
    <3>1. i \in 1..(Len(L) + Len(h)) /\ ~(i <= Len(L)) /\ i - n \in 1..Len(h)
      BY <2>2, <2>3a
    <3>2. QED BY <2>0, <2>c, <3>1
  <2>4. \A i \in 1..Len(h) : Chat[h[i]] = c
    BY <2>0 DEF Chronicle
  <2>5. \A i, j \in 1..Len(h) : i < j => Before(h[i], h[j])
    <3> SUFFICES ASSUME NEW i \in 1..Len(h), NEW j \in 1..Len(h), i < j PROVE Before(h[i], h[j])
      OBVIOUS
    <3>1. Chat[h[j]] = c /\ i \in 1..(j - 1)
      BY <2>2, <2>4
    <3>2. QED BY <2>0, <3>1 DEF Before
  <2>6. \A i \in 1..Len(L \o h) : i <= n => i \in 1..n
    BY <2>0, <2>2
  <2>7. \A i \in 1..Len(L \o h) : Chat[(L \o h)[i]] \notin sweep.chats \ {c}
    <3> SUFFICES ASSUME NEW i \in 1..Len(L \o h) PROVE Chat[(L \o h)[i]] \notin sweep.chats \ {c}
      OBVIOUS
    <3>1. CASE i <= n
      <4>1. i \in 1..n
        BY <2>6, <3>1
      <4>2. Chat[L[i]] \notin sweep.chats
        BY <2>0, <4>1 DEF Chronicle
      <4>3. (L \o h)[i] = L[i]
        BY <2>3, <4>1
      <4>4. QED BY <4>2, <4>3
    <3>2. CASE i > n
      <4>1. i - n \in 1..Len(h) /\ (L \o h)[i] = h[i - n]
        BY <2>3a, <3>2
      <4>2. Chat[h[i - n]] = c
        BY <2>4, <4>1
      <4>3. QED BY <4>1, <4>2
    <3>3. QED BY <2>0, <2>2, <3>1, <3>2
  <2>8. \A a, b : Before(a, b)' <=> Before(a, b)
    BY <2>1 DEF Before
  <2>9. ASSUME NEW i \in 1..Len(L \o h), NEW j \in 1..Len(L \o h), i < j,
               Chat[(L \o h)[i]] = Chat[(L \o h)[j]]
        PROVE  Before((L \o h)[i], (L \o h)[j])
    <3>1. CASE j <= n
      <4>1. i \in 1..n /\ j \in 1..n
        BY <2>0, <2>2, <2>9, <3>1
      <4>2. (L \o h)[i] = L[i] /\ (L \o h)[j] = L[j]
        BY <2>3, <4>1
      <4>3. Chat[L[i]] = Chat[L[j]] => Before(L[i], L[j])
        BY <2>0, <2>9, <4>1 DEF Chronicle
      <4>4. QED BY <2>9, <4>2, <4>3
    <3>2. CASE i <= n /\ j > n
      <4>1. i \in 1..n /\ j - n \in 1..Len(h) /\ (L \o h)[j] = h[j - n] /\ (L \o h)[i] = L[i]
        BY <2>3, <2>3a, <2>6, <3>2
      <4>2. Chat[L[i]] \notin sweep.chats
        BY <2>0, <4>1 DEF Chronicle
      <4>3. Chat[h[j - n]] = c
        BY <2>4, <4>1
      <4>4. QED BY <2>1, <2>9, <4>1, <4>2, <4>3
    <3>3. CASE i > n
      <4>1. j > n
        BY <2>0, <2>2, <2>9, <3>3
      <4>2. /\ i - n \in 1..Len(h) /\ (L \o h)[i] = h[i - n]
            /\ j - n \in 1..Len(h) /\ (L \o h)[j] = h[j - n]
        BY <2>3a, <3>3, <4>1
      <4>3. i - n < j - n
        BY <2>0, <2>2, <2>9
      <4>4. Before(h[i - n], h[j - n])
        BY <2>5, <4>2, <4>3
      <4>5. QED BY <4>2, <4>4
    <3>4. QED BY <2>0, <2>2, <3>1, <3>2, <3>3
  <2>10. /\ \A x \in Chats : \A i \in 1..Len(history'[x]) : Chat[history'[x][i]] = x
         /\ \A i \in 1..Len(sweep'.list) : Chat[sweep'.list[i]] \notin sweep'.chats
    BY <2>1, <2>7 DEF Chronicle
  <2>11. \A i, j \in 1..Len(sweep'.list) :
           i < j /\ Chat[sweep'.list[i]] = Chat[sweep'.list[j]]
           => Before(sweep.list[i], sweep.list[j])'
    <3> SUFFICES ASSUME NEW i \in 1..Len(L \o h), NEW j \in 1..Len(L \o h), i < j,
                        Chat[(L \o h)[i]] = Chat[(L \o h)[j]]
                 PROVE  Before(sweep.list[i], sweep.list[j])'
      BY <2>1
    <3>1. Before((L \o h)[i], (L \o h)[j])
      BY <2>9
    <3>2. QED BY <2>1, <3>1 DEF Before
  <2>12. QED BY <2>10, <2>11 DEF Chronicle
<1>3. ASSUME NEW newer \in BOOLEAN, Restart(newer) PROVE Chronicle'
  <2>1. sweep'.list = <<>> /\ Len(<<>>) = 0 /\ history' = history
    BY <1>3, NewSweepTyped DEF Restart
  <2>2. QED BY <2>1 DEF Chronicle
<1>4. CASE \/ \E t \in Task, m \in Msg, by \in {"event", "api"} : Begin(t, m, by)
           \/ \E t \in Task, found \in BOOLEAN : TaskIndexes(t, found)
           \/ \E t \in Task : TaskDerives(t)
           \/ \E t \in Task, sent \in BOOLEAN : Grant(t, sent)
           \/ \E t \in Task : Join(t) \/ Settle(t)
           \/ \E p \in Peer : Ask(p) \/ Record(p)
           \/ Assign
  <2>1. UNCHANGED <<history, sweep>>
    BY <1>4 DEF Begin, TaskIndexes, TaskDerives, Grant, Join, Settle, Ask, Record, Assign
  <2>2. QED BY <2>1, ChronicleFrame
<1>5. CASE SweepNothing
  BY <1>5, SweepNothingTyped, ChronicleFrame DEF SweepNothing
<1>6. CASE (\E found \in BOOLEAN : SweepIndexes(found)) \/ SweepDerives
  <2>1. history' = history /\ sweep'.list = sweep.list /\ sweep'.chats = sweep.chats
    BY <1>6, NextTyped DEF SweepIndexes, SweepDerives
  <2>2. QED BY <2>1, ChronicleFrame
<1>7. QED BY <1>1, <1>2, <1>3, <1>4, <1>5, <1>6 DEF Next

\* What was derived is neither lost nor found again.
LEMMA TalliesFrame ==
  ASSUME Typed, Passes, Tallies, sweep' = sweep, Remembers,
         ~touched' => ~touched /\ reactions' = reactions
  PROVE  Tallies'
<1> SUFFICES ASSUME ~touched' PROVE Tallies'
  BY DEF Tallies
<1>1. /\ DerivedTo' = DerivedTo /\ DerivedTo \in 0..Len(sweep.list) /\ Len(sweep.list) \in Nat
      /\ \A i \in 1..DerivedTo : i \in 1..IndexedTo /\ sweep.list[i] \in Msg
  BY Spans DEF DerivedTo
<1>2. \A i \in 1..DerivedTo : midCache'[sweep.list[i]] = "null" <=> midCache[sweep.list[i]] = "null"
  BY <1>1 DEF Passes, Indexed, Remembers, Sure
<1>3. \A i \in 1..DerivedTo : LastTo(i, DerivedTo)' <=> LastTo(i, DerivedTo)
  BY <1>1, <1>2 DEF LastTo
<1>4. \A m : Right(m)' <=> Right(m)
  BY DEF Right
<1>5. QED BY <1>1, <1>2, <1>3, <1>4 DEF Tallies

LEMMA TalliesStep == ASSUME Typed, Typed', Passes, Tallies, Next PROVE Tallies'
<1>1. CASE \/ \E m \in Msg : Arrive(m)
           \/ \E t \in Task, m \in Msg, by \in {"event", "api"} : Begin(t, m, by)
           \/ \E t \in Task, sent \in BOOLEAN : Grant(t, sent)
           \/ \E t \in Task : Join(t) \/ Settle(t)
           \/ \E p \in Peer : Ask(p) \/ Record(p)
           \/ Assign
  <2>1. UNCHANGED <<sweep, midCache, failures, touched, reactions>>
    BY <1>1 DEF Arrive, Begin, Grant, Join, Settle, Ask, Record, Assign, store, bounds, ghosts
  <2>2. Remembers
    BY <2>1 DEF Remembers, Sure
  <2>3. QED BY <2>1, <2>2, TalliesFrame
<1>2. ASSUME NEW t \in Task, TaskDerives(t) PROVE Tallies'
  <2>1. /\ UNCHANGED <<sweep, midCache, failures>> /\ reactions' = Tallied(tasks[t].msg)
        /\ (touched' <=> touched \/ isReaction(tasks[t].msg))
    BY <1>2 DEF TaskDerives, Derive, bounds
  <2>2. ~touched' => ~touched /\ reactions' = reactions
    BY <2>1 DEF Tallied, isReaction
  <2>3. Remembers
    BY <2>1 DEF Remembers, Sure
  <2>4. QED BY <2>1, <2>2, <2>3, TalliesFrame
<1>3. ASSUME NEW t \in Task, NEW found \in BOOLEAN, TaskIndexes(t, found) PROVE Tallies'
  <2>1. /\ tasks[t].msg \in Msg /\ ResolveMid(tasks[t].msg, found) /\ UNCHANGED <<sweep, touched, reactions>>
        /\ midCache \in [Msg -> {"unknown", "mid", "null"}] /\ failures \in Nat
    BY <1>3 DEF TaskIndexes, Typed, TypeOK, ghosts
  <2>2. Remembers
    BY <2>1, LookedUp DEF Remembers
  <2>3. QED BY <2>1, <2>2, TalliesFrame
<1>4. CASE \/ \E c \in Chats : Collect(c)
           \/ SweepNothing
           \/ \E found \in BOOLEAN : SweepIndexes(found)
           \/ \E newer \in BOOLEAN : Restart(newer)
  <2>1. DerivedTo' = 0
    <3>1. ASSUME NEW c \in Chats, Collect(c) PROVE DerivedTo' = 0
      BY <3>1, CollectTyped DEF DerivedTo
    <3>2. ASSUME SweepNothing PROVE DerivedTo' = 0
      BY <3>2, SweepNothingTyped DEF DerivedTo
    <3>3. ASSUME NEW found \in BOOLEAN, SweepIndexes(found) PROVE DerivedTo' = 0
      <4>1. sweep'.at = "index" \/ (sweep'.at = "derive" /\ sweep'.pos = 1)
        BY <3>3, NextTyped DEF SweepIndexes
      <4>2. QED BY <4>1 DEF DerivedTo
    <3>4. ASSUME NEW newer \in BOOLEAN, Restart(newer) PROVE DerivedTo' = 0
      BY <3>4, NewSweepTyped DEF Restart, DerivedTo
    <3>5. QED BY <1>4, <3>1, <3>2, <3>3, <3>4
  <2>2. QED BY <2>1 DEF Tallies
<1>5. ASSUME SweepDerives PROVE Tallies'
  <2> DEFINE k == sweep.pos
             m == sweep.list[k]
  <2>1. /\ sweep.at = "derive" /\ sweep.list # <<>> /\ sweep' = NextOf("derive", "done")
        /\ (midCache[m] # "null" => reactions' = Tallied(m))
        /\ (midCache[m] = "null" => reactions' = reactions)
        /\ UNCHANGED <<midCache, failures, touched>>
    BY <1>5 DEF SweepDerives, Derive, bounds, ghosts
  <2>2. /\ m \in Msg /\ sweep'.list = sweep.list /\ k \in 1..Len(sweep.list)
        /\ \/ k < Len(sweep.list) /\ sweep'.at = "derive" /\ sweep'.pos = k + 1
           \/ k = Len(sweep.list) /\ sweep'.at = "done" /\ sweep'.pos = 1
    BY <2>1, NextTyped
  <2>3. DerivedTo = k - 1 /\ DerivedTo' = k /\ k \in Nat
    BY <2>1, <2>2 DEF DerivedTo
  <2> SUFFICES ASSUME ~touched, NEW i \in 1..k, midCache[sweep.list[i]] # "null",
                      isReaction(sweep.list[i]), LastTo(i, k)
               PROVE  Right(sweep.list[i])'
    BY <2>1, <2>2, <2>3 DEF Tallies, LastTo, Right
  <2>4. CASE i = k
    BY <2>1, <2>2, <2>4 DEF Right, Tallied, isReaction
  <2>5. CASE i # k
    <3>1. i \in 1..DerivedTo /\ k \in (i + 1)..k /\ \A j \in (i + 1)..(k - 1) : j \in (i + 1)..k
      BY <2>3, <2>5
    <3>2. LastTo(i, DerivedTo)
      BY <2>3, <3>1 DEF LastTo
    <3>3. Right(sweep.list[i])
      BY <3>1, <3>2 DEF Tallies
    <3>4. midCache[m] # "null" => ~Rivals(sweep.list[i], m)
      BY <3>1 DEF LastTo
    <3>5. <<About[sweep.list[i]], From[sweep.list[i]]>> \in reactions'
          <=> <<About[sweep.list[i]], From[sweep.list[i]]>> \in reactions
      BY <2>1, <3>4 DEF Tallied, Rivals, isReaction
    <3>6. QED BY <2>2, <3>3, <3>5 DEF Right
  <2>6. QED BY <2>4, <2>5
<1>6. QED BY <1>1, <1>2, <1>3, <1>4, <1>5 DEF Next

-----------------------------------------------------------------------------
LEMMA StutterStep == ASSUME IInv, UNCHANGED vars PROVE IInv'
<1>1. Typed'
  BY DEF IInv, vars, Typed, TypeOK
<1>2. Answers' /\ Solicited' /\ Notes'
  BY DEF IInv, vars, Answers, Holds, Unanswered, Solicited, Notes
<1>3. Passes' /\ Tallies'
  <2>1. Remembers /\ sweep' = sweep /\ Owned'
    BY DEF IInv, vars, Remembers, Sure, Passes, Owned
  <2>2. QED BY <2>1, PassesFrame, TalliesFrame DEF IInv, vars
<1>4. Chronicle'
  BY ChronicleFrame DEF IInv, vars
<1>5. QED BY <1>1, <1>2, <1>3, <1>4 DEF IInv

LEMMA NextIInv == IInv /\ [Next]_vars => IInv'
<1>1. ASSUME IInv, Next PROVE IInv'
  BY <1>1, TypedStep, AnswersStep, SolicitedStep, NotesStep, PassesStep, ChronicleStep, TalliesStep DEF IInv
<1>2. QED BY <1>1, StutterStep

(* What a sweep that has ended has done. *)
LEMMA SweepDone ==
  ASSUME IInv, sweep.at = "done", NEW m \in Swept
  PROVE  /\ DerivedTo = Len(sweep.list) /\ midCache[m] # "null" /\ m \in Msg
         /\ \E i \in 1..DerivedTo : sweep.list[i] = m
<1>1. sweep.list \in Seq(Msg) /\ DerivedTo = Len(sweep.list)
  BY DEF IInv, Typed, TypeOK, DerivedTo
<1>2. m \in ToSet(sweep.list) /\ midCache[m] # "null"
  BY DEF Swept
<1>3. \E i \in 1..Len(sweep.list) : sweep.list[i] = m
  BY <1>1, <1>2 DEF ToSet
<1>4. QED BY <1>1, <1>2, <1>3

LEMMA Notifying == IInv => SweepNotifies
<1> SUFFICES ASSUME IInv, sweep.at = "done", NEW m \in Swept,
                    Kind[m] \in {"react", "reply"}, From[m] # Self,
                    About[m] \in Swept, From[About[m]] = Self
             PROVE  Key(m) \in notified
  BY DEF SweepNotifies
<1>1. PICK i \in 1..DerivedTo : sweep.list[i] = m
  BY SweepDone
<1>2. Calls(i)
  BY <1>1, SweepDone DEF Calls
<1>3. QED BY <1>1, <1>2 DEF IInv, Passes, Notified

LEMMA Restoring == IInv => SweepRestoresTallies
<1> SUFFICES ASSUME IInv, sweep.at = "done", ~touched, NEW m \in Swept, IsLastWord(m)
             PROVE  Right(m)
  BY DEF SweepRestoresTallies, Right
<1>1. PICK i \in 1..DerivedTo : sweep.list[i] = m
  BY SweepDone
<1>2. DerivedTo = Len(sweep.list) /\ Len(sweep.list) \in Nat /\ sweep.list \in Seq(Msg)
  BY SMTT(30), SweepDone DEF IInv, Typed, TypeOK
<1>3. LastTo(i, DerivedTo)
  <2> SUFFICES ASSUME NEW j \in (i + 1)..DerivedTo, midCache[sweep.list[j]] # "null", Rivals(m, sweep.list[j])
               PROVE  FALSE
    BY <1>1 DEF LastTo
  <2>1. j \in 1..Len(sweep.list) /\ i \in 1..Len(sweep.list) /\ i < j
    BY <1>2
  <2>2. sweep.list[j] \in Msg /\ m \in Msg /\ sweep.list[j] \in Swept
    BY <1>1, <1>2, <2>1 DEF Swept, ToSet
  <2>3. Chat[m] = Chat[sweep.list[j]]
    BY <2>2, ReactionsAssumption DEF Rivals
  <2>4. Before(m, sweep.list[j])
    BY <1>1, <2>1, <2>3 DEF IInv, Chronicle
  <2>5. QED BY <2>2, <2>4 DEF IsLastWord, Rivals
<1>4. QED BY <1>1, <1>3, SweepDone DEF IInv, Tallies, IsLastWord

(* The inductive invariant: rights to act, dedupe keys, and what each pass *)
(* of a sweep has been over.                                               *)
THEOREM IngestInvariant == Spec => []IInv
BY InitIInv, NextIInv, PTL DEF Spec

(* The store, the handlers and the sweep keep their types. *)
THEOREM IngestTypes == Spec => []TypeOK
<1>1. IInv => TypeOK
  BY DEF IInv, Typed
<1>2. QED BY <1>1, IngestInvariant, PTL

(* runFollowbackOnIngest answers a request once, and once more for each     *)
(* migration, however often and by however many routes it is delivered.     *)
THEOREM IngestGrantsOnce == Spec => []GrantedOnce
<1>1. IInv => GrantedOnce
  BY DEF IInv, Answers, GrantedOnce
<1>2. QED BY <1>1, IngestInvariant, PTL

(* deriveOnIngest notifies an event once, across migrations too. *)
THEOREM IngestNotifiesOnce == Spec => []NotifiedOnce
<1>1. IInv => NotifiedOnce
  BY DEF IInv, Notes, NotifiedOnce
<1>2. QED BY <1>1, IngestInvariant, PTL

(* A feed is joined once per grant, and only on a grant of someone asked. *)
THEOREM IngestJoinsIfAsked == Spec => []JoinsOnceIfAsked
<1>1. IInv => JoinsOnceIfAsked
  BY DEF IInv, Answers, Solicited, JoinsOnceIfAsked
<1>2. QED BY <1>1, IngestInvariant, PTL

(* The two passes of the startup sweep notify whatever they collected, in  *)
(* whatever order the chats came.                                          *)
THEOREM IngestSweepNotifies == Spec => []SweepNotifies
BY Notifying, IngestInvariant, PTL

(* A sweep no reaction handler crossed leaves each author's last word. *)
THEOREM IngestSweepRestores == Spec => []SweepRestoresTallies
BY Restoring, IngestInvariant, PTL
=============================================================================
