--------------------------- MODULE DesktopEnrollment ---------------------------
(***************************************************************************)
(* How the desktop's window becomes a client of the daemon: the broker of  *)
(* enrollment.ts and registerOAuthClient of main.ts in the main process,   *)
(* the request of oauth-registration.ts, and POST /api/v1/apps with its    *)
(* idempotency keys in the daemon.                                         *)
(*                                                                         *)
(* The daemon announces each enrollment code by a message to the main      *)
(* process.  Asked by the window, the main process trades the code for a   *)
(* client, and keeps the client until the window acknowledges it.  A       *)
(* request that timed out or was aborted may have been handled, or may yet *)
(* be: the next one carries the same key and is answered the same client.  *)
(* Codes are numbered as they are announced, so that a code is also the    *)
(* revision the broker gives it.                                           *)
(***************************************************************************)
EXTENDS Naturals, Sequences, FiniteSets

CONSTANTS
  MaxEnrollments, \* bound: enrollment codes
  MaxCalls        \* bound: registrations the main process begins

ASSUME EnrollBounds == MaxEnrollments \in Nat \ {0} /\ MaxCalls \in Nat

None == 0
Code == 1..MaxEnrollments
Call == 1..MaxCalls
Key == 1..MaxCalls            \* one is drawn per call at most
Client == 1..MaxEnrollments         \* registering uses up a code
Refused == "refused"
NoAnswer == "none"
NoPair == [revision |-> None, of |-> None]
NoCall == [at |-> "idle", after |-> None, code |-> None, key |-> None,
           aborted |-> FALSE, answer |-> NoAnswer, got |-> None]

VARIABLES
  valid,        \* daemon: the enrollment code
  alive,        \* daemon: the registered clients
  made,         \* daemon: the youngest client
  transactions, \* daemon: desktopOAuthTransactions, as <<key, code, client>>
  announced,    \* daemon: the youngest code
  events,       \* messages to the main process: codes
  posts,        \* requests the daemon has not handled
  revision,     \* broker: of the code last published
  current,      \* broker: the code that is not consumed or expired
  pending,      \* pendingOAuthClient
  calls,        \* the registrations begun
  active,       \* registrationInFlight
  snapshot,     \* registrationSnapshotRevision
  transaction,  \* registrationTransaction
  held,         \* the client the window has
  acknowledged, \* ghost: clients the window acknowledged
  expired,      \* ghost: codes that expired
  dropped       \* ghost: keys that a late refusal dropped

daemonVars == <<valid, alive, made, transactions, announced, events, posts>>
mainVars == <<revision, current, pending, calls, active, snapshot, transaction>>
enrollVars == <<valid, alive, made, transactions, announced, events, posts,
               revision, current, pending, calls, active, snapshot, transaction,
               held, acknowledged, expired, dropped>>

EnrollInit ==
  /\ valid = 1 /\ alive = {} /\ made = None /\ transactions = {}
  /\ announced = 1 /\ events = <<1>> /\ posts = {}
  /\ revision = None /\ current = None /\ pending = NoPair
  /\ calls = [c \in Call |-> NoCall]
  /\ active = None /\ snapshot = None /\ transaction = NoPair
  /\ held = None /\ acknowledged = {} /\ expired = {} /\ dropped = {}

-----------------------------------------------------------------------------
(* The daemon.                                                             *)

NewCode ==
  /\ announced < MaxEnrollments
  /\ announced' = announced + 1
  /\ valid' = announced + 1
  /\ events' = Append(events, announced + 1)

\* bindAccount for a new account, by sign-up or restore.
Rebind ==
  /\ NewCode
  /\ alive' = {}
  /\ UNCHANGED <<made, transactions, posts>>
  /\ UNCHANGED <<mainVars, held, acknowledged, expired, dropped>>

\* POST /oauth/revoke by a session of client c.
RevokeClient(c) ==
  /\ c \in alive
  /\ NewCode
  /\ alive' = alive \ {c}
  /\ UNCHANGED <<made, transactions, posts>>
  /\ UNCHANGED <<mainVars, held, acknowledged, expired, dropped>>

Replayed(p) == {t \in transactions : t[1] = p.key /\ t[2] = p.code}

\* The mutant knows no keys.
ReplayedNever(p) == {t \in transactions : t[1] = p.key /\ t[2] = p.code /\ t[3] = None}
Replay(p) == Replayed(p)

\* What a request still awaited is answered.
Answer(p, answer, client) ==
  calls' = [calls EXCEPT ![p.call] =
              IF @.at = "posting" THEN [@ EXCEPT !.at = "answered", !.answer = answer, !.got = client]
              ELSE @]

\* POST /api/v1/apps; one call has one key and one code, so that a key known for
\* another code (409) does not arise.
Handle(p) ==
  /\ p \in posts
  /\ posts' = posts \ {p}
  /\ IF Replay(p) # {}
     THEN /\ Answer(p, "client", (CHOOSE t \in Replay(p) : TRUE)[3])
          /\ UNCHANGED <<valid, alive, made, transactions>>
     ELSE IF p.code = valid
     THEN /\ valid' = None
          /\ made' = made + 1 /\ alive' = alive \union {made + 1}
          /\ transactions' = transactions \union {<<p.key, p.code, made + 1>>}
          /\ Answer(p, "client", made + 1)
     ELSE /\ Answer(p, Refused, None)
          /\ UNCHANGED <<valid, alive, made, transactions>>
  /\ UNCHANGED <<announced, events, revision, current, pending, active, snapshot, transaction>>
  /\ UNCHANGED <<held, acknowledged, expired, dropped>>

\* Ten minutes: no message takes so long.
CodeExpires ==
  /\ events = <<>> /\ announced \notin expired
  /\ expired' = expired \union {announced}
  /\ valid' = None /\ current' = None
  /\ UNCHANGED <<alive, made, transactions, announced, events, posts>>
  /\ UNCHANGED <<revision, pending, calls, active, snapshot, transaction>>
  /\ UNCHANGED <<held, acknowledged, dropped>>

-----------------------------------------------------------------------------
(* The main process asks the daemon.                                       *)

\* The call has its snapshot of the broker: it posts, by the key of this revision.
KeyFor(c, code) == IF transaction.revision = code THEN transaction.of ELSE c
PostFor(c, code, tx) ==
  /\ calls' = [calls EXCEPT ![c].at = "posting", ![c].code = code, ![c].key = tx.of]
  /\ snapshot' = code
  /\ transaction' = tx
  /\ posts' = posts \union {[call |-> c, key |-> tx.of, code |-> code]}

Unused == {c \in Call : calls[c].at = "idle"}
Next1 == CHOOSE c \in Unused : \A d \in Unused : c <= d

\* The window asks for a client, of a revision after a given one; or of any, 0,
\* which waits only while no code is known.
RegisterClient(after) ==
  /\ after \in None..revision
  /\ ~(pending # NoPair /\ pending.revision > after)
  /\ active = None /\ Unused # {}
  /\ LET c == Next1
     IN  IF revision > after
         THEN /\ current # None
              /\ active' = c
              /\ PostFor(c, current, [revision |-> current, of |-> KeyFor(c, current)])
         ELSE /\ active' = c
              /\ calls' = [calls EXCEPT ![c].at = "waiting", ![c].after = after]
              /\ UNCHANGED <<snapshot, transaction, posts>>
  /\ UNCHANGED <<valid, alive, made, transactions, announced, events>>
  /\ UNCHANGED <<revision, current, pending, held, acknowledged, expired, dropped>>

\* It has one already, which the window has not acknowledged.
Retained(after) ==
  /\ after \in None..revision
  /\ pending # NoPair /\ pending.revision > after
  /\ held' = pending.of
  /\ UNCHANGED <<daemonVars, mainVars, acknowledged, expired, dropped>>

\* finally: only the registration in flight clears what belongs to it.
Leave(c) ==
  /\ active' = IF active = c THEN None ELSE active
  /\ snapshot' = IF active = c THEN None ELSE snapshot
Over(c) == calls' = [calls EXCEPT ![c].at = "over"]

\* The broker's waiter, or the request, is given up; so is a request that was aborted.
GiveUp(c) ==
  /\ calls[c].at \in {"waiting", "posting"}
  /\ Over(c) /\ Leave(c)
  /\ UNCHANGED daemonVars
  /\ UNCHANGED <<revision, current, pending, transaction, held, acknowledged, expired, dropped>>

Consumed(code) == IF current = code THEN None ELSE current

\* The mutant hands out what was asked for under an older code.
AnyAnswer(c) == calls[c].answer = "client"
Timely(c) == calls[c].answer = "client" /\ ~calls[c].aborted /\ revision = calls[c].code

Accepted(c) ==
  /\ calls[c].at = "answered" /\ Timely(c)
  /\ pending' = [revision |-> calls[c].code, of |-> calls[c].got]
  /\ current' = Consumed(calls[c].code)
  /\ held' = calls[c].got
  /\ Over(c) /\ Leave(c)
  /\ UNCHANGED daemonVars
  /\ UNCHANGED <<revision, transaction, acknowledged, expired, dropped>>

Late(c) ==
  /\ calls[c].at = "answered" /\ calls[c].answer = "client" /\ ~Timely(c)
  /\ Over(c) /\ Leave(c)
  /\ UNCHANGED daemonVars
  /\ UNCHANGED <<revision, current, pending, transaction, held, acknowledged, expired, dropped>>

\* 403: the code is useless, and with it the key, whichever registration it is of.
Denied(c) ==
  /\ calls[c].at = "answered" /\ calls[c].answer = Refused
  /\ current' = Consumed(calls[c].code)
  /\ transaction' = NoPair
  /\ dropped' = IF transaction.revision = calls[c].code THEN dropped
                ELSE dropped \union {transaction.of}
  /\ Over(c) /\ Leave(c)
  /\ UNCHANGED daemonVars
  /\ UNCHANGED <<revision, pending, held, acknowledged, expired>>

\* onEnrollmentCode: abort what is being asked for, then publish; the registration
\* that waited for a code asks for this one at once.
PublishCode ==
  /\ events # <<>>
  /\ events' = Tail(events)
  /\ revision' = Head(events) /\ current' = Head(events)
  /\ pending' = NoPair
  /\ IF snapshot # None
     THEN /\ calls' = [calls EXCEPT ![active].aborted = TRUE]
          /\ active' = None /\ snapshot' = None /\ transaction' = NoPair
          /\ UNCHANGED posts
     ELSE /\ IF active # None
             THEN PostFor(active, Head(events),
                          [revision |-> Head(events), of |-> KeyFor(active, Head(events))])
             ELSE UNCHANGED <<calls, snapshot, transaction, posts>>
          /\ UNCHANGED active
  /\ UNCHANGED <<valid, alive, made, transactions, announced>>
  /\ UNCHANGED <<held, acknowledged, expired, dropped>>

\* The window keeps the client it was given, or is loaded anew before.
Acknowledge ==
  /\ held # None /\ pending.of = held
  /\ pending' = NoPair /\ transaction' = NoPair
  /\ acknowledged' = acknowledged \union {held}
  /\ UNCHANGED daemonVars
  /\ UNCHANGED <<revision, current, calls, active, snapshot, held, expired, dropped>>

Reload ==
  /\ held # None
  /\ held' = None
  /\ UNCHANGED <<daemonVars, mainVars, acknowledged, expired, dropped>>

EnrollNext ==
  \/ Rebind \/ (\E c \in Client : RevokeClient(c)) \/ CodeExpires
  \/ \E p \in posts : Handle(p)
  \/ \E after \in None..MaxEnrollments : RegisterClient(after) \/ Retained(after)
  \/ \E c \in Call : GiveUp(c) \/ Accepted(c) \/ Late(c) \/ Denied(c)
  \/ PublishCode \/ Acknowledge \/ Reload

EnrollSpec == EnrollInit /\ [][EnrollNext]_enrollVars

-----------------------------------------------------------------------------
EnrollTypeOK ==
  /\ valid \in Code \union {None} /\ announced \in Code
  /\ alive \subseteq Client /\ made \in Client \union {None}
  /\ transactions \subseteq Key \X Code \X Client
  /\ events \in Seq(Code)
  /\ posts \subseteq [call : Call, key : Key, code : Code]
  /\ {revision, current} \subseteq Code \union {None}
  /\ pending \in [revision : Code \union {None}, of : Client \union {None}]
  /\ transaction \in [revision : Code \union {None}, of : Key \union {None}]
  /\ calls \in [Call -> [at : {"idle", "waiting", "posting", "answered", "over"},
                         after : Code \union {None}, code : Code \union {None},
                         key : Key \union {None}, aborted : BOOLEAN,
                         answer : {NoAnswer, Refused, "client"}, got : Client \union {None}]]
  /\ active \in Call \union {None}
  /\ {snapshot} \subseteq Code \union {None}
  /\ held \in Client \union {None} /\ acknowledged \subseteq Client
  /\ expired \subseteq Code /\ dropped \subseteq Key \union {None}
  /\ snapshot # None => active # None /\ calls[active].code = snapshot

(* No client is lost on the way: while the code it was made of is the last *)
(* one, the main process has it, or is being answered it, or asks by the   *)
(* same key when the window asks again, until the window acknowledges it.  *)
(* The exceptions: the code expired, and a refusal of an older code that   *)
(* arrived late and dropped the key of the newer.                          *)
Reachable(t) ==
  \/ t[3] \in acknowledged
  \/ pending.of = t[3]
  \/ current = t[2] /\ transaction = [revision |-> t[2], of |-> t[1]]
  \/ t[2] \in expired \/ t[1] \in dropped
NoClientLost ==
  \A t \in transactions : announced = t[2] /\ revision = t[2] => Reachable(t)

(* The window is handed a client of the last code published only: an       *)
(* answer or a client kept that is older than a published code is dropped, *)
(* however the answer and the message cross.                               *)
CodeOf(client) == (CHOOSE t \in transactions : t[3] = client)[2]
HandsOutCurrent == [][held' \in {held, None} \/ CodeOf(held') = revision]_enrollVars
=============================================================================
