------------------------------- MODULE Sessions -------------------------------
(***************************************************************************)
(* Who may use the node: the authentication store of auth.ts, the account  *)
(* binding daemon.ts gives it, the OAuth routes of server.ts, and the      *)
(* stream sockets that are guarded by a session.                           *)
(*                                                                         *)
(* An enrollment code registers a client, a client is given authorization  *)
(* codes, a code is exchanged for a session, a session is given stream     *)
(* tickets, and a ticket opens a socket.  Everything random is the next    *)
(* unused id, so that a larger id is a younger one.  Each operation is one *)
(* synchronous step that writes the whole file before it assigns the copy  *)
(* in memory; the write may fail, before the rename or after it, and then  *)
(* the caller reports an error.  Time only makes things stale.             *)
(*                                                                         *)
(* revokeAccessToken and the signing of blob paths are left out: nothing   *)
(* calls the first, and the second reads only what a binding replaces.     *)
(***************************************************************************)
EXTENDS Naturals, FiniteSets

CONSTANTS
  Account,      \* addresses the node may be configured with
  NoAccount,    \* the identity of an unconfigured node
  MaxClients,   \* maxClients
  MaxCodes,     \* maxAuthorizationCodes
  MaxIds,       \* bound: codes, clients, sessions and tickets issued
  MaxFaults,    \* bound: writes of the file that fail
  MaxStale,     \* bound: things that expire
  MaxRestarts   \* bound: processes after the first

ASSUME AccountAssumption == NoAccount \notin Account
ASSUME BoundsAssumption ==
  /\ {MaxClients, MaxCodes, MaxIds, MaxFaults, MaxStale, MaxRestarts} \subseteq Nat
  /\ MaxIds > 0

Id == 1..MaxIds
NoCode == 0
Identity == Account \union {NoAccount}

VARIABLES
  disk,         \* the file
  data,         \* AuthData
  phase,        \* of the node: "unconfigured", "binding", "failing", "serving", "down"
  issued,       \* the youngest id
  stale,        \* ids whose expiresAt has passed
  upgrading,    \* sockets whose ticket is consumed and that are not open yet
  streams,      \* sockets registered in the hub, as <<ticket, session>>
  faults, restarts,
  home,         \* ghost: the account each client was registered under
  granted,      \* ghost: <<by, got>>: what a code or ticket was turned into
  ended,        \* ghost: sessions that a revocation or binding ended
  raced         \* ghost: sockets that were upgrading when their session ended

vars == <<disk, data, phase, issued, stale, upgrading, streams, faults, restarts,
          home, granted, ended, raced>>

Unbound(a) ==
  [account |-> a, enrollment |-> NoCode, clients |-> {}, codes |-> {},
   sessions |-> {}, tickets |-> {}]

Init ==
  /\ data = [Unbound(NoAccount) EXCEPT !.enrollment = 1]
  /\ disk = data
  /\ phase = "unconfigured"
  /\ issued = 1 /\ stale = {}
  /\ upgrading = {} /\ streams = {}
  /\ faults = 0 /\ restarts = 0
  /\ home = [i \in Id |-> NoAccount]
  /\ granted = {} /\ ended = {} /\ raced = {}

-----------------------------------------------------------------------------
(* persist.                                                                *)

\* The mutant keeps the change in memory.
SavesInMemory(next) == data' = next /\ disk' = disk
Saves(next) == data' = next /\ disk' = next

\* atomicWrite throws before its rename, or after it (the chmod or the fsync).
Fault == faults < MaxFaults /\ faults' = faults + 1
SaveFails(next) == Fault /\ data' = data /\ disk' \in {disk, next}

Serving == phase # "down"
Fresh == issued + 1
CanIssue == Serving /\ issued < MaxIds
Issue == issued' = Fresh

Live(ids) == ids \ stale
LiveSessions(d) == Live({x.id : x \in d.sessions})
validateAccessToken(s) == s \in LiveSessions(data)

\* notifyInvalidated: the sockets of these sessions that are open are closed; the
\* mutant tells nobody.
LeaveStreams(sessions) == UNCHANGED <<streams, raced>>
CloseStreams(sessions) ==
  /\ streams' = {x \in streams : x[2] \notin sessions}
  /\ raced' = raced \union {x \in upgrading : x[2] \in sessions}

\* The oldest go when there are more than MaxCodes: slice(-maxAuthorizationCodes).
Youngest(codes) == {x \in codes : Cardinality({y \in codes : y.id > x.id}) < MaxCodes}

-----------------------------------------------------------------------------
(* The account the store is bound to.                                      *)

\* The mutant forgets the sessions and keeps who was registered.
KeepingClients(a) == [Unbound(a) EXCEPT !.clients = data.clients, !.codes = data.codes]
Rebound(a) == IF data.account = a THEN data ELSE Unbound(a)
EndedBy(a) == IF data.account = a THEN {} ELSE {x.id : x \in data.sessions}
Coded(d) == [d EXCEPT !.enrollment = Fresh]

EndSessions(a) ==
  /\ CloseStreams(Live(EndedBy(a)))
  /\ ended' = ended \union EndedBy(a)

\* Sign-up or restore binds the new account and creates its enrollment code.
Configure(a) ==
  /\ phase = "unconfigured" /\ CanIssue
  /\ Issue
  /\ \/ /\ Saves(Coded(Rebound(a))) /\ UNCHANGED faults
        /\ phase' = "binding" /\ EndSessions(a)
     \/ /\ Fault /\ data' = Rebound(a) /\ disk' \in {Rebound(a), Coded(Rebound(a))}
        /\ phase' = "failing" /\ EndSessions(a)
     \/ /\ SaveFails(Rebound(a))
        /\ phase' = "failing" /\ UNCHANGED <<streams, raced, ended>>
  /\ UNCHANGED <<stale, upgrading, restarts, home, granted>>

Publish ==
  /\ phase = "binding"
  /\ phase' = "serving"
  /\ UNCHANGED <<disk, data, issued, stale, upgrading, streams, faults, restarts>>
  /\ UNCHANGED <<home, granted, ended, raced>>

\* The operation failed: the store is bound to no account again.
Rollback ==
  /\ phase \in {"binding", "failing"}
  /\ phase' = "unconfigured"
  /\ \/ Saves(Rebound(NoAccount)) /\ UNCHANGED faults /\ EndSessions(NoAccount)
     \/ SaveFails(Rebound(NoAccount)) /\ UNCHANGED <<streams, raced, ended>>
  /\ UNCHANGED <<issued, stale, upgrading, restarts, home, granted>>

-----------------------------------------------------------------------------
(* What the routes do.                                                     *)

Keep == UNCHANGED <<phase, stale, upgrading, streams, restarts, ended, raced>>

\* POST /api/v1/apps, by an enrollment code or by a session.
Register(proof) ==
  /\ CanIssue
  /\ proof \in Live({data.enrollment} \ {NoCode}) \union LiveSessions(data)
  /\ Cardinality(data.clients) < MaxClients
  /\ Issue
  /\ LET next == [data EXCEPT !.clients = @ \union {Fresh},
                              !.enrollment = IF @ = proof THEN NoCode ELSE @]
     IN  \/ /\ Saves(next) /\ UNCHANGED faults
            /\ granted' = IF proof = data.enrollment THEN granted \union {<<proof, Fresh>>}
                          ELSE granted
         \/ SaveFails(next) /\ UNCHANGED granted
  /\ home' = [home EXCEPT ![Fresh] = data.account]
  /\ Keep

\* GET /oauth/authorize: a client has one code at a time.
Authorize(c) ==
  /\ CanIssue /\ phase = "serving"
  /\ c \in data.clients
  /\ Issue
  /\ LET others == {x \in data.codes : x.id \notin stale /\ x.client # c}
         next == [data EXCEPT !.codes = Youngest(others \union {[id |-> Fresh, client |-> c]})]
     IN  (Saves(next) /\ UNCHANGED faults) \/ SaveFails(next)
  /\ UNCHANGED <<home, granted>>
  /\ Keep

\* POST /oauth/token.  The mutant leaves the code there.
Unspent(codes, x) == codes
Spent(codes, x) == codes \ {x}
Exchange(x) ==
  /\ CanIssue
  /\ x \in data.codes /\ x.client \in data.clients /\ x.id \notin stale
  /\ Issue
  /\ LET kept == {s \in data.sessions : s.id \notin stale}
         next == [data EXCEPT !.codes = Spent(@, x),
                              !.sessions = kept \union {[id |-> Fresh, client |-> x.client]}]
     IN  \/ Saves(next) /\ UNCHANGED faults /\ granted' = granted \union {<<x.id, Fresh>>}
         \/ SaveFails(next) /\ UNCHANGED granted
  /\ UNCHANGED home
  /\ Keep

\* POST /oauth/revoke ends the client of the session and creates a new code.
Revoke(s) ==
  LET client == (CHOOSE x \in data.sessions : x.id = s).client
      gone == {x.id : x \in {y \in data.sessions : y.client = client}}
      next == [data EXCEPT !.clients = @ \ {client},
                           !.codes = {x \in @ : x.client # client},
                           !.sessions = {x \in @ : x.client # client},
                           !.tickets = {x \in @ : x.session \notin gone}]
  IN  /\ CanIssue /\ validateAccessToken(s)
      /\ Issue
      /\ \/ /\ Saves(Coded(next)) /\ UNCHANGED faults
            /\ CloseStreams(gone) /\ ended' = ended \union gone
         \/ /\ Fault /\ data' = next /\ disk' \in {next, Coded(next)}
            /\ CloseStreams(gone) /\ ended' = ended \union gone
         \/ SaveFails(next) /\ UNCHANGED <<streams, raced, ended>>
      /\ UNCHANGED <<phase, stale, upgrading, restarts, home, granted>>

\* POST /streaming/token.
IssueTicket(s) ==
  /\ CanIssue /\ validateAccessToken(s)
  /\ Issue
  /\ LET kept == {x \in data.tickets : x.id \notin stale}
         next == [data EXCEPT !.tickets = kept \union {[id |-> Fresh, session |-> s]}]
     IN  (Saves(next) /\ UNCHANGED faults) \/ SaveFails(next)
  /\ UNCHANGED <<home, granted>>
  /\ Keep

\* GET /streaming: the ticket is used up whether or not it is still good.
Consume(x) ==
  /\ Serving /\ x \in data.tickets
  /\ LET next == [data EXCEPT !.tickets = @ \ {x}]
         good == x.id \notin stale /\ validateAccessToken(x.session)
     IN  \/ /\ Saves(next) /\ UNCHANGED faults
            /\ upgrading' = IF good THEN upgrading \union {<<x.id, x.session>>} ELSE upgrading
            /\ granted' = IF good THEN granted \union {<<x.id, x.session>>} ELSE granted
         \/ SaveFails(next) /\ UNCHANGED <<upgrading, granted>>
  /\ UNCHANGED <<phase, issued, stale, streams, restarts, home, ended, raced>>

-----------------------------------------------------------------------------
(* Sockets.                                                                *)

Quiet == UNCHANGED <<disk, data, phase, issued, faults, restarts, home, granted, ended>>

\* onOpen registers the socket and closes it at once if the session has expired.
Open(x) ==
  /\ x \in upgrading
  /\ upgrading' = upgrading \ {x}
  /\ streams' = IF x[2] \in stale THEN streams ELSE streams \union {x}
  /\ UNCHANGED <<stale, raced>>
  /\ Quiet

\* The expiry timer, the peer, or an error closes it.
Hangup(x) ==
  /\ x \in upgrading \union streams
  /\ upgrading' = upgrading \ {x} /\ streams' = streams \ {x}
  /\ UNCHANGED <<stale, raced>>
  /\ Quiet

\* A ticket expires with its session at the latest.
Expire(i) ==
  /\ i \in (1..issued) \ stale
  /\ Cardinality(stale) < MaxStale
  /\ stale' = stale \union {i} \union {x.id : x \in {y \in data.tickets : y.session = i}}
  /\ UNCHANGED <<upgrading, streams, raced>>
  /\ Quiet

-----------------------------------------------------------------------------
(* A new process reads the file, drops the codes that cannot be used, binds *)
(* the account of the accounts file and creates an enrollment code.        *)

Usable(d) ==
  LET known == {x \in d.codes : x.id \notin stale /\ x.client \in d.clients}
      last == {x \in known : \A y \in known : y.client = x.client => y.id <= x.id}
  IN  [d EXCEPT !.codes = Youngest(last)]

Booted(a) == IF disk.account = a THEN Usable(disk) ELSE Unbound(a)

Restart(a) ==
  /\ restarts < MaxRestarts /\ issued < MaxIds
  /\ restarts' = restarts + 1
  /\ Issue
  /\ upgrading' = {} /\ streams' = {} /\ UNCHANGED raced
  /\ ended' = IF disk.account = a THEN ended ELSE ended \union {x.id : x \in disk.sessions}
  /\ LET next == Coded(Booted(a))
     IN  \/ /\ data' = next /\ disk' = next /\ UNCHANGED faults
            /\ phase' = IF a = NoAccount THEN "unconfigured" ELSE "serving"
         \/ /\ Fault /\ phase' = "down"
            /\ data' = Booted(a) /\ disk' \in {Booted(a), next}
  /\ UNCHANGED <<stale, home, granted>>

Next ==
  \/ \E a \in Account : Configure(a)
  \/ Publish \/ Rollback
  \/ \E i \in Id : Register(i) \/ Authorize(i) \/ Revoke(i) \/ IssueTicket(i) \/ Expire(i)
  \/ \E x \in data.codes : Exchange(x)
  \/ \E x \in data.tickets : Consume(x)
  \/ \E x \in upgrading \union streams : Open(x) \/ Hangup(x)
  \/ \E a \in Identity : Restart(a)

Spec == Init /\ [][Next]_vars

-----------------------------------------------------------------------------
AuthData ==
  [account : Identity, enrollment : Id \union {NoCode}, clients : SUBSET Id,
   codes : SUBSET [id : Id, client : Id], sessions : SUBSET [id : Id, client : Id],
   tickets : SUBSET [id : Id, session : Id]]

TypeOK ==
  /\ data \in AuthData /\ disk \in AuthData
  /\ phase \in {"unconfigured", "binding", "failing", "serving", "down"}
  /\ issued \in Id
  /\ stale \subseteq Id
  /\ upgrading \union streams \union raced \subseteq Id \X Id
  /\ faults \in 0..MaxFaults /\ restarts \in 0..MaxRestarts
  /\ home \in [Id -> Identity]
  /\ granted \subseteq Id \X Id
  /\ ended \subseteq Id

(* An enrollment code makes one client, an authorization code one session, *)
(* a ticket one socket, though a write fails after its rename, the request *)
(* is repeated, or another process reads the file.                         *)
SingleUse == \A x, y \in granted : x[1] = y[1] => x = y

(* Whatever is usable belongs to the account the node is bound to: no      *)
(* client, and no session a client was given, outlives the binding it was  *)
(* registered under, in memory or in the file.                             *)
OfOneAccount ==
  \A d \in {data, disk} :
    \A c \in d.clients \union {x.client : x \in d.sessions} \union {x.client : x \in d.codes} :
      home[c] = d.account

(* A session that was ended stays ended, after failed writes and restarts. *)
EndedStaysEnded ==
  \A d \in {data, disk} : ended \intersect {x.id : x \in d.sessions} = {}

(* An open socket is guarded by a session: it is closed with it, unless it *)
(* was still being upgraded then, or its session has expired.              *)
StreamsHaveSessions ==
  \A x \in streams : x[2] \in stale \/ x[2] \in {s.id : s \in data.sessions} \/ x \in raced
=============================================================================
