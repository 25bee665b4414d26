----------------------------- MODULE ServerProofs -----------------------------
(***************************************************************************)
(* Three protocols of the HTTP server (server.ts and auth.ts), which share *)
(* no state: who may use the node, the backup export, and the enrollment   *)
(* of the desktop.  Each part has its own inductive invariant.             *)
(***************************************************************************)
EXTENDS Sessions, BackupExport, DesktopEnrollment, FiniteSetTheorems, WellFoundedInduction, TLAPS

-----------------------------------------------------------------------------
(***************************************************************************)
(* Who may use the node, for any number of clients, codes, sessions,       *)
(* tickets, failing writes and restarts.                                   *)
(*                                                                         *)
(* The file and the memory may differ, and a restart reads the file, so    *)
(* everything that is said of one is said of both: Good(d, ...) holds of   *)
(* any version d of the authentication data, given the youngest id, the    *)
(* homes of the clients, and what was spent and ended.  An operation takes *)
(* things away from a good version (GoodShrinks), adds one fresh thing     *)
(* (GoodAdds...), or spends one that it has taken away (GoodSpends).       *)
(***************************************************************************)

\* Nothing in d is younger than n.
Issued(d, n) ==
  /\ d.enrollment <= n
  /\ \A c \in d.clients : c <= n
  /\ \A x \in d.codes : x.id <= n /\ x.client <= n
  /\ \A x \in d.sessions : x.id <= n /\ x.client <= n
  /\ \A x \in d.tickets : x.id <= n /\ x.session <= n

\* An id is the id of one thing, where it matters.
Distinct(d) ==
  /\ \A x, y \in d.codes : x.id = y.id => x = y
  /\ \A x, y \in d.tickets : x.id = y.id => x = y
  /\ \A x, y \in d.sessions : x.id = y.id => x = y
  /\ \A x \in d.codes : x.id # d.enrollment
  /\ \A y \in d.tickets : y.id # d.enrollment
  /\ \A x \in d.codes, y \in d.tickets : x.id # y.id

\* The id is not that of a code or ticket of d.
Unusable(d, id) ==
  /\ id # d.enrollment
  /\ \A y \in d.codes \union d.tickets : y.id # id

Homed(d, h) ==
  /\ \A c \in d.clients : h[c] = d.account
  /\ \A x \in d.codes \union d.sessions : h[x.client] = d.account

Good(d, n, h, g, e) ==
  /\ d \in AuthData
  /\ Issued(d, n) /\ Distinct(d)
  /\ \A x \in g : Unusable(d, x[1])
  /\ Homed(d, h)
  /\ \A x \in d.sessions : x.id \notin e

\* A socket, open or not yet, has a session, or one of the two known excuses.
Guarded ==
  \A x \in upgrading \union streams :
    x[2] \in stale \/ (\E s \in data.sessions : s.id = x[2]) \/ x \in raced

Past == (\A x \in granted : x[1] <= issued) /\ (\A s \in ended : s <= issued)

BothGood == Good(data, issued, home, granted, ended) /\ Good(disk, issued, home, granted, ended)

IInv == TypeOK /\ Past /\ BothGood /\ SingleUse /\ Guarded

-----------------------------------------------------------------------------
(* What operations do to a good version of the data.                       *)

(* Data bound to an account and otherwise empty is good. *)
LEMMA GoodUnbound ==
  ASSUME NEW a \in Identity, NEW n \in Nat, NEW h, NEW g \in SUBSET (Id \X Id), NEW e
  PROVE  Good(Unbound(a), n, h, g, e)
<1>1. Unbound(a) \in AuthData
  BY DEF Unbound, AuthData
<1>2. \A x \in g : x[1] # NoCode
  BY DEF NoCode, Id
<1>3. QED BY <1>1, <1>2 DEF Good, Unbound, Issued, Distinct, Unusable, Homed, NoCode

(* What is good stays so while younger things are issued. *)
LEMMA GoodAges ==
  ASSUME NEW n \in Nat, NEW h, NEW g, NEW e, NEW d, Good(d, n, h, g, e)
  PROVE  Good(d, n + 1, h, g, e)
  BY BoundsAssumption DEF Good, Issued, AuthData, Id, NoCode

LEMMA GoodAgesHomed ==
  ASSUME NEW n \in Nat, NEW h \in [Id -> Identity], NEW g, NEW e, NEW d, NEW a \in Identity,
         Good(d, n, h, g, e)
  PROVE  Good(d, n + 1, [h EXCEPT ![n + 1] = a], g, e)
<1> DEFINE h2 == [h EXCEPT ![n + 1] = a]
<1>1. Good(d, n + 1, h, g, e)
  BY GoodAges
<1>2. \A i \in Id : i <= n => h2[i] = h[i]
  BY DEF Id
<1>3. Homed(d, h2)
  BY <1>2 DEF Good, Issued, Homed, AuthData
<1>4. QED BY <1>1, <1>3 DEF Good

(* Taking things away does no harm. *)
LEMMA GoodShrinks ==
  ASSUME NEW n, NEW h, NEW g \in SUBSET (Id \X Id), NEW e, NEW d, Good(d, n, h, g, e),
         NEW f \in AuthData, f.account = d.account, f.enrollment \in {d.enrollment, NoCode}, NoCode <= n,
         f.clients \subseteq d.clients, f.codes \subseteq d.codes,
         f.sessions \subseteq d.sessions, f.tickets \subseteq d.tickets
  PROVE  Good(f, n, h, g, e)
<1>1. \A x \in g : x[1] # NoCode
  BY DEF NoCode, Id
<1>2. \A x \in f.codes \union f.tickets : x.id # NoCode
  BY DEF AuthData, NoCode, Id
<1>3. Distinct(f)
  BY <1>2 DEF Good, Distinct
<1>4. \A x \in g : Unusable(f, x[1])
  BY <1>1 DEF Good, Unusable
<1>5. Issued(f, n) /\ Homed(f, h)
  BY DEF Good, Issued, Homed
<1>6. QED BY <1>3, <1>4, <1>5 DEF Good

(* A new enrollment code replaces the one there was. *)
LEMMA GoodAddsCode ==
  ASSUME NEW n \in Nat, n + 1 \in Id, NEW h, NEW g \in SUBSET (Id \X Id), \A x \in g : x[1] <= n, NEW e,
         NEW d, Good(d, n, h, g, e)
  PROVE  Good([d EXCEPT !.enrollment = n + 1], n + 1, h, g, e)
<1> DEFINE f == [d EXCEPT !.enrollment = n + 1]
<1>1. Good(d, n + 1, h, g, e)
  BY GoodAges
<1>2. /\ f \in AuthData /\ f.enrollment = n + 1
      /\ f.clients = d.clients /\ f.codes = d.codes /\ f.sessions = d.sessions
      /\ f.tickets = d.tickets /\ f.account = d.account
  BY DEF Good, AuthData
<1>3. \A x \in d.codes \union d.tickets : x.id \in Nat /\ x.id <= n
  BY DEF Good, Issued, AuthData, Id
<1>4. \A x \in g : x[1] \in Nat /\ x[1] # n + 1
  BY DEF Id
<1> HIDE DEF f
<1>5. Issued(f, n + 1) /\ Homed(f, h)
  BY <1>1, <1>2 DEF Good, Issued, Homed
<1>6. Distinct(f)
  BY <1>1, <1>2, <1>3 DEF Good, Distinct
<1>7. \A x \in g : Unusable(f, x[1])
  BY <1>1, <1>2, <1>4 DEF Good, Unusable
<1>8. QED BY <1>1, <1>2, <1>5, <1>6, <1>7 DEF Good, f

(* A client is registered under the account of the data. *)
LEMMA GoodAddsClient ==
  ASSUME NEW n \in Nat, n + 1 \in Id, NEW h \in [Id -> Identity], NEW g, NEW e, NEW d, Good(d, n, h, g, e)
  PROVE  Good([d EXCEPT !.clients = @ \union {n + 1}], n + 1, [h EXCEPT ![n + 1] = d.account], g, e)
<1> DEFINE f == [d EXCEPT !.clients = @ \union {n + 1}]
           h2 == [h EXCEPT ![n + 1] = d.account]
<1>1. d.account \in Identity
  BY DEF Good, AuthData
<1>2. Good(d, n + 1, h2, g, e)
  BY <1>1, GoodAgesHomed
<1>3. /\ f \in AuthData /\ f.enrollment = d.enrollment
      /\ f.clients = d.clients \union {n + 1} /\ f.codes = d.codes /\ f.sessions = d.sessions
      /\ f.tickets = d.tickets /\ f.account = d.account
  BY DEF Good, AuthData
<1>4. h2[n + 1] = d.account
  OBVIOUS
<1> HIDE DEF f, h2
<1>5. Issued(f, n + 1) /\ Homed(f, h2)
  BY <1>2, <1>3, <1>4 DEF Good, Issued, Homed
<1>6. Distinct(f) /\ \A x \in g : Unusable(f, x[1])
  BY <1>2, <1>3 DEF Good, Distinct, Unusable
<1>7. QED BY <1>2, <1>3, <1>5, <1>6 DEF Good, f, h2

(* An authorization code is given to a client of the account. *)
LEMMA GoodAddsAuthorization ==
  ASSUME NEW n \in Nat, n + 1 \in Id, NEW h, NEW g \in SUBSET (Id \X Id), \A x \in g : x[1] <= n, NEW e,
         NEW d, Good(d, n, h, g, e), NEW c \in d.clients
  PROVE  Good([d EXCEPT !.codes = @ \union {[id |-> n + 1, client |-> c]}], n + 1, h, g, e)
<1> DEFINE new == [id |-> n + 1, client |-> c]
           f == [d EXCEPT !.codes = @ \union {new}]
<1>1. Good(d, n + 1, h, g, e)
  BY GoodAges
<1>2. c \in Id /\ c <= n + 1 /\ h[c] = d.account
  BY <1>1 DEF Good, Issued, Homed, AuthData
<1>3. new \in [id : Id, client : Id] /\ new.id = n + 1 /\ new.client = c
  BY <1>2
<1> HIDE DEF new
<1>4. /\ f \in AuthData /\ f.enrollment = d.enrollment
      /\ f.clients = d.clients /\ f.codes = d.codes \union {new} /\ f.sessions = d.sessions
      /\ f.tickets = d.tickets /\ f.account = d.account
  BY <1>3 DEF Good, AuthData
<1> HIDE DEF f
<1>5. d.enrollment # n + 1 /\ \A x \in d.codes \union d.tickets : x.id \in Nat /\ x.id # n + 1
  BY DEF Good, Issued, AuthData, Id, NoCode
<1>6. \A x \in g : x[1] \in Nat /\ x[1] # n + 1
  BY DEF Id
<1>7. Issued(f, n + 1) /\ Homed(f, h)
  BY <1>1, <1>2, <1>3, <1>4 DEF Good, Issued, Homed
<1>8. Distinct(f)
  BY <1>1, <1>3, <1>4, <1>5 DEF Good, Distinct
<1>9. \A x \in g : Unusable(f, x[1])
  BY <1>1, <1>3, <1>4, <1>6 DEF Good, Unusable
<1>10. QED BY <1>1, <1>4, <1>7, <1>8, <1>9 DEF Good, f, new

(* A session is given to a client of the account. *)
LEMMA GoodAddsSession ==
  ASSUME NEW n \in Nat, n + 1 \in Id, NEW h, NEW g, NEW e, \A s \in e : s <= n,
         NEW d, Good(d, n, h, g, e), NEW c \in Id, c <= n, h[c] = d.account
  PROVE  Good([d EXCEPT !.sessions = @ \union {[id |-> n + 1, client |-> c]}], n + 1, h, g, e)
<1> DEFINE new == [id |-> n + 1, client |-> c]
           f == [d EXCEPT !.sessions = @ \union {new}]
<1>1. Good(d, n + 1, h, g, e)
  BY GoodAges
<1>2. new \in [id : Id, client : Id] /\ new.id = n + 1 /\ new.client = c
  OBVIOUS
<1> HIDE DEF new
<1>3. /\ f \in AuthData /\ f.enrollment = d.enrollment
      /\ f.clients = d.clients /\ f.codes = d.codes /\ f.sessions = d.sessions \union {new}
      /\ f.tickets = d.tickets /\ f.account = d.account
  BY <1>2 DEF Good, AuthData
<1> HIDE DEF f
<1>4. n + 1 \notin e /\ \A x \in d.sessions : x.id \in Nat /\ x.id # n + 1
  BY DEF Good, Issued, AuthData, Id
<1>5. c <= n + 1
  BY DEF Id
<1>6. Issued(f, n + 1) /\ Homed(f, h)
  BY <1>1, <1>2, <1>3, <1>5 DEF Good, Issued, Homed
<1>7. Distinct(f)
  BY <1>1, <1>2, <1>3, <1>4 DEF Good, Distinct
<1>8. (\A x \in g : Unusable(f, x[1])) /\ \A x \in f.sessions : x.id \notin e
  BY <1>1, <1>2, <1>3, <1>4 DEF Good, Unusable
<1>9. QED BY <1>1, <1>3, <1>6, <1>7, <1>8 DEF Good, f, new

(* A ticket is given to a session. *)
LEMMA GoodAddsTicket ==
  ASSUME NEW n \in Nat, n + 1 \in Id, NEW h, NEW g \in SUBSET (Id \X Id), \A x \in g : x[1] <= n, NEW e,
         NEW d, Good(d, n, h, g, e), NEW s \in Id, s <= n
  PROVE  Good([d EXCEPT !.tickets = @ \union {[id |-> n + 1, session |-> s]}], n + 1, h, g, e)
<1> DEFINE new == [id |-> n + 1, session |-> s]
           f == [d EXCEPT !.tickets = @ \union {new}]
<1>1. Good(d, n + 1, h, g, e)
  BY GoodAges
<1>2. new \in [id : Id, session : Id] /\ new.id = n + 1 /\ new.session = s
  OBVIOUS
<1> HIDE DEF new
<1>3. /\ f \in AuthData /\ f.enrollment = d.enrollment
      /\ f.clients = d.clients /\ f.codes = d.codes /\ f.sessions = d.sessions
      /\ f.tickets = d.tickets \union {new} /\ f.account = d.account
  BY <1>2 DEF Good, AuthData
<1> HIDE DEF f
<1>4. d.enrollment # n + 1 /\ \A x \in d.codes \union d.tickets : x.id \in Nat /\ x.id # n + 1
  BY DEF Good, Issued, AuthData, Id, NoCode
<1>5. \A x \in g : x[1] \in Nat /\ x[1] # n + 1
  BY DEF Id
<1>6. s <= n + 1
  BY DEF Id
<1>7. Issued(f, n + 1) /\ Homed(f, h)
  BY <1>1, <1>2, <1>3, <1>6 DEF Good, Issued, Homed
<1>8. Distinct(f)
  BY <1>1, <1>2, <1>3, <1>4 DEF Good, Distinct
<1>9. \A x \in g : Unusable(f, x[1])
  BY <1>1, <1>2, <1>3, <1>5 DEF Good, Unusable
<1>10. QED BY <1>1, <1>3, <1>7, <1>8, <1>9 DEF Good, f, new

(* What has been taken away may be spent. *)
LEMMA GoodSpends ==
  ASSUME NEW n, NEW h, NEW g, NEW e, NEW d, Good(d, n, h, g, e), NEW by, NEW got, Unusable(d, by)
  PROVE  Good(d, n, h, g \union {<<by, got>>}, e)
<1>1. \A x \in g \union {<<by, got>>} : Unusable(d, x[1])
  BY DEF Good
<1>2. QED BY <1>1 DEF Good

-----------------------------------------------------------------------------
(* Steps.                                                                  *)

LEMMA IssuedTypes ==
  ASSUME IInv
  PROVE  /\ issued \in Nat /\ NoCode <= issued /\ granted \in SUBSET (Id \X Id)
         /\ home \in [Id -> Identity] /\ ended \in SUBSET Id
         /\ CanIssue => Fresh = issued + 1 /\ issued + 1 \in Id
  BY BoundsAssumption DEF IInv, TypeOK, Id, NoCode, CanIssue, Fresh

(* Both versions outlive the issue of an id. *)
LEMMA BothAge ==
  ASSUME IInv
  PROVE  /\ Good(data, issued + 1, home, granted, ended)
         /\ Good(disk, issued + 1, home, granted, ended)
         /\ \A a \in Identity :
              /\ Good(data, issued + 1, [home EXCEPT ![issued + 1] = a], granted, ended)
              /\ Good(disk, issued + 1, [home EXCEPT ![issued + 1] = a], granted, ended)
  BY IssuedTypes, GoodAges, GoodAgesHomed DEF IInv, BothGood

LEMMA InitIInv == Init => IInv
<1> SUFFICES ASSUME Init PROVE IInv
  OBVIOUS
<1>1. 1 \in Id /\ NoAccount \in Identity
  BY BoundsAssumption DEF Id, Identity
<1>2. Good(Unbound(NoAccount), 0, home, {}, {})
  BY <1>1, GoodUnbound
<1>3. Good([Unbound(NoAccount) EXCEPT !.enrollment = 1], 1, home, {}, {})
  BY <1>1, <1>2, GoodAddsCode
<1>4. BothGood
  BY <1>3 DEF Init, BothGood
<1>5. TypeOK
  BY <1>1, <1>4, BoundsAssumption DEF Init, TypeOK, BothGood, Good
<1>6. QED BY <1>4, <1>5 DEF Init, IInv, Past, SingleUse, Guarded

(* Binding an account empties the data unless it is bound to it already. *)
LEMMA GoodRebound ==
  ASSUME IInv, NEW a \in Identity
  PROVE  /\ Good(Rebound(a), issued, home, granted, ended)
         /\ Good(Rebound(a), issued, home, granted, ended \union EndedBy(a))
         /\ CanIssue => Good(Coded(Rebound(a)), issued + 1, home, granted, ended \union EndedBy(a))
<1>1. CASE data.account = a
  <2>1. Rebound(a) = data /\ EndedBy(a) = {}
    BY <1>1 DEF Rebound, EndedBy
  <2>2. Good(data, issued, home, granted, ended) /\ ended \union {} = ended
    BY DEF IInv, BothGood
  <2>3. CanIssue => Good(Coded(data), issued + 1, home, granted, ended)
    BY <2>2, IssuedTypes, GoodAddsCode DEF Coded, IInv, Past
  <2>4. QED BY <2>1, <2>2, <2>3
<1>2. CASE data.account # a
  <2>1. Rebound(a) = Unbound(a)
    BY <1>2 DEF Rebound
  <2>2. Good(Unbound(a), issued, home, granted, ended)
        /\ Good(Unbound(a), issued, home, granted, ended \union EndedBy(a))
    BY IssuedTypes, GoodUnbound
  <2>3. CanIssue => Good(Coded(Unbound(a)), issued + 1, home, granted, ended \union EndedBy(a))
    BY <2>2, IssuedTypes, GoodAddsCode DEF Coded, IInv, Past
  <2>4. QED BY <2>1, <2>2, <2>3
<1>3. QED BY <1>1, <1>2

(* The sessions a binding ends are those of the data, so that every socket *)
(* either keeps its session or is closed, or was upgrading.                *)
LEMMA GuardedRebound ==
  ASSUME IInv, NEW a \in Identity, EndSessions(a), stale' = stale, upgrading' = upgrading,
         data' \in {Rebound(a), Coded(Rebound(a))}
  PROVE  /\ Guarded' /\ EndedBy(a) \in SUBSET Id /\ \A s \in EndedBy(a) : s <= issued
         /\ streams' \subseteq streams /\ raced' \subseteq raced \union upgrading
<1>1. /\ streams' = {x \in streams : x[2] \notin Live(EndedBy(a))}
      /\ raced' = raced \union {x \in upgrading : x[2] \in Live(EndedBy(a))}
  BY DEF EndSessions, CloseStreams
<1>2. CASE data.account = a
  <2>1. EndedBy(a) = {} /\ Rebound(a) = data
    BY <1>2 DEF EndedBy, Rebound
  <2>2. data'.sessions = data.sessions
    BY <2>1 DEF Coded, IInv, TypeOK, AuthData
  <2>3. QED BY <1>1, <2>1, <2>2 DEF IInv, Guarded
<1>3. CASE data.account # a
  <2>1. EndedBy(a) = {x.id : x \in data.sessions}
    BY <1>3 DEF EndedBy
  <2>2. \A i : i \in Live(EndedBy(a)) <=> i \notin stale /\ \E s \in data.sessions : s.id = i
    BY <2>1 DEF Live
  <2>3. \A x \in upgrading' \union streams' : x[2] \in stale \/ x \in raced'
    BY <1>1, <2>2 DEF IInv, Guarded
  <2>4. EndedBy(a) \in SUBSET Id /\ \A s \in EndedBy(a) : s <= issued
    BY <2>1 DEF IInv, BothGood, Good, Issued, AuthData
  <2>5. QED BY <1>1, <2>3, <2>4 DEF Guarded
<1>4. QED BY <1>2, <1>3

(* Sign-up or restore binds an account. *)
LEMMA ConfigureStep == ASSUME IInv, NEW a \in Account, Configure(a) PROVE IInv'
<1>1. /\ CanIssue /\ issued' = issued + 1 /\ home' = home /\ granted' = granted
      /\ stale' = stale /\ upgrading' = upgrading /\ restarts' = restarts
      /\ issued' \in Id
  BY IssuedTypes DEF Configure, Issue, Fresh
<1>2. a \in Identity
  BY DEF Identity
<1>3. /\ Good(Rebound(a), issued + 1, home, granted, ended \union EndedBy(a))
      /\ Good(Rebound(a), issued + 1, home, granted, ended)
      /\ Good(Coded(Rebound(a)), issued + 1, home, granted, ended \union EndedBy(a))
  BY <1>1, <1>2, GoodRebound, IssuedTypes, GoodAges
<1>4. phase' \in {"binding", "failing"} /\ faults' \in 0..MaxFaults
  BY BoundsAssumption DEF Configure, Fault, SaveFails, IInv, TypeOK
<1>5. CASE /\ data' \in {Rebound(a), Coded(Rebound(a))} /\ disk' \in {Rebound(a), Coded(Rebound(a))}
           /\ EndSessions(a)
  <2>1. ended' = ended \union EndedBy(a)
    BY <1>5 DEF EndSessions
  <2>2. BothGood'
    BY <1>1, <1>3, <1>5, <2>1 DEF BothGood
  <2>3. /\ Guarded' /\ EndedBy(a) \in SUBSET Id /\ \A s \in EndedBy(a) : s <= issued
        /\ streams' \subseteq streams /\ raced' \subseteq raced \union upgrading
    BY <1>1, <1>2, <1>5, GuardedRebound
  <2>4. TypeOK'
    BY <1>1, <1>4, <2>1, <2>2, <2>3 DEF BothGood, Good, IInv, TypeOK
  <2>5. Past' /\ SingleUse'
    BY <1>1, <2>1, <2>3, IssuedTypes DEF IInv, Past, SingleUse, Id
  <2>6. QED BY <2>2, <2>3, <2>4, <2>5 DEF IInv
<1>6. CASE SaveFails(Rebound(a)) /\ UNCHANGED <<streams, raced, ended>>
  <2>1. BothGood'
    BY <1>1, <1>3, <1>6, BothAge DEF BothGood, SaveFails
  <2>2. TypeOK'
    BY <1>1, <1>4, <1>6, <2>1 DEF BothGood, Good, IInv, TypeOK
  <2>3. Past' /\ SingleUse' /\ Guarded'
    BY <1>1, <1>6, IssuedTypes DEF IInv, Past, SingleUse, Guarded, SaveFails, Id
  <2>4. QED BY <2>1, <2>2, <2>3 DEF IInv
<1>7. QED BY <1>5, <1>6 DEF Configure, Saves

(* It failed, and the node is bound to no account again. *)
LEMMA RollbackStep == ASSUME IInv, Rollback PROVE IInv'
<1>1. /\ issued' = issued /\ home' = home /\ granted' = granted
      /\ stale' = stale /\ upgrading' = upgrading /\ restarts' = restarts
  BY DEF Rollback
<1>2. NoAccount \in Identity
  BY DEF Identity
<1>3. /\ Good(Rebound(NoAccount), issued, home, granted, ended \union EndedBy(NoAccount))
      /\ Good(Rebound(NoAccount), issued, home, granted, ended)
  BY <1>2, GoodRebound
<1>4. phase' = "unconfigured" /\ faults' \in 0..MaxFaults
  BY BoundsAssumption DEF Rollback, Fault, SaveFails, IInv, TypeOK
<1>5. CASE Saves(Rebound(NoAccount)) /\ EndSessions(NoAccount)
  <2>1. ended' = ended \union EndedBy(NoAccount)
    BY <1>5 DEF EndSessions
  <2>2. BothGood'
    BY <1>1, <1>3, <1>5, <2>1 DEF BothGood, Saves
  <2>3. /\ Guarded' /\ EndedBy(NoAccount) \in SUBSET Id /\ \A s \in EndedBy(NoAccount) : s <= issued
        /\ streams' \subseteq streams /\ raced' \subseteq raced \union upgrading
    BY <1>1, <1>2, <1>5, GuardedRebound DEF Saves
  <2>4. TypeOK'
    BY <1>1, <1>4, <2>1, <2>2, <2>3 DEF BothGood, Good, IInv, TypeOK
  <2>5. Past' /\ SingleUse'
    BY <1>1, <2>1, <2>3 DEF IInv, Past, SingleUse
  <2>6. QED BY <2>2, <2>3, <2>4, <2>5 DEF IInv
<1>6. CASE SaveFails(Rebound(NoAccount)) /\ UNCHANGED <<streams, raced, ended>>
  <2>1. BothGood'
    BY <1>1, <1>3, <1>6 DEF BothGood, SaveFails, IInv
  <2>2. TypeOK'
    BY <1>1, <1>4, <1>6, <2>1 DEF BothGood, Good, IInv, TypeOK
  <2>3. Past' /\ SingleUse' /\ Guarded'
    BY <1>1, <1>6 DEF IInv, Past, SingleUse, Guarded, SaveFails
  <2>4. QED BY <2>1, <2>2, <2>3 DEF IInv
<1>7. QED BY <1>5, <1>6 DEF Rollback

(* What the routes share: a good version is saved, or a write fails and    *)
(* leaves memory as it was.                                                *)
LEMMA RouteStep ==
  ASSUME IInv, Keep, CanIssue, Issue, home' \in [Id -> Identity],
         Good(data, issued + 1, home', granted, ended), Good(disk, issued + 1, home', granted, ended),
         NEW next, Good(next, issued + 1, home', granted, ended),
         data.sessions \subseteq next.sessions \union {s \in data.sessions : s.id \in stale},
         \/ /\ Saves(next) /\ UNCHANGED faults
            /\ \/ granted' = granted
               \/ \E by \in Id : /\ by <= issued /\ granted' = granted \union {<<by, issued + 1>>}
                                 /\ Unusable(next, by) /\ ~Unusable(data, by)
         \/ SaveFails(next) /\ UNCHANGED granted
  PROVE  IInv'
<1>1. issued' = issued + 1 /\ issued + 1 \in Id /\ issued \in Nat
  BY IssuedTypes DEF Issue, Fresh
<1>2. UNCHANGED <<phase, stale, upgrading, streams, restarts, ended, raced>>
  BY DEF Keep
<1>3. CASE granted' = granted
  <2>1. BothGood'
    BY <1>1, <1>2, <1>3 DEF BothGood, Saves, SaveFails
  <2>2. faults' \in 0..MaxFaults
    BY BoundsAssumption DEF SaveFails, Fault, IInv, TypeOK
  <2>3. TypeOK'
    BY <1>1, <1>2, <1>3, <2>1, <2>2 DEF BothGood, Good, IInv, TypeOK
  <2>4. Past' /\ SingleUse'
    BY <1>1, <1>2, <1>3, IssuedTypes DEF IInv, Past, SingleUse, Id
  <2>5. Guarded'
    BY <1>2 DEF IInv, Guarded, Saves, SaveFails
  <2>6. QED BY <2>1, <2>3, <2>4, <2>5 DEF IInv
<1>4. CASE granted' # granted
  <2>1. PICK by \in Id : /\ by <= issued /\ granted' = granted \union {<<by, issued + 1>>}
                         /\ Unusable(next, by) /\ ~Unusable(data, by)
    BY <1>4
  <2>2. data' = next /\ disk' = next /\ faults' = faults
    BY <1>4 DEF Saves
  <2>3. BothGood'
    BY <1>1, <1>2, <2>1, <2>2, GoodSpends DEF BothGood
  <2>4. TypeOK'
    BY <1>1, <1>2, <2>1, <2>2, <2>3 DEF BothGood, Good, IInv, TypeOK
  <2>5. \A x \in granted : x[1] # by
    BY <2>1 DEF IInv, BothGood, Good
  <2>6. SingleUse'
    BY <2>1, <2>5 DEF IInv, SingleUse
  <2>7. Past'
    BY <1>1, <1>2, <2>1, IssuedTypes DEF IInv, Past, Id
  <2>8. Guarded'
    BY <1>2, <2>2 DEF IInv, Guarded
  <2>9. QED BY <2>3, <2>4, <2>6, <2>7, <2>8 DEF IInv
<1>5. QED BY <1>3, <1>4

LEMMA RegisterStep == ASSUME IInv, NEW proof \in Id, Register(proof) PROVE IInv'
<1> DEFINE code == data.enrollment
           added == [data EXCEPT !.clients = @ \union {issued + 1}]
           next == [added EXCEPT !.enrollment = IF @ = proof THEN NoCode ELSE @]
<1>1. /\ Keep /\ CanIssue /\ Issue /\ issued + 1 \in Id /\ Fresh = issued + 1
      /\ home' = [home EXCEPT ![issued + 1] = data.account]
  BY IssuedTypes DEF Register
<1>2. data \in AuthData /\ data.account \in Identity
  BY DEF IInv, TypeOK, AuthData
<1>3. Good(data, issued + 1, home', granted, ended) /\ Good(disk, issued + 1, home', granted, ended)
  BY <1>1, <1>2, BothAge
<1>4. Good(added, issued + 1, home', granted, ended)
  BY <1>1, IssuedTypes, GoodAddsClient DEF IInv, BothGood
<1>5. added \in AuthData /\ added.enrollment = code /\ added.sessions = data.sessions
      /\ added.codes = data.codes /\ added.tickets = data.tickets
  BY <1>1, <1>2 DEF AuthData
<1>6. /\ next \in AuthData /\ next.enrollment = IF code = proof THEN NoCode ELSE code
      /\ next.account = added.account /\ next.clients = added.clients /\ next.codes = added.codes
      /\ next.sessions = added.sessions /\ next.tickets = added.tickets
  BY <1>5 DEF AuthData
<1>7. next = [data EXCEPT !.clients = @ \union {Fresh}, !.enrollment = IF @ = proof THEN NoCode ELSE @]
  BY <1>1, <1>2 DEF AuthData
<1>8. \/ /\ Saves(next) /\ UNCHANGED faults
         /\ granted' = IF proof = code THEN granted \union {<<proof, issued + 1>>} ELSE granted
      \/ SaveFails(next) /\ UNCHANGED granted
  BY <1>1, <1>7 DEF Register
<1> HIDE DEF next, added
<1>9. Good(next, issued + 1, home', granted, ended)
  BY <1>1, <1>4, <1>5, <1>6, IssuedTypes, GoodShrinks DEF NoCode, Id
<1>10. ASSUME proof = code PROVE proof <= issued /\ Unusable(next, proof) /\ ~Unusable(data, proof)
  <2>1. next.enrollment = NoCode /\ NoCode # proof
    BY <1>6, <1>10 DEF Id, NoCode
  <2>2. \A y \in data.codes \union data.tickets : y.id # code
    BY DEF IInv, BothGood, Good, Distinct
  <2>3. Unusable(next, proof)
    BY <1>5, <1>6, <1>10, <2>1, <2>2 DEF Unusable
  <2>4. ~Unusable(data, proof) /\ proof <= issued
    BY <1>10 DEF Unusable, IInv, BothGood, Good, Issued
  <2>5. QED BY <2>3, <2>4
<1>11. home' \in [Id -> Identity]
  BY <1>1, <1>2, IssuedTypes
<1>12. \/ /\ Saves(next) /\ UNCHANGED faults
          /\ \/ granted' = granted
             \/ \E by \in Id : /\ by <= issued /\ granted' = granted \union {<<by, issued + 1>>}
                               /\ Unusable(next, by) /\ ~Unusable(data, by)
       \/ SaveFails(next) /\ UNCHANGED granted
  BY <1>8, <1>10
<1>13. data.sessions \subseteq next.sessions
  BY <1>5, <1>6
<1>14. QED BY <1>1, <1>3, <1>9, <1>11, <1>12, <1>13, RouteStep

LEMMA AuthorizeStep == ASSUME IInv, NEW c \in Id, Authorize(c) PROVE IInv'
<1> DEFINE others == {x \in data.codes : x.id \notin stale /\ x.client # c}
           added == [data EXCEPT !.codes = @ \union {[id |-> issued + 1, client |-> c]}]
           next == [data EXCEPT !.codes = Youngest(others \union {[id |-> Fresh, client |-> c]})]
<1>1. Keep /\ CanIssue /\ Issue /\ home' = home /\ granted' = granted /\ c \in data.clients
      /\ issued + 1 \in Id /\ Fresh = issued + 1
  BY IssuedTypes DEF Authorize
<1>2. (Saves(next) /\ UNCHANGED faults) \/ SaveFails(next)
  BY DEF Authorize
<1>3. Good(added, issued + 1, home, granted, ended)
  BY <1>1, IssuedTypes, GoodAddsAuthorization DEF IInv, BothGood, Past
<1>4. data \in AuthData
  BY DEF IInv, TypeOK
<1>5. Youngest(others \union {[id |-> Fresh, client |-> c]}) \subseteq data.codes \union {[id |-> issued + 1, client |-> c]}
  BY <1>1 DEF Youngest
<1>6. /\ added.codes = data.codes \union {[id |-> issued + 1, client |-> c]} /\ added.account = data.account
      /\ added.enrollment = data.enrollment /\ added.clients = data.clients
      /\ added.sessions = data.sessions /\ added.tickets = data.tickets /\ added \in AuthData
  BY <1>3, <1>4 DEF Good, AuthData
<1>7. Youngest(others \union {[id |-> Fresh, client |-> c]}) \in SUBSET [id : Id, client : Id]
  BY <1>5, <1>6 DEF AuthData
<1>8. /\ next \in AuthData /\ next.account = data.account /\ next.enrollment = data.enrollment
      /\ next.clients = data.clients /\ next.sessions = data.sessions /\ next.tickets = data.tickets
      /\ next.codes \subseteq added.codes
  BY <1>4, <1>5, <1>6, <1>7 DEF AuthData
<1> HIDE DEF next, added
<1>9. Good(next, issued + 1, home, granted, ended)
  BY <1>1, <1>3, <1>6, <1>8, IssuedTypes, GoodShrinks DEF NoCode, Id
<1>10. QED BY <1>1, <1>2, <1>8, <1>9, IssuedTypes, BothAge, RouteStep

LEMMA ExchangeStep == ASSUME IInv, NEW x \in data.codes, Exchange(x) PROVE IInv'
<1> DEFINE kept == {s \in data.sessions : s.id \notin stale}
           new == [id |-> issued + 1, client |-> x.client]
           added == [data EXCEPT !.sessions = @ \union {new}]
           next == [data EXCEPT !.codes = Spent(@, x), !.sessions = kept \union {new}]
<1>1. Keep /\ CanIssue /\ Issue /\ home' = home /\ issued + 1 \in Id /\ Fresh = issued + 1
  BY IssuedTypes DEF Exchange
<1>2. \/ Saves(next) /\ UNCHANGED faults /\ granted' = granted \union {<<x.id, issued + 1>>}
      \/ SaveFails(next) /\ UNCHANGED granted
  BY <1>1 DEF Exchange
<1>3. data \in AuthData /\ x.client \in Id /\ x.id \in Id /\ x.client <= issued /\ x.id <= issued
      /\ home[x.client] = data.account
  BY DEF IInv, TypeOK, AuthData, BothGood, Good, Issued, Homed
<1>4. Good(added, issued + 1, home, granted, ended)
  BY <1>1, <1>3, IssuedTypes, GoodAddsSession DEF IInv, BothGood, Past
<1>5. new \in [id : Id, client : Id]
  BY <1>1, <1>3
<1> HIDE DEF new
<1>6. /\ added.sessions = data.sessions \union {new} /\ added.account = data.account
      /\ added.enrollment = data.enrollment /\ added.clients = data.clients
      /\ added.codes = data.codes /\ added.tickets = data.tickets
  BY <1>3 DEF AuthData
<1>7. /\ next \in AuthData /\ next.account = data.account /\ next.enrollment = data.enrollment
      /\ next.clients = data.clients /\ next.sessions = kept \union {new} /\ next.tickets = data.tickets
      /\ next.codes = data.codes \ {x}
  BY <1>3, <1>5 DEF AuthData, Spent
<1> HIDE DEF next, added
<1>8. Good(next, issued + 1, home, granted, ended)
  BY <1>1, <1>4, <1>6, <1>7, IssuedTypes, GoodShrinks DEF NoCode, Id
<1>9. Unusable(next, x.id)
  <2>1. Distinct(data)
    BY DEF IInv, BothGood, Good
  <2>2. QED BY <1>7, <2>1 DEF Distinct, Unusable
<1>10. ~Unusable(data, x.id)
  BY DEF Unusable
<1>11. data.sessions \subseteq next.sessions \union {s \in data.sessions : s.id \in stale}
  BY <1>7
<1>12. QED BY <1>1, <1>2, <1>3, <1>8, <1>9, <1>10, <1>11, IssuedTypes, BothAge, RouteStep

LEMMA TicketStep == ASSUME IInv, NEW s \in Id, IssueTicket(s) PROVE IInv'
<1> DEFINE kept == {x \in data.tickets : x.id \notin stale}
           new == [id |-> issued + 1, session |-> s]
           added == [data EXCEPT !.tickets = @ \union {new}]
           next == [data EXCEPT !.tickets = kept \union {new}]
<1>1. Keep /\ CanIssue /\ Issue /\ home' = home /\ granted' = granted
      /\ issued + 1 \in Id /\ Fresh = issued + 1
  BY IssuedTypes DEF IssueTicket
<1>2. (Saves(next) /\ UNCHANGED faults) \/ SaveFails(next)
  BY <1>1 DEF IssueTicket
<1>3. data \in AuthData
  BY DEF IInv, TypeOK
<1>4. s <= issued
  BY DEF IssueTicket, validateAccessToken, LiveSessions, Live, IInv, BothGood, Good, Issued
<1>5. Good(added, issued + 1, home, granted, ended)
  BY <1>1, <1>4, IssuedTypes, GoodAddsTicket DEF IInv, BothGood, Past
<1>6. new \in [id : Id, session : Id]
  BY <1>1
<1> HIDE DEF new
<1>7. /\ added.tickets = data.tickets \union {new} /\ added.account = data.account
      /\ added.enrollment = data.enrollment /\ added.clients = data.clients
      /\ added.codes = data.codes /\ added.sessions = data.sessions
  BY <1>3 DEF AuthData
<1>8. /\ next \in AuthData /\ next.account = data.account /\ next.enrollment = data.enrollment
      /\ next.clients = data.clients /\ next.sessions = data.sessions /\ next.tickets = kept \union {new}
      /\ next.codes = data.codes
  BY <1>3, <1>6 DEF AuthData
<1> HIDE DEF next, added
<1>9. Good(next, issued + 1, home, granted, ended)
  BY <1>1, <1>5, <1>7, <1>8, IssuedTypes, GoodShrinks DEF NoCode, Id
<1>10. QED BY <1>1, <1>2, <1>8, <1>9, IssuedTypes, BothAge, RouteStep

LEMMA RevokeStep == ASSUME IInv, NEW s \in Id, Revoke(s) PROVE IInv'
<1> DEFINE client == (CHOOSE x \in data.sessions : x.id = s).client
           gone == {x.id : x \in {y \in data.sessions : y.client = client}}
           next == [data EXCEPT !.clients = @ \ {client},
                                !.codes = {x \in @ : x.client # client},
                                !.sessions = {x \in @ : x.client # client},
                                !.tickets = {x \in @ : x.session \notin gone}]
<1>1. /\ CanIssue /\ issued' = issued + 1 /\ issued + 1 \in Id /\ home' = home /\ granted' = granted
      /\ UNCHANGED <<phase, stale, upgrading, restarts>>
  BY IssuedTypes DEF Revoke, Issue, Fresh
<1>2. \/ /\ data' \in {next, Coded(next)} /\ disk' \in {next, Coded(next)} /\ faults' \in 0..MaxFaults
         /\ CloseStreams(gone) /\ ended' = ended \union gone
      \/ /\ data' = data /\ disk' \in {disk, next} /\ faults' \in 0..MaxFaults
         /\ UNCHANGED <<streams, raced, ended>>
  BY SMTT(30), BoundsAssumption DEF Revoke, Saves, SaveFails, Fault, IInv, TypeOK
<1>3. /\ next \in AuthData /\ next.account = data.account /\ next.enrollment = data.enrollment
      /\ next.clients \subseteq data.clients /\ next.codes \subseteq data.codes
      /\ next.sessions = {x \in data.sessions : x.client # client} /\ next.tickets \subseteq data.tickets
  BY DEF IInv, TypeOK, AuthData
<1>4. \A i : i \in gone <=> \E x \in data.sessions : x.client = client /\ x.id = i
  OBVIOUS
<1>5. gone \in SUBSET Id /\ \A i \in gone : i <= issued
  BY <1>4 DEF IInv, BothGood, Good, Issued, AuthData
<1> HIDE DEF next, gone, client
<1>6. Good(next, issued, home, granted, ended)
  BY <1>3, IssuedTypes, GoodShrinks DEF IInv, BothGood
<1>7. \A x \in next.sessions : x.id \notin gone
  <2>1. Distinct(data)
    BY DEF IInv, BothGood, Good
  <2>2. QED BY <1>3, <1>4, <2>1 DEF Distinct
<1>8. Good(next, issued, home, granted, ended \union gone)
  BY <1>6, <1>7 DEF Good
<1>9. /\ Good(next, issued + 1, home, granted, ended \union gone)
      /\ Good(next, issued + 1, home, granted, ended)
      /\ Good(Coded(next), issued + 1, home, granted, ended \union gone)
  BY <1>1, <1>6, <1>8, IssuedTypes, GoodAges, GoodAddsCode DEF Coded, IInv, Past
<1>10. CASE /\ data' \in {next, Coded(next)} /\ disk' \in {next, Coded(next)} /\ faults' \in 0..MaxFaults
            /\ CloseStreams(gone) /\ ended' = ended \union gone
  <2>1. BothGood'
    BY <1>1, <1>9, <1>10 DEF BothGood
  <2>2. /\ streams' = {x \in streams : x[2] \notin gone}
        /\ raced' = raced \union {x \in upgrading : x[2] \in gone}
    BY <1>10 DEF CloseStreams
  <2>3. TypeOK'
    BY <1>1, <1>5, <1>10, <2>1, <2>2 DEF BothGood, Good, IInv, TypeOK
  <2>4. Past' /\ SingleUse'
    <3>1. ASSUME NEW i \in ended' PROVE i \in Nat /\ i <= issued
      <4>1. i \in ended \/ i \in gone
        BY <1>10
      <4>2. i \in Id
        BY <1>5, <4>1, IssuedTypes
      <4>3. i <= issued
        BY <1>5, <4>1 DEF IInv, Past
      <4>4. QED BY <4>2, <4>3 DEF Id
    <3>2. \A x \in granted : x[1] \in Nat /\ x[1] <= issued
      BY IssuedTypes DEF IInv, Past, Id
    <3>3. QED BY <1>1, <3>1, <3>2, IssuedTypes DEF IInv, Past, SingleUse
  <2>5. data'.sessions = next.sessions
    BY <1>3, <1>10 DEF Coded, AuthData
  <2>6. \A x \in data.sessions : x.id \in gone \/ x \in next.sessions
    BY <1>3, <1>4
  <2>7. Guarded'
    BY <1>1, <2>2, <2>5, <2>6 DEF IInv, Guarded
  <2>8. QED BY <2>1, <2>3, <2>4, <2>7 DEF IInv
<1>11. CASE /\ data' = data /\ disk' \in {disk, next} /\ faults' \in 0..MaxFaults
            /\ UNCHANGED <<streams, raced, ended>>
  <2>1. BothGood'
    BY <1>1, <1>9, <1>11, BothAge DEF BothGood
  <2>2. TypeOK'
    BY <1>1, <1>11, <2>1 DEF BothGood, Good, IInv, TypeOK
  <2>3. Past' /\ SingleUse' /\ Guarded'
    BY <1>1, <1>11, IssuedTypes DEF IInv, Past, SingleUse, Guarded, Id
  <2>4. QED BY <2>1, <2>2, <2>3 DEF IInv
<1>12. QED BY <1>2, <1>10, <1>11

(* A ticket is used up. *)
LEMMA ConsumeStep == ASSUME IInv, NEW x \in data.tickets, Consume(x) PROVE IInv'
<1> DEFINE next == [data EXCEPT !.tickets = @ \ {x}]
           good == x.id \notin stale /\ validateAccessToken(x.session)
<1>1. UNCHANGED <<phase, issued, stale, streams, restarts, home, ended, raced>>
  BY DEF Consume
<1>2. x.id \in Id /\ x.session \in Id /\ x.id <= issued
  BY DEF IInv, TypeOK, AuthData, BothGood, Good, Issued
<1>3. /\ next \in AuthData /\ next.account = data.account /\ next.enrollment = data.enrollment
      /\ next.clients = data.clients /\ next.codes = data.codes
      /\ next.sessions = data.sessions /\ next.tickets = data.tickets \ {x}
  BY DEF IInv, TypeOK, AuthData
<1>4. good => \E s \in data.sessions : s.id = x.session
  BY DEF validateAccessToken, LiveSessions, Live
<1>5. \/ /\ data' = next /\ disk' = next /\ faults' = faults
         /\ upgrading' = IF good THEN upgrading \union {<<x.id, x.session>>} ELSE upgrading
         /\ granted' = IF good THEN granted \union {<<x.id, x.session>>} ELSE granted
      \/ /\ data' = data /\ disk' \in {disk, next} /\ faults' \in 0..MaxFaults
         /\ UNCHANGED <<upgrading, granted>>
  BY BoundsAssumption DEF Consume, Saves, SaveFails, Fault, IInv, TypeOK
<1> HIDE DEF next, good
<1>6. Good(next, issued, home, granted, ended)
  BY <1>3, IssuedTypes, GoodShrinks DEF IInv, BothGood
<1>7. Unusable(next, x.id) /\ ~Unusable(data, x.id)
  <2>1. Distinct(data)
    BY DEF IInv, BothGood, Good
  <2>2. QED BY <1>3, <2>1 DEF Distinct, Unusable
<1>8. Good(next, issued, home, granted \union {<<x.id, x.session>>}, ended)
  BY <1>6, <1>7, GoodSpends
<1>9. BothGood'
  BY <1>1, <1>5, <1>6, <1>8 DEF BothGood, IInv
<1>10. granted' \subseteq granted \union {<<x.id, x.session>>} /\ upgrading' \subseteq upgrading \union {<<x.id, x.session>>}
       /\ faults' \in 0..MaxFaults
  BY <1>5 DEF IInv, TypeOK
<1>11. TypeOK'
  BY <1>1, <1>2, <1>9, <1>10 DEF BothGood, Good, IInv, TypeOK
<1>12. \A y \in granted : y[1] # x.id
  BY <1>7 DEF IInv, BothGood, Good
<1>13. SingleUse'
  BY <1>10, <1>12 DEF IInv, SingleUse
<1>14. Past'
  BY <1>1, <1>2, <1>10 DEF IInv, Past
<1>15. data'.sessions = data.sessions
  BY <1>3, <1>5
<1>16. \A y \in upgrading' : y \in upgrading \/ (\E s \in data.sessions : s.id = y[2])
  BY <1>4, <1>5
<1>17. Guarded'
  BY <1>1, <1>15, <1>16 DEF IInv, Guarded
<1>18. QED BY <1>9, <1>11, <1>13, <1>14, <1>17 DEF IInv

(* Sockets and time. *)
LEMMA SocketStep ==
  ASSUME IInv, NEW x \in upgrading \union streams, Open(x) \/ Hangup(x) PROVE IInv'
<1>1. /\ UNCHANGED <<disk, data, phase, issued, faults, restarts, home, granted, ended, stale, raced>>
      /\ upgrading' \subseteq upgrading /\ streams' \subseteq streams \union upgrading
  BY DEF Open, Hangup, Quiet
<1>2. BothGood' /\ Past' /\ SingleUse'
  BY <1>1 DEF IInv, BothGood, Past, SingleUse
<1>3. TypeOK'
  BY <1>1 DEF IInv, TypeOK
<1>4. Guarded'
  BY <1>1 DEF IInv, Guarded
<1>5. QED BY <1>2, <1>3, <1>4 DEF IInv

LEMMA ExpireStep == ASSUME IInv, NEW i \in Id, Expire(i) PROVE IInv'
<1>1. /\ UNCHANGED <<disk, data, phase, issued, faults, restarts, home, granted, ended, upgrading, streams, raced>>
      /\ stale' = stale \union {i} \union {x.id : x \in {y \in data.tickets : y.session = i}}
  BY DEF Expire, Quiet
<1>2. BothGood' /\ Past' /\ SingleUse'
  BY <1>1 DEF IInv, BothGood, Past, SingleUse
<1>3. \A x \in data.tickets : x.id \in Id
  BY DEF IInv, TypeOK, AuthData
<1>4. TypeOK'
  BY <1>1, <1>3 DEF IInv, TypeOK
<1>5. Guarded'
  BY <1>1 DEF IInv, Guarded
<1>6. QED BY <1>2, <1>4, <1>5 DEF IInv

(* A new process. *)
LEMMA RestartStep == ASSUME IInv, NEW a \in Identity, Restart(a) PROVE IInv'
<1> DEFINE late == IF disk.account = a THEN ended ELSE ended \union {x.id : x \in disk.sessions}
<1>1. /\ issued' = issued + 1 /\ issued + 1 \in Id /\ Fresh = issued + 1
      /\ upgrading' = {} /\ streams' = {} /\ UNCHANGED <<raced, stale, home, granted>> /\ ended' = late
      /\ restarts' \in 0..MaxRestarts
  BY BoundsAssumption DEF Restart, Issue, Fresh, IInv, TypeOK, Id
<1>2. Good(Booted(a), issued, home, granted, late)
  <2>1. CASE disk.account = a
    <3>1. Booted(a) = Usable(disk) /\ late = ended
      BY <2>1 DEF Booted
    <3>2. disk \in AuthData
      BY DEF IInv, TypeOK
    <3>3. PICK kept \in SUBSET disk.codes : Usable(disk) = [disk EXCEPT !.codes = kept]
      BY DEF Usable, Youngest
    <3>4. /\ Usable(disk) \in AuthData /\ Usable(disk).account = disk.account
          /\ Usable(disk).enrollment = disk.enrollment /\ Usable(disk).clients = disk.clients
          /\ Usable(disk).codes = kept /\ Usable(disk).sessions = disk.sessions
          /\ Usable(disk).tickets = disk.tickets
      BY <3>2, <3>3 DEF AuthData
    <3>5. QED BY <3>1, <3>4, IssuedTypes, GoodShrinks DEF IInv, BothGood
  <2>2. CASE disk.account # a
    BY <2>2, IssuedTypes, GoodUnbound DEF Booted
  <2>3. QED BY <2>1, <2>2
<1>3. late \in SUBSET Id /\ \A s \in late : s <= issued
  <2>1. \A x \in disk.sessions : x.id \in Id /\ x.id <= issued
    BY DEF IInv, BothGood, Good, Issued, AuthData
  <2>2. QED BY <2>1, IssuedTypes DEF IInv, Past
<1> HIDE DEF late
<1>4. Good(Booted(a), issued + 1, home, granted, late) /\ Good(Coded(Booted(a)), issued + 1, home, granted, late)
  BY <1>1, <1>2, IssuedTypes, GoodAges, GoodAddsCode DEF Coded, IInv, Past
<1>5. /\ data' \in {Booted(a), Coded(Booted(a))} /\ disk' \in {Booted(a), Coded(Booted(a))}
      /\ faults' \in 0..MaxFaults /\ phase' \in {"unconfigured", "serving", "down"}
  BY BoundsAssumption DEF Restart, Fault, IInv, TypeOK
<1>6. BothGood'
  BY <1>1, <1>4, <1>5 DEF BothGood
<1>7. TypeOK'
  BY <1>1, <1>3, <1>5, <1>6 DEF BothGood, Good, IInv, TypeOK
<1>8. Past' /\ SingleUse' /\ Guarded'
  BY <1>1, <1>3, IssuedTypes DEF IInv, Past, SingleUse, Guarded, Id
<1>9. QED BY <1>6, <1>7, <1>8 DEF IInv

LEMMA NextIInv == IInv /\ [Next]_vars => IInv'
<1> SUFFICES ASSUME IInv, [Next]_vars PROVE IInv'
  OBVIOUS
<1>1. CASE UNCHANGED vars
  BY <1>1 DEF vars, IInv, TypeOK, Past, BothGood, SingleUse, Guarded
<1>2. CASE Publish
  <2>1. /\ UNCHANGED <<disk, data, issued, stale, upgrading, streams, faults, restarts, home, granted, ended, raced>>
        /\ phase' = "serving"
    BY <1>2 DEF Publish
  <2>2. QED BY <2>1 DEF IInv, TypeOK, Past, BothGood, SingleUse, Guarded
<1>3. QED
  BY <1>1, <1>2, ConfigureStep, RollbackStep, RegisterStep, AuthorizeStep, ExchangeStep, TicketStep,
     RevokeStep, ConsumeStep, SocketStep, ExpireStep, RestartStep DEF Next

-----------------------------------------------------------------------------
(* The inductive invariant holds in every reachable state. *)
THEOREM SessionsInvariant == Spec => []IInv
<1>1. QED BY InitIInv, NextIInv, PTL DEF Spec

(* The variables keep their types. *)
THEOREM SessionsTypes == Spec => []TypeOK
<1>1. IInv => TypeOK
  BY DEF IInv
<1>2. QED BY SessionsInvariant, <1>1, PTL

(* No enrollment code, authorization code or ticket is used twice, though  *)
(* its use was written to the file only, or to neither (auth.ts).          *)
THEOREM SessionsSingleUse == Spec => []SingleUse
<1>1. IInv => SingleUse
  BY DEF IInv
<1>2. QED BY SessionsInvariant, <1>1, PTL

(* What is usable was registered under the account the data is bound to    *)
(* (bindAccount).                                                          *)
THEOREM SessionsOfOneAccount == Spec => []OfOneAccount
<1>1. IInv => OfOneAccount
  BY DEF IInv, BothGood, Good, Homed, OfOneAccount
<1>2. QED BY SessionsInvariant, <1>1, PTL

(* A session that was revoked, or ended by a binding, is in no version of  *)
(* the data again.                                                         *)
THEOREM SessionsEndForGood == Spec => []EndedStaysEnded
<1>1. IInv => EndedStaysEnded
  BY DEF IInv, BothGood, Good, EndedStaysEnded
<1>2. QED BY SessionsInvariant, <1>1, PTL

(* An open socket has its session, unless it was upgrading when the        *)
(* session ended or the session has expired (the stream route and the      *)
(* invalidation listener).                                                 *)
THEOREM SessionsGuardStreams == Spec => []StreamsHaveSessions
<1>1. IInv => StreamsHaveSessions
  BY DEF IInv, Guarded, StreamsHaveSessions
<1>2. QED BY SessionsInvariant, <1>1, PTL

-----------------------------------------------------------------------------
(***************************************************************************)
(* A backup is the node of one moment, for any number of changes and of    *)
(* exports, one after the other or refused.                                *)
(*                                                                         *)
(* The barrier is not a lock, so what matters is what an attempt may       *)
(* conclude from counters that have not moved.  Still(e): an equal         *)
(* revision means that nothing is under way, an equal generation that the  *)
(* store is what it was, and both together that the core's copy and the    *)
(* store were once seen together with nothing under way.                   *)
(***************************************************************************)

Running(e) == at[e] \notin {"idle", "over"}

Counting ==
  /\ IsFiniteSet(under) /\ IsFiniteSet(over) /\ under \intersect over = {}
  /\ \A e, f \in Export : Running(e) /\ Running(f) => e = f
  /\ stuck # {} => \A e \in Export : ~Running(e)

Still(e) ==
  /\ before[e].revision <= mutationRevision /\ before[e].generation <= generation
  /\ at[e] = "tarring" /\ mutationRevision = before[e].revision => under = {}
  /\ at[e] = "tarring" /\ generation = before[e].generation => stored = before[e].contents
  /\ at[e] = "tarring" /\ tar[e] # NoTar /\ mutationRevision = before[e].revision /\ generation = before[e].generation
       => <<tar[e], stored>> \in moments

ExportIInv == BackupTypeOK /\ Counting /\ (\A e \in Export : Still(e)) /\ BackupIsOneMoment

(* Nobody holds the barrier exactly when the number of holders is 0. *)
LEMMA ActiveIsNone == Counting => activeMutations \in Nat /\ (activeMutations = 0 <=> under = {})
  BY FS_EmptySet, FS_CardinalityType DEF Counting, activeMutations

LEMMA ExportInit == BackupInit => ExportIInv
<1> SUFFICES ASSUME BackupInit PROVE ExportIInv
  OBVIOUS
<1>1. IsFiniteSet({}) /\ Cardinality({}) = 0
  BY FS_EmptySet
<1>2. BackupTypeOK
  <2>1. before \in [Export -> [revision : Nat, generation : Nat, contents : SUBSET Change]]
    BY DEF BackupInit, Snapshot
  <2>2. mutationRevision = Cardinality(under) + 2 * Cardinality(over)
    BY <1>1 DEF BackupInit
  <2>3. exporting = FALSE /\ stuck = {} /\ \A e \in Export : at[e] = "idle"
    BY DEF BackupInit
  <2>4. /\ stuck \subseteq {e \in Export : at[e] = "over"}
        /\ exporting <=> stuck # {} \/ \E e \in Export : at[e] \notin {"idle", "over"}
    BY <2>3
  <2>5. attempt \in [Export -> 0..2] /\ tar \in [Export -> (SUBSET Change) \union {NoTar}]
    BY DEF BackupInit
  <2>6. backups \subseteq (SUBSET Change) \X (SUBSET Change)
    BY DEF BackupInit
  <2>7. QED BY <2>1, <2>2, <2>4, <2>5, <2>6 DEF BackupInit, BackupTypeOK
<1>3. Counting
  BY <1>1 DEF BackupInit, Counting, Running
<1>4. QED BY <1>2, <1>3 DEF ExportIInv, Still, BackupInit, Snapshot, BackupIsOneMoment

-----------------------------------------------------------------------------
(* Changes move the counters.                                              *)

(* A change that begins or ends moves the revision by one. *)
LEMMA BarrierStep ==
  ASSUME ExportIInv, NEW c \in Change, beginExternalMutation(c) \/ release(c)
  PROVE  BackupTypeOK' /\ Counting' /\ mutationRevision' = mutationRevision + 1 /\ mutationRevision \in Nat
<1> USE DEF ExportIInv
<1>1. Cardinality(under) \in Nat /\ Cardinality(over) \in Nat /\ mutationRevision \in Nat
  BY FS_CardinalityType DEF Counting, BackupTypeOK
<1>2. CASE beginExternalMutation(c)
  <2>1. c \notin under /\ c \notin over /\ under' = under \union {c} /\ over' = over
    BY <1>2 DEF beginExternalMutation
  <2>2. IsFiniteSet(under') /\ Cardinality(under') = Cardinality(under) + 1
    BY <2>1, FS_AddElement DEF Counting
  <2>3. Counting'
    BY <1>2, <2>1, <2>2 DEF Counting, Running, beginExternalMutation, exportVars
  <2>4. mutationRevision' = mutationRevision + 1
    BY <1>2 DEF beginExternalMutation
  <2>5. mutationRevision' = Cardinality(under') + 2 * Cardinality(over')
    BY <1>1, <2>1, <2>2, <2>4 DEF BackupTypeOK
  <2>6. BackupTypeOK'
    BY <1>2, <2>1, <2>5 DEF BackupTypeOK, beginExternalMutation, exportVars
  <2>7. QED BY <1>1, <2>3, <2>4, <2>6
<1>3. CASE release(c)
  <2>1. c \in under /\ c \notin over /\ under' = under \ {c} /\ over' = over \union {c}
    BY <1>3 DEF release, Counting
  <2>2. /\ IsFiniteSet(under') /\ Cardinality(under') = Cardinality(under) - 1
        /\ IsFiniteSet(over') /\ Cardinality(over') = Cardinality(over) + 1
    BY <2>1, FS_AddElement, FS_RemoveElement DEF Counting
  <2>3. Counting'
    BY <1>3, <2>1, <2>2 DEF Counting, Running, release, exportVars
  <2>4. mutationRevision' = mutationRevision + 1
    BY <1>3 DEF release
  <2>5. mutationRevision' = Cardinality(under') + 2 * Cardinality(over')
    BY <1>1, <2>1, <2>2, <2>4 DEF BackupTypeOK
  <2>6. BackupTypeOK'
    BY <1>3, <2>1, <2>5 DEF BackupTypeOK, release, exportVars
  <2>7. QED BY <1>1, <2>3, <2>4, <2>6
<1>4. QED BY <1>2, <1>3

(* A change leaves every attempt as it is, or visibly out of date. *)
LEMMA ChangeStep ==
  ASSUME ExportIInv, NEW c \in Change, moments \subseteq moments',
         beginExternalMutation(c) \/ ChangeCore(c) \/ ChangeStore(c) \/ Show(c) \/ release(c)
  PROVE  ExportIInv'
<1> USE DEF ExportIInv
<1>1. mutationRevision \in Nat
  BY FS_CardinalityType DEF Counting, BackupTypeOK
<1>2. CASE beginExternalMutation(c) \/ release(c)
  <2>1. BackupTypeOK' /\ Counting' /\ mutationRevision' = mutationRevision + 1
    BY <1>2, BarrierStep
  <2>2. UNCHANGED <<at, before, tar, backups, stuck, generation, stored>>
    BY <1>2 DEF beginExternalMutation, release, exportVars
  <2>3. ASSUME NEW e \in Export PROVE Still(e)'
    <3>1. before[e].revision \in Nat
      BY DEF BackupTypeOK
    <3>2. QED BY <1>1, <2>1, <2>2, <3>1 DEF Still
  <2>4. QED BY <2>1, <2>2, <2>3 DEF BackupIsOneMoment
<1>3. CASE ChangeCore(c)
  <2>1. UNCHANGED <<stored, generation, under, over, mutationRevision, exporting, at, attempt, before, tar, backups, stuck>>
    BY <1>3 DEF ChangeCore, exportVars
  <2>2. BackupTypeOK' /\ Counting'
    BY <1>3, <2>1 DEF ChangeCore, BackupTypeOK, Counting, Running
  <2>3. \A e \in Export : Still(e)'
    BY <2>1 DEF Still
  <2>4. QED BY <2>1, <2>2, <2>3 DEF BackupIsOneMoment
<1>4. CASE Save(c)
  <2>1. UNCHANGED <<core, under, over, mutationRevision, exporting, at, attempt, before, tar, backups, stuck>>
    BY <1>4 DEF Save, exportVars
  <2>2. generation' = generation + 1 /\ stored' = stored \union {c} /\ generation \in Nat
    BY <1>4 DEF Save, BackupTypeOK
  <2>3. BackupTypeOK' /\ Counting'
    BY <2>1, <2>2 DEF BackupTypeOK, Counting, Running
  <2>4. ASSUME NEW e \in Export PROVE Still(e)'
    <3>1. before[e].generation \in Nat
      BY DEF BackupTypeOK
    <3>2. before[e].generation <= generation /\ before[e].revision <= mutationRevision
      BY DEF Still
    <3>3. before[e].generation <= generation' /\ generation' # before[e].generation
      BY <2>2, <3>1, <3>2
    <3>4. (at[e] = "tarring" /\ mutationRevision = before[e].revision) => under = {}
      BY DEF Still
    <3>5. QED BY <2>1, <3>2, <3>3, <3>4 DEF Still
  <2>5. QED BY <2>1, <2>3, <2>4 DEF BackupIsOneMoment
<1>5. QED BY <1>2, <1>3, <1>4 DEF ChangeStore, Show

-----------------------------------------------------------------------------
(* Exports only look at the node.                                          *)

(* What an export's step does to the flag: it sets it and runs, or keeps   *)
(* it and runs on, or ends, and then either resets it or is stuck with it. *)
LEMMA ExportFlag ==
  ASSUME BackupTypeOK, NEW e \in Export, RequestExport(e) \/ ExportStep(e)
  PROVE  /\ \A f \in Export \ {e} : at'[f] = at[f]
         /\ \/ at'[e] \notin {"idle", "over"} /\ exporting' = TRUE /\ stuck' = stuck
            \/ at'[e] = "over" /\ exporting' = FALSE /\ stuck' = stuck
            \/ at'[e] = "over" /\ exporting' = TRUE /\ stuck' = stuck \union {e}
<1>1. \A f \in Export \ {e} : at'[f] = at[f]
  BY DEF RequestExport, ExportStep, Attempt, CopyCore, TarWritten, HandOff, Fail, StreamEnds, Go, Stop,
         LeaveFlag, Refuse, BackupTypeOK
<1> DEFINE Ended ==
      \/ at'[e] = "over" /\ exporting' = FALSE /\ stuck' = stuck
      \/ at'[e] = "over" /\ exporting' = TRUE /\ stuck' = stuck \union {e}
<1> DEFINE Runs == at'[e] \notin {"idle", "over"} /\ exporting' = TRUE /\ stuck' = stuck
<1>2. LeaveFlag(e) => Ended
  BY DEF LeaveFlag, Go, BackupTypeOK
<1>3. Stop(e) => Ended
  BY <1>2 DEF Stop, Go, BackupTypeOK
<1> HIDE DEF Ended, Runs
<1> SUFFICES Ended \/ Runs
  BY <1>1 DEF Ended, Runs
<1>4. CASE RequestExport(e)
  <2>1. CASE LeaveFlag(e) \/ Stop(e)
    BY <1>2, <1>3, <2>1
  <2>2. CASE Go(e, "self") /\ exporting' = TRUE /\ UNCHANGED stuck
    BY <2>2 DEF Go, BackupTypeOK, Runs
  <2>3. QED BY <1>4, <2>1, <2>2 DEF RequestExport, Refuse
<1>5. CASE ExportStep(e)
  <2>1. at[e] \notin {"idle", "over"} => exporting = TRUE
    BY DEF BackupTypeOK
  <2>2. CASE Fail(e) \/ StreamEnds(e)
    BY <1>2, <1>3, <2>2 DEF Fail, StreamEnds, Refuse
  <2>3. CASE Attempt(e)
    <3>1. CASE Stop(e)
      BY <1>3, <3>1
    <3>2. CASE Go(e, "tarring") /\ UNCHANGED <<exporting, stuck>>
      BY <2>1, <2>3, <3>2 DEF Attempt, Go, BackupTypeOK, Runs
    <3>3. QED BY <2>3, <3>1, <3>2 DEF Attempt, Refuse
  <2>4. CASE CopyCore(e) \/ TarWritten(e) \/ HandOff(e)
    BY <2>1, <2>4 DEF CopyCore, TarWritten, HandOff, Go, BackupTypeOK, Runs
  <2>5. QED BY <1>5, <2>2, <2>3, <2>4 DEF ExportStep
<1>6. QED BY <1>4, <1>5

(* There is one export at a time, and none once the flag was left. *)
LEMMA ExportTypes ==
  ASSUME ExportIInv, NEW e \in Export, RequestExport(e) \/ ExportStep(e)
  PROVE  BackupTypeOK' /\ Counting'
<1> USE DEF ExportIInv
<1>1. UNCHANGED <<core, stored, generation, under, over, mutationRevision>>
  BY DEF RequestExport, ExportStep, Attempt, CopyCore, TarWritten, HandOff, Fail, StreamEnds, nodeVars
<1>2. mutationRevision \in Nat
  BY FS_CardinalityType DEF Counting, BackupTypeOK
<1>3. at' \in [Export -> {"idle", "self", "tarring", "again", "marking", "streaming", "over"}]
  BY DEF RequestExport, ExportStep, Attempt, CopyCore, TarWritten, HandOff, Fail, StreamEnds, Go, Stop,
         LeaveFlag, Refuse, BackupTypeOK
<1>4. stuck = {} /\ (Running(e) \/ ~\E f \in Export : Running(f)) /\ at[e] # "over"
  BY DEF RequestExport, ExportStep, Attempt, CopyCore, TarWritten, HandOff, Fail, StreamEnds, Running,
         BackupTypeOK, Counting
<1>5. \A f \in Export \ {e} : at'[f] = at[f]
  BY ExportFlag
<1>6. \A f \in Export \ {e} : ~Running(f)'
  BY <1>4, <1>5 DEF Running, Counting
<1>7. Counting'
  BY <1>1, <1>4, <1>6, ExportFlag DEF Counting, Running
<1>8. /\ exporting' \in BOOLEAN
      /\ stuck' \subseteq {f \in Export : at'[f] = "over"}
      /\ exporting' <=> stuck' # {} \/ \E f \in Export : Running(f)'
  BY <1>4, <1>6, ExportFlag DEF Running
<1>9. attempt' \in [Export -> 0..2]
  BY DEF RequestExport, ExportStep, Attempt, CopyCore, TarWritten, HandOff, Fail, StreamEnds, BeginAttempt, BackupTypeOK
<1>10. before' \in [Export -> [revision : Nat, generation : Nat, contents : SUBSET Change]]
  BY <1>2 DEF RequestExport, ExportStep, Attempt, CopyCore, TarWritten, HandOff, Fail, StreamEnds,
              BeginAttempt, BackupTypeOK, Snapshot
<1>11. tar' \in [Export -> (SUBSET Change) \union {NoTar}]
  BY DEF RequestExport, ExportStep, Attempt, CopyCore, TarWritten, HandOff, Fail, StreamEnds, BeginAttempt, BackupTypeOK
<1>12. backups' \subseteq (SUBSET Change) \X (SUBSET Change)
  BY DEF RequestExport, ExportStep, Attempt, CopyCore, TarWritten, HandOff, Fail, StreamEnds, BackupTypeOK
<1>13. BackupTypeOK'
  BY <1>1, <1>3, <1>8, <1>9, <1>10, <1>11, <1>12 DEF BackupTypeOK, Running
<1>14. QED BY <1>7, <1>13

LEMMA ExportStill ==
  ASSUME ExportIInv, NEW e \in Export, RequestExport(e) \/ ExportStep(e),
         moments' = IF under' = {} THEN moments \union {<<core', stored'>>} ELSE moments
  PROVE  (\A f \in Export : Still(f)') /\ BackupIsOneMoment'
<1> USE DEF ExportIInv
<1>1. UNCHANGED <<core, stored, generation, under, over, mutationRevision>> /\ moments \subseteq moments'
  BY DEF RequestExport, ExportStep, Attempt, CopyCore, TarWritten, HandOff, Fail, StreamEnds, nodeVars
<1>2. mutationRevision \in Nat /\ generation \in Nat
  BY FS_CardinalityType DEF Counting, BackupTypeOK
<1>3. \A f \in Export \ {e} : at'[f] = at[f] /\ before'[f] = before[f] /\ tar'[f] = tar[f]
  BY DEF RequestExport, ExportStep, Attempt, CopyCore, TarWritten, HandOff, Fail, StreamEnds, Go, Stop,
         LeaveFlag, Refuse, BeginAttempt, BackupTypeOK
<1>4. \A f \in Export \ {e} : Still(f)'
  BY <1>1, <1>3 DEF Still
<1>5. Still(e)' /\ BackupIsOneMoment'
  <2>1. ASSUME before'[e] = before[e], at'[e] # "tarring", backups' = backups
        PROVE  Still(e)' /\ BackupIsOneMoment'
    BY <1>1, <2>1 DEF Still, BackupIsOneMoment
  <2>2. CASE RequestExport(e) \/ HandOff(e) \/ Fail(e) \/ StreamEnds(e)
    <3>1. before'[e] = before[e] /\ at'[e] # "tarring" /\ backups' = backups
      BY <2>2 DEF RequestExport, HandOff, Fail, StreamEnds, Go, Stop, LeaveFlag, Refuse, BackupTypeOK
    <3>2. QED BY <2>1, <3>1
  <2>3. CASE Attempt(e)
    <3>1. CASE activeMutations > 0 \/ attempt[e] = 2
      <4>1. before'[e] = before[e] /\ at'[e] # "tarring" /\ backups' = backups
        BY <2>3, <3>1 DEF Attempt, Go, Stop, LeaveFlag, Refuse, BackupTypeOK
      <4>2. QED BY <2>1, <4>1
    <3>2. CASE ~(activeMutations > 0 \/ attempt[e] = 2)
      <4>1. under = {}
        BY <3>2, ActiveIsNone
      <4>2. before'[e] = Snapshot /\ tar'[e] = NoTar /\ backups' = backups
        BY <2>3, <3>2 DEF Attempt, BeginAttempt, BackupTypeOK
      <4>3. QED BY <1>1, <1>2, <4>1, <4>2 DEF Still, Snapshot, BackupIsOneMoment
    <3>3. QED BY <3>1, <3>2
  <2>4. CASE CopyCore(e)
    <3>1. at' = at /\ before' = before /\ backups' = backups /\ tar'[e] = core /\ at[e] = "tarring"
      BY <2>4 DEF CopyCore, BackupTypeOK
    <3>2. mutationRevision = before[e].revision => <<core, stored>> \in moments'
      BY <1>1, <3>1 DEF Still
    <3>3. QED BY <1>1, <3>1, <3>2 DEF Still, BackupIsOneMoment
  <2>5. CASE TarWritten(e)
    <3>1. before' = before /\ at'[e] # "tarring"
      BY <2>5 DEF TarWritten, Go, BackupTypeOK
    <3>2. Still(e)'
      BY <1>1, <3>1 DEF Still
    <3>3. Unchanged(e) => <<tar[e], stored>> \in moments
      BY <2>5 DEF TarWritten, Unchanged, Snapshot, Still
    <3>4. BackupIsOneMoment'
      BY <1>1, <2>5, <3>3 DEF TarWritten, BackupIsOneMoment
    <3>5. QED BY <3>2, <3>4
  <2>6. QED BY <2>2, <2>3, <2>4, <2>5 DEF ExportStep
<1>6. QED BY <1>4, <1>5

-----------------------------------------------------------------------------
LEMMA ExportKeeps == ExportIInv /\ [BackupNext]_backupVars => ExportIInv'
<1> SUFFICES ASSUME ExportIInv, [BackupNext]_backupVars PROVE ExportIInv'
  OBVIOUS
<1>1. CASE UNCHANGED backupVars
  BY <1>1 DEF backupVars, ExportIInv, BackupTypeOK, Counting, Running, Still, BackupIsOneMoment
<1>2. CASE BackupNext
  <2>1. moments' = IF under' = {} THEN moments \union {<<core', stored'>>} ELSE moments
    BY <1>2 DEF BackupNext
  <2>2. ASSUME NEW c \in Change,
               beginExternalMutation(c) \/ ChangeCore(c) \/ ChangeStore(c) \/ Show(c) \/ release(c)
        PROVE  ExportIInv'
    BY <2>1, <2>2, ChangeStep
  <2>3. ASSUME NEW e \in Export, RequestExport(e) \/ ExportStep(e) PROVE ExportIInv'
    BY <2>1, <2>3, ExportTypes, ExportStill DEF ExportIInv
  <2>4. QED BY <1>2, <2>2, <2>3 DEF BackupNext, Step
<1>3. QED BY <1>1, <1>2

(* The inductive invariant holds in every reachable state. *)
THEOREM ExportInvariant == BackupSpec => []ExportIInv
<1>1. QED BY ExportInit, ExportKeeps, PTL DEF BackupSpec

(* Types; in particular the revision counts a change twice, and            *)
(* exportingBackup is set exactly while an export is under way or after    *)
(* one whose scratch directory could not be made or removed, or whose body *)
(* was never read (POST /backup/export, cleanup, prefixedFileStream).      *)
THEOREM ExportTypesHold == BackupSpec => []BackupTypeOK
<1>1. ExportIInv => BackupTypeOK
  BY DEF ExportIInv
<1>2. QED BY ExportInvariant, <1>1, PTL

(* A backup that is accepted is the core and the store of one moment at    *)
(* which nothing was under way (POST /backup/export and the mutation       *)
(* barrier).                                                               *)
THEOREM ExportIsOneMoment == BackupSpec => []BackupIsOneMoment
<1>1. ExportIInv => BackupIsOneMoment
  BY DEF ExportIInv
<1>2. QED BY ExportInvariant, <1>1, PTL

-----------------------------------------------------------------------------
(***************************************************************************)
(* A client that the daemon made is never lost on the way to the desktop's *)
(* window, and the window is handed none but the current one, for any      *)
(* number of codes and of registrations.                                   *)
(*                                                                         *)
(* A code that is valid has made no client yet; whatever was posted for it *)
(* is posted under the key that the main process would use again (Posted), *)
(* or a late refusal dropped that key.  One registration at most is under  *)
(* way for the last published code (Asking).  A refusal says that its key  *)
(* never made a client of its code and never will (Answered), so that the  *)
(* key it drops of its own code is not the key of a client.                *)
(***************************************************************************)

CallState ==
  [at : {"idle", "waiting", "posting", "answered", "over"},
   after : Code \union {None}, code : Code \union {None}, key : Key \union {None},
   aborted : BOOLEAN, answer : {NoAnswer, Refused, "client"}, got : Client \union {None}]

Underway(c) == calls[c].at \in {"posting", "answered"}

Numbered ==
  /\ made <= announced /\ (valid # None => made < announced /\ valid \notin expired)
  /\ valid \in {None, announced} /\ current \in {None, revision}
  /\ \A x \in expired : x <= announced
  /\ revision + Len(events) = announced
  /\ \A i \in 1..Len(events) : events[i] = revision + i

Made ==
  /\ \A t \in transactions : t[3] <= made /\ t[2] <= revision /\ t[2] # valid
  /\ \A t, s \in transactions : t[2] = s[2] \/ t[3] = s[3] => t = s

Registering(c) ==
  /\ calls[c].at = "waiting" => active = c
  /\ Underway(c) => calls[c].code \in 1..revision /\ calls[c].key \in Key
  /\ Underway(c) /\ calls[c].code = revision =>
       /\ active = c /\ snapshot = revision
       /\ transaction # NoPair => transaction.revision = revision /\ transaction.of = calls[c].key

Asking ==
  /\ snapshot # None => active # None /\ Underway(active)
  /\ active # None /\ snapshot = None => calls[active].at = "waiting"
  /\ transaction # NoPair => transaction.revision \in 1..revision /\ transaction.of \in Key
  /\ \A c \in Call : Registering(c)

\* The main process asks by this key when it is asked again.
Keeps(code, key) ==
  \/ current = code /\ transaction.revision = code /\ transaction.of = key
  \/ key \in dropped

PostOf(p) ==
  /\ p.code \in 1..revision
  /\ calls[p.call].at \in {"posting", "over"}
  /\ calls[p.call].at = "posting" => calls[p.call].key = p.key /\ calls[p.call].code = p.code
  /\ p.code = valid => Keeps(p.code, p.key)

Posted ==
  /\ \A p \in posts : PostOf(p)
  /\ \A p, q \in posts : p.call = q.call => p = q

MadeOf(c) == <<calls[c].key, calls[c].code, calls[c].got>>

Answered ==
  \A c \in Call : calls[c].at = "answered" =>
    \/ calls[c].answer = "client" /\ MadeOf(c) \in transactions
    \/ /\ calls[c].answer = Refused /\ calls[c].code # valid
       /\ \A t \in transactions : ~(t[1] = calls[c].key /\ t[2] = calls[c].code)

Offered ==
  pending # NoPair =>
    pending.revision = revision /\ \E t \in transactions : t[2] = revision /\ t[3] = pending.of

EnrollIInv ==
  EnrollTypeOK /\ Numbered /\ Made /\ Asking /\ Posted /\ Answered /\ Offered /\ NoClientLost

-----------------------------------------------------------------------------
(* Types, field by field.                                                  *)

LEMMA CallTyped == EnrollTypeOK => calls \in [Call -> CallState]
  BY DEF EnrollTypeOK, CallState

LEMMA PairTyped ==
  ASSUME EnrollTypeOK
  PROVE  /\ pending.revision \in Code \union {None} /\ pending.of \in Client \union {None}
         /\ transaction.revision \in Code \union {None} /\ transaction.of \in Key \union {None}
         /\ pending = [revision |-> pending.revision, of |-> pending.of]
         /\ transaction = [revision |-> transaction.revision, of |-> transaction.of]
         /\ NoPair.revision = None /\ NoPair.of = None
  BY DEF EnrollTypeOK, NoPair

LEMMA NumbersAre ==
  ASSUME EnrollTypeOK
  PROVE  /\ None = 0 /\ MaxEnrollments \in Nat /\ MaxCalls \in Nat /\ MaxEnrollments > 0
         /\ Code = 1..MaxEnrollments /\ Client = 1..MaxEnrollments /\ Call = 1..MaxCalls /\ Key = 1..MaxCalls
         /\ announced \in 1..MaxEnrollments /\ made \in 0..MaxEnrollments
         /\ revision \in 0..MaxEnrollments /\ current \in 0..MaxEnrollments /\ valid \in 0..MaxEnrollments
         /\ \A t \in transactions : t[1] \in Key /\ t[2] \in Code /\ t[3] \in Client /\ t = <<t[1], t[2], t[3]>>
  BY EnrollBounds DEF EnrollTypeOK, None, Code, Client, Call, Key

LEMMA InitEnroll == EnrollInit => EnrollIInv
<1> SUFFICES ASSUME EnrollInit PROVE EnrollIInv
  OBVIOUS
<1>1. calls \in [Call -> CallState] /\ \A c \in Call : calls[c].at = "idle"
  BY DEF EnrollInit, NoCall, CallState
<1>2. NoPair \in [revision : Code \union {None}, of : Client \union {None}] /\ NoPair.of = None
  BY DEF NoPair
<1>3. NoPair \in [revision : Code \union {None}, of : Key \union {None}]
  BY DEF NoPair
<1>4. 1 \in Code /\ <<1>> \in Seq(Code) /\ Len(<<1>>) = 1 /\ <<1>>[1] = 1
  BY EnrollBounds DEF Code
<1>5. EnrollTypeOK
  BY <1>1, <1>2, <1>3, <1>4 DEF EnrollInit, EnrollTypeOK, CallState
<1>6. Numbered
  BY <1>4 DEF EnrollInit, Numbered, None
<1>7. Asking
  BY <1>1 DEF EnrollInit, Asking, Registering, Underway
<1>8. QED BY <1>1, <1>5, <1>6, <1>7 DEF EnrollInit, EnrollIInv, Made, Posted, Answered, Offered, NoClientLost

LEMMA ReachableIs ==
  ASSUME EnrollTypeOK, NEW t \in transactions, Reachable(t)
  PROVE  t[3] \in acknowledged \/ pending.of = t[3] \/ t[2] \in expired \/ Keeps(t[2], t[1])
  BY PairTyped DEF Reachable, Keeps

LEMMA ReachableAfter ==
  ASSUME EnrollTypeOK', NEW t,
         t[3] \in acknowledged' \/ pending'.of = t[3] \/ t[2] \in expired' \/ Keeps(t[2], t[1])'
  PROVE  Reachable(t)'
<1>1. transaction' = [revision |-> transaction'.revision, of |-> transaction'.of]
  BY DEF EnrollTypeOK
<1>2. QED BY <1>1 DEF Reachable, Keeps

(* A step that makes no client, publishes no code and gives none up. *)
LEMMA NoneLost ==
  ASSUME EnrollIInv, EnrollTypeOK', transactions' = transactions, revision' = revision,
         announced' = announced \/ announced' > announced,
         acknowledged \subseteq acknowledged', expired \subseteq expired',
         \A t \in transactions : t[2] = revision /\ announced = revision /\ (pending.of = t[3] \/ Keeps(t[2], t[1])) =>
           t[3] \in acknowledged' \/ pending'.of = t[3] \/ t[2] \in expired' \/ Keeps(t[2], t[1])'
  PROVE  NoClientLost'
<1> SUFFICES ASSUME NEW t \in transactions, announced' = t[2], revision = t[2] PROVE Reachable(t)'
  BY DEF NoClientLost
<1>1. announced \in Nat /\ revision \in Nat /\ revision <= announced /\ announced' \in Nat
  <2>1. announced \in Nat /\ revision \in Nat /\ announced' \in Nat /\ Len(events) \in Nat
    BY NumbersAre DEF EnrollIInv, EnrollTypeOK, Code
  <2>2. revision + Len(events) = announced
    BY DEF EnrollIInv, Numbered
  <2>3. QED BY <2>1, <2>2
<1>2. announced = t[2]
  BY <1>1
<1>3. Reachable(t)
  BY <1>2 DEF EnrollIInv, NoClientLost
<1>4. QED BY <1>2, <1>3, ReachableIs, ReachableAfter DEF EnrollIInv

(* The daemon announces another code: nothing is said of its client yet. *)
LEMMA NewCodeStep ==
  ASSUME EnrollIInv, Rebind \/ \E c \in Client : RevokeClient(c)
  PROVE  EnrollIInv'
<1> USE DEF EnrollIInv
<1>1. /\ announced < MaxEnrollments /\ announced' = announced + 1 /\ valid' = announced + 1
      /\ events' = Append(events, announced + 1) /\ alive' \subseteq alive
      /\ UNCHANGED <<made, transactions, posts, revision, current, pending, calls, active, snapshot>>
      /\ UNCHANGED <<transaction, held, acknowledged, expired, dropped>>
  BY DEF Rebind, RevokeClient, NewCode, mainVars
<1>2. /\ announced \in 1..MaxEnrollments /\ MaxEnrollments \in Nat /\ revision \in Nat /\ made \in Nat
      /\ Code = 1..MaxEnrollments /\ events \in Seq(Code) /\ Len(events) \in Nat
      /\ revision + Len(events) = announced /\ \A i \in 1..Len(events) : events[i] = revision + i
      /\ made <= announced
  BY NumbersAre DEF EnrollTypeOK, Numbered
<1>3. announced' \in Code /\ events' \in Seq(Code)
  BY <1>1, <1>2
<1>4. EnrollTypeOK'
  BY <1>1, <1>3 DEF EnrollTypeOK
<1>5. Len(events') = Len(events) + 1 /\ \A i \in 1..Len(events') : events'[i] = revision + i
  BY <1>1, <1>2
<1>6. announced' \notin expired' /\ (\A x \in expired' : x <= announced') /\ made' < announced'
  <2>1. expired \subseteq Code /\ \A x \in expired : x <= announced
    BY DEF Numbered, EnrollTypeOK
  <2>2. QED BY <1>1, <1>2, <2>1
<1>7. revision + Len(events') = announced' /\ current' \in {None, revision'}
  BY <1>1, <1>2, <1>5 DEF Numbered
<1>8. Numbered'
  BY <1>1, <1>2, <1>5, <1>6, <1>7 DEF Numbered
<1>9. valid' > revision /\ revision \in Nat
  BY <1>1, <1>2
<1>10. Made'
  <2>1. \A t \in transactions : t[2] \in Code /\ t[2] <= revision
    BY NumbersAre DEF Made
  <2>2. \A t \in transactions : t[2] # valid'
    BY <1>1, <1>2, <2>1
  <2>3. QED BY <1>1, <2>2 DEF Made
<1>11. Asking'
  BY <1>1 DEF Asking, Registering, Underway
<1>12. Posted'
  <2>1. \A p \in posts : p.code \in 1..revision
    BY DEF Posted, PostOf
  <2>2. \A p \in posts : p.code # valid'
    BY <1>1, <1>2, <2>1
  <2>3. \A p \in posts : PostOf(p)'
    BY <1>1, <2>2 DEF Posted, PostOf
  <2>4. QED BY <1>1, <2>3 DEF Posted
<1>13. Answered'
  <2>1. \A c \in Call : calls[c].at = "answered" => calls[c].code \in 1..revision
    BY DEF Asking, Registering, Underway
  <2>2. \A c \in Call : calls[c].at = "answered" => calls[c].code # valid'
    BY <1>1, <1>2, <2>1
  <2>3. QED BY <1>1, <2>2 DEF Answered, MadeOf
<1>14. Offered'
  BY <1>1 DEF Offered
<1>15. NoClientLost'
  <2>1. announced' > announced
    BY <1>1, <1>2
  <2>2. \A t \in transactions : Keeps(t[2], t[1]) => Keeps(t[2], t[1])'
    BY <1>1 DEF Keeps
  <2>3. QED BY <1>1, <1>4, <2>1, <2>2, NoneLost
<1>16. QED BY <1>4, <1>8, <1>10, <1>11, <1>12, <1>13, <1>14, <1>15

(* What is answered reaches a call that is still awaited, and no other. *)
LEMMA AnswerDoes ==
  ASSUME EnrollTypeOK, NEW p \in posts, NEW ans \in {Refused, "client"}, NEW client \in Client \union {None},
         Answer(p, ans, client)
  PROVE  /\ p.call \in Call /\ calls' \in [Call -> CallState]
         /\ \A d \in Call : calls'[d].code = calls[d].code /\ calls'[d].key = calls[d].key
         /\ \A d \in Call : d # p.call \/ calls[d].at # "posting" => calls'[d] = calls[d]
         /\ calls[p.call].at = "posting" =>
              calls'[p.call].at = "answered" /\ calls'[p.call].answer = ans /\ calls'[p.call].got = client
<1>1. p.call \in Call /\ calls \in [Call -> CallState]
  BY CallTyped DEF EnrollTypeOK
<1> DEFINE old == calls[p.call]
           new == [old EXCEPT !.at = "answered", !.answer = ans, !.got = client]
<1>2. calls' = [calls EXCEPT ![p.call] = IF old.at = "posting" THEN new ELSE old]
  BY DEF Answer
<1>3. old \in CallState
  BY <1>1
<1>4. new \in CallState
  BY <1>3 DEF CallState
<1>5. new.at = "answered" /\ new.answer = ans /\ new.got = client /\ new.code = old.code /\ new.key = old.key
  BY <1>3 DEF CallState
<1> HIDE DEF new
<1>6. calls' \in [Call -> CallState]
  BY <1>1, <1>2, <1>3, <1>4
<1>7. calls'[p.call] = (IF old.at = "posting" THEN new ELSE old) /\ \A d \in Call \ {p.call} : calls'[d] = calls[d]
  BY <1>1, <1>2
<1>8. QED BY <1>1, <1>5, <1>6, <1>7

(* The daemon handles a post: by its key, by its code, or not at all. *)
LEMMA HandleStep ==
  ASSUME EnrollIInv, NEW p \in posts, Handle(p)
  PROVE  EnrollIInv'
<1> USE DEF EnrollIInv
<1>1. /\ posts' = posts \ {p}
      /\ UNCHANGED <<announced, events, revision, current, pending, active, snapshot, transaction>>
      /\ UNCHANGED <<held, acknowledged, expired, dropped>>
  BY DEF Handle
<1>2. PICK ans \in {Refused, "client"}, client \in Client \union {None} :
        /\ Answer(p, ans, client)
        /\ \/ /\ ans = "client" /\ <<p.key, p.code, client>> \in transactions
              /\ UNCHANGED <<valid, alive, made, transactions>>
           \/ /\ p.code = valid /\ ans = "client" /\ client = made + 1
              /\ valid' = None /\ made' = made + 1 /\ alive' = alive \union {made + 1}
              /\ transactions' = transactions \union {<<p.key, p.code, made + 1>>}
           \/ /\ ans = Refused /\ p.code # valid /\ ~\E t \in transactions : t[1] = p.key /\ t[2] = p.code
              /\ UNCHANGED <<valid, alive, made, transactions>>
  <2>1. CASE Replay(p) # {}
    <3>1. PICK t \in Replay(p) : t = CHOOSE u \in Replay(p) : TRUE
      BY <2>1
    <3>2. t \in transactions /\ t[1] = p.key /\ t[2] = p.code
      BY DEF Replay, Replayed
    <3>3. t = <<p.key, p.code, t[3]>> /\ t[3] \in Client
      BY <3>2, NumbersAre
    <3>4. Answer(p, "client", t[3]) /\ UNCHANGED <<valid, alive, made, transactions>>
      BY <2>1, <3>1 DEF Handle
    <3>5. QED BY <3>2, <3>3, <3>4
  <2>2. CASE Replay(p) = {} /\ p.code = valid
    <3>1. made + 1 \in Client
      BY <2>2, NumbersAre DEF Numbered, Posted, PostOf
    <3>2. QED BY <2>2, <3>1 DEF Handle
  <2>3. CASE Replay(p) = {} /\ p.code # valid
    BY <2>3 DEF Handle, Replay, Replayed
  <2>4. QED BY <2>1, <2>2, <2>3
<1>3. /\ p.call \in Call /\ calls' \in [Call -> CallState]
      /\ \A d \in Call : calls'[d].code = calls[d].code /\ calls'[d].key = calls[d].key
      /\ \A d \in Call : d # p.call \/ calls[d].at # "posting" => calls'[d] = calls[d]
      /\ calls[p.call].at = "posting" =>
           calls'[p.call].at = "answered" /\ calls'[p.call].answer = ans /\ calls'[p.call].got = client
  BY <1>2, AnswerDoes
<1>4. /\ p.key \in Key /\ p.code \in Code
      /\ p.code \in 1..revision /\ calls[p.call].at \in {"posting", "over"}
      /\ calls[p.call].at = "posting" => calls[p.call].key = p.key /\ calls[p.call].code = p.code
      /\ p.code = valid => Keeps(p.code, p.key)
  BY DEF Posted, PostOf, EnrollTypeOK
<1>5. /\ revision \in Nat /\ announced \in Nat /\ made \in Nat /\ valid \in Nat /\ None = 0
      /\ made <= announced /\ (valid # None => made < announced /\ valid = announced)
      /\ announced <= MaxEnrollments /\ Client = 1..MaxEnrollments /\ MaxEnrollments \in Nat
  BY NumbersAre DEF Numbered
<1>6. /\ valid' \in {valid, None} /\ (made' = made \/ (p.code = valid /\ made' = made + 1 /\ valid' = None))
      /\ alive' \subseteq Client /\ transactions' \subseteq Key \X Code \X Client
  <2>1. p.code = valid => made + 1 \in Client
    BY <1>4, <1>5
  <2>2. valid' \in {valid, None} /\ (made' = made \/ (p.code = valid /\ made' = made + 1 /\ valid' = None))
    BY <1>2
  <2>3. alive \subseteq Client /\ transactions \subseteq Key \X Code \X Client
    BY DEF EnrollTypeOK
  <2>4. alive' \subseteq Client
    BY <1>2, <2>1, <2>3
  <2>5. p.code = valid => <<p.key, p.code, made + 1>> \in Key \X Code \X Client
    BY <1>4, <2>1
  <2>6. transactions' \subseteq Key \X Code \X Client
    BY <1>2, <2>3, <2>5
  <2>7. QED BY <2>2, <2>4, <2>6
<1>7. made' \in Client \union {None} /\ made' <= announced /\ (valid' # None => made' < announced)
  BY <1>4, <1>5, <1>6
<1>8. snapshot # None => active \in Call
  BY DEF EnrollTypeOK
<1>9. EnrollTypeOK'
  BY <1>1, <1>3, <1>6, <1>7, <1>8 DEF EnrollTypeOK, CallState
<1>10. Numbered'
  BY <1>1, <1>6, <1>7 DEF Numbered
<1>11. Made'
  <2>1. CASE transactions' = transactions /\ valid' = valid /\ made' = made
    BY <1>1, <2>1 DEF Made
  <2>2. CASE /\ p.code = valid /\ valid' = None /\ made' = made + 1
             /\ transactions' = transactions \union {<<p.key, p.code, made + 1>>}
    <3>1. \A t \in transactions : t[3] \in Nat /\ t[3] <= made /\ t[2] <= revision /\ t[2] # p.code /\ t[2] \in 1..MaxEnrollments
      BY <2>2, NumbersAre DEF Made
    <3>2. \A t \in transactions : t[3] # made + 1 /\ t[3] <= made + 1 /\ t[2] # None
      BY <1>5, <3>1
    <3>3. p.code <= revision /\ p.code # None
      BY <1>4, <1>5
    <3>4. QED BY <1>1, <1>5, <2>2, <3>1, <3>2, <3>3 DEF Made
  <2>3. QED BY <1>2, <2>1, <2>2
<1>12. Asking'
  <2>1. \A d \in Call : (Underway(d)' <=> Underway(d)) /\ (calls'[d].at = "waiting" <=> calls[d].at = "waiting")
    BY <1>3 DEF Underway
  <2>2. active # None => active \in Call
    BY DEF EnrollTypeOK
  <2>3. \A d \in Call : Registering(d)'
    BY <1>1, <1>3, <2>1 DEF Asking, Registering
  <2>4. snapshot # None => active # None /\ Underway(active)
    BY DEF Asking
  <2>5. snapshot' # None => active' # None /\ Underway(active)'
    BY <1>1, <2>1, <2>2, <2>4 DEF Underway
  <2>6. active # None /\ snapshot = None => calls'[active].at = "waiting"
    BY <2>1, <2>2 DEF Asking
  <2>7. QED BY <1>1, <2>3, <2>5, <2>6 DEF Asking
<1>13. Posted'
  <2> SUFFICES ASSUME NEW q \in posts, q # p PROVE PostOf(q)'
    BY <1>1 DEF Posted
  <2>1. PostOf(q) /\ q.call # p.call
    BY DEF Posted
  <2>2. q.call \in Call /\ q.code \in Code
    BY DEF EnrollTypeOK
  <2>3. calls'[q.call] = calls[q.call]
    BY <1>3, <2>1, <2>2
  <2>4. q.code = valid' => q.code = valid
    BY <1>5, <1>6, <2>1 DEF PostOf
  <2>5. Keeps(q.code, q.key) => Keeps(q.code, q.key)'
    BY <1>1 DEF Keeps
  <2>6. QED BY <1>1, <2>1, <2>3, <2>4, <2>5 DEF PostOf
<1>14. transactions \subseteq transactions'
  BY <1>2
<1>15. Answered'
  <2> SUFFICES ASSUME NEW d \in Call, calls'[d].at = "answered"
               PROVE  \/ calls'[d].answer = "client" /\ MadeOf(d)' \in transactions'
                      \/ /\ calls'[d].answer = Refused /\ calls'[d].code # valid'
                         /\ \A t \in transactions' : ~(t[1] = calls'[d].key /\ t[2] = calls'[d].code)
    BY DEF Answered
  <2>1. CASE calls'[d] = calls[d]
    <3>1. calls[d].at = "answered" /\ MadeOf(d)' = MadeOf(d)
      BY <2>1 DEF MadeOf
    <3>2. calls[d].code \in 1..revision
      BY <3>1 DEF Asking, Registering, Underway
    <3>3. CASE calls[d].answer = "client" /\ MadeOf(d) \in transactions
      BY <1>14, <2>1, <3>1, <3>3
    <3>4. CASE /\ calls[d].answer = Refused /\ calls[d].code # valid
               /\ \A t \in transactions : ~(t[1] = calls[d].key /\ t[2] = calls[d].code)
      <4>1. calls[d].code # valid'
        BY <1>5, <1>6, <3>2, <3>4
      <4>2. \A t \in transactions' : ~(t[1] = calls[d].key /\ t[2] = calls[d].code)
        BY <1>2, <3>4
      <4>3. QED BY <2>1, <3>4, <4>1, <4>2
    <3>5. QED BY <3>1, <3>3, <3>4 DEF Answered
  <2>2. CASE calls'[d] # calls[d]
    <3>1. /\ d = p.call /\ calls[d].key = p.key /\ calls[d].code = p.code
          /\ calls'[d].key = p.key /\ calls'[d].code = p.code
          /\ calls'[d].answer = ans /\ calls'[d].got = client
      BY <1>3, <1>4, <2>2
    <3>2. MadeOf(d)' = <<p.key, p.code, client>>
      BY <3>1 DEF MadeOf
    <3>3. p.code # None
      BY <1>4, <1>5
    <3>4. ans = "client" => MadeOf(d)' \in transactions'
      BY <1>2, <3>2 DEF Refused
    <3>5. ans = Refused => /\ p.code # valid'
                           /\ \A t \in transactions' : ~(t[1] = p.key /\ t[2] = p.code)
      BY <1>2, <3>3 DEF Refused
    <3>6. QED BY <3>1, <3>4, <3>5
  <2>3. QED BY <2>1, <2>2
<1>16. Offered'
  BY <1>1, <1>14 DEF Offered
<1>17. NoClientLost'
  <2> SUFFICES ASSUME NEW t \in transactions', announced = t[2], revision = t[2] PROVE Reachable(t)'
    BY <1>1 DEF NoClientLost
  <2>1. CASE t \in transactions
    <3>1. Reachable(t)
      BY <2>1 DEF NoClientLost
    <3>2. Keeps(t[2], t[1]) => Keeps(t[2], t[1])'
      BY <1>1 DEF Keeps
    <3>3. QED BY <1>1, <1>9, <2>1, <3>1, <3>2, ReachableIs, ReachableAfter
  <2>2. CASE t \notin transactions
    <3>1. t = <<p.key, p.code, made + 1>> /\ p.code = valid
      BY <1>2, <2>2
    <3>2. Keeps(t[2], t[1])
      BY <1>4, <3>1
    <3>3. Keeps(t[2], t[1])'
      BY <1>1, <3>2 DEF Keeps
    <3>4. QED BY <1>9, <3>3, ReachableAfter
  <2>3. QED BY <2>1, <2>2
<1>18. QED BY <1>9, <1>10, <1>11, <1>12, <1>13, <1>15, <1>16, <1>17

(* A code expires: what was made of it need not be found again. *)
LEMMA ExpiryStep == ASSUME EnrollIInv, CodeExpires PROVE EnrollIInv'
<1> USE DEF EnrollIInv
<1>1. /\ events = <<>> /\ expired' = expired \union {announced} /\ valid' = None /\ current' = None
      /\ UNCHANGED <<alive, made, transactions, announced, events, posts>>
      /\ UNCHANGED <<revision, pending, calls, active, snapshot, transaction>>
      /\ UNCHANGED <<held, acknowledged, dropped>>
  BY DEF CodeExpires
<1>2. announced \in Nat /\ revision \in Nat /\ revision = announced /\ None = 0
  <2>1. announced \in Nat /\ revision \in Nat /\ None = 0
    BY NumbersAre
  <2>2. Len(events) = 0
    BY <1>1
  <2>3. QED BY <2>1, <2>2 DEF Numbered
<1>3. EnrollTypeOK'
  BY <1>1 DEF EnrollTypeOK
<1>4. Numbered'
  <2>1. \A x \in expired' : x <= announced
    BY <1>1, <1>2 DEF Numbered
  <2>2. QED BY <1>1, <1>2, <2>1 DEF Numbered
<1>5. Made'
  <2>1. \A t \in transactions : t[2] # None
    BY NumbersAre
  <2>2. QED BY <1>1, <2>1 DEF Made
<1>6. Asking'
  BY <1>1 DEF Asking, Registering, Underway
<1>7. Posted'
  <2>1. \A p \in posts : PostOf(p)'
    BY <1>1, <1>2 DEF Posted, PostOf
  <2>2. QED BY <1>1, <2>1 DEF Posted
<1>8. Answered'
  <2>1. \A c \in Call : calls[c].at = "answered" => calls[c].code \in 1..revision
    BY DEF Asking, Registering, Underway
  <2>2. \A c \in Call : calls[c].at = "answered" => calls[c].code # None
    BY <1>2, <2>1
  <2>3. QED BY <1>1, <2>2 DEF Answered, MadeOf
<1>9. Offered'
  BY <1>1 DEF Offered
<1>10. NoClientLost'
  BY <1>1, <1>3, NoneLost
<1>11. QED BY <1>3, <1>4, <1>5, <1>6, <1>7, <1>8, <1>9, <1>10

(* The window is given a client that is kept for it, or loaded anew. *)
LEMMA WindowStep ==
  ASSUME EnrollIInv, Reload \/ \E after \in None..MaxEnrollments : Retained(after)
  PROVE  EnrollIInv'
<1> USE DEF EnrollIInv
<1>1. /\ UNCHANGED <<valid, alive, made, transactions, announced, events, posts>>
      /\ UNCHANGED <<revision, current, pending, calls, active, snapshot, transaction>>
      /\ UNCHANGED <<acknowledged, expired, dropped>>
      /\ held' \in {None, pending.of}
  BY DEF Reload, Retained, daemonVars, mainVars
<1>2. EnrollTypeOK'
  BY <1>1, PairTyped DEF EnrollTypeOK
<1>3. Numbered' /\ Made' /\ Offered'
  BY <1>1 DEF Numbered, Made, Offered
<1>4. Asking' /\ Answered'
  BY <1>1 DEF Asking, Registering, Underway, Answered, MadeOf
<1>5. Posted'
  BY <1>1 DEF Posted, PostOf, Keeps
<1>6. NoClientLost'
  BY <1>1 DEF NoClientLost, Reachable
<1>7. QED BY <1>2, <1>3, <1>4, <1>5, <1>6

-----------------------------------------------------------------------------
(* The main process.                                                       *)

(* A registration that is over: it leaves nothing behind that is another's. *)
LEMMA OverDoes ==
  ASSUME EnrollTypeOK, Asking, NEW c \in Call, calls[c].at \in {"waiting", "posting", "answered"},
         Over(c), Leave(c), revision' = revision, transaction' \in {transaction, NoPair}
  PROVE  /\ calls' \in [Call -> CallState] /\ calls'[c].at = "over"
         /\ \A d \in Call \ {c} : calls'[d] = calls[d]
         /\ active' \in Call \union {None} /\ {snapshot'} \subseteq Code \union {None}
         /\ snapshot' # None => active' # None /\ calls'[active'].code = snapshot'
         /\ Asking'
<1>1. calls \in [Call -> CallState]
  BY CallTyped
<1> DEFINE new == [calls[c] EXCEPT !.at = "over"]
<1>2. new \in CallState /\ new.at = "over"
  BY <1>1 DEF CallState
<1>3. calls' = [calls EXCEPT ![c] = new]
  BY DEF Over
<1> HIDE DEF new
<1>4. calls' \in [Call -> CallState] /\ calls'[c].at = "over" /\ \A d \in Call \ {c} : calls'[d] = calls[d]
  BY <1>1, <1>2, <1>3
<1>5. /\ active = c => active' = None /\ snapshot' = None
      /\ active # c => active' = active /\ snapshot' = snapshot
  BY DEF Leave
<1>6. /\ active \in Call \union {None} /\ {snapshot} \subseteq Code \union {None}
      /\ snapshot # None => active # None /\ calls[active].code = snapshot
  BY DEF EnrollTypeOK
<1>7. /\ active' \in Call \union {None} /\ {snapshot'} \subseteq Code \union {None}
      /\ snapshot' # None => active' # None /\ calls'[active'].code = snapshot'
  BY <1>4, <1>5, <1>6
<1>8. ASSUME NEW d \in Call PROVE Registering(d)'
  <2>1. CASE d = c
    BY <1>4, <2>1 DEF Registering, Underway
  <2>2. CASE d # c
    <3>1. Registering(d) /\ calls'[d] = calls[d]
      BY <1>4, <2>2 DEF Asking
    <3>2. active = d => active' = active /\ snapshot' = snapshot
      BY <1>5, <2>2
    <3>3. transaction' # NoPair => transaction' = transaction
      OBVIOUS
    <3>4. QED BY <3>1, <3>2, <3>3 DEF Registering, Underway
  <2>3. QED BY <2>1, <2>2
<1>9. snapshot' # None => active' # None /\ Underway(active)'
  BY <1>4, <1>5, <1>6 DEF Asking, Underway
<1>10. active' # None /\ snapshot' = None => calls'[active'].at = "waiting"
  BY <1>4, <1>5, <1>6 DEF Asking
<1>11. transaction' # NoPair => transaction'.revision \in 1..revision' /\ transaction'.of \in Key
  BY DEF Asking
<1>12. QED BY <1>4, <1>7, <1>8, <1>9, <1>10, <1>11 DEF Asking

(* What was posted or answered before stays so, but for the call that ends. *)
LEMMA OverKeeps ==
  ASSUME EnrollIInv, NEW c \in Call,
         calls'[c].at = "over", \A d \in Call \ {c} : calls'[d] = calls[d],
         UNCHANGED <<posts, transactions, revision, valid>>,
         \A p \in posts : p.code = valid /\ Keeps(p.code, p.key) => Keeps(p.code, p.key)'
  PROVE  Posted' /\ Answered'
<1> USE DEF EnrollIInv
<1>1. \A p \in posts : p.call \in Call /\ PostOf(p)
  BY DEF EnrollTypeOK, Posted
<1>2. \A p \in posts : PostOf(p)'
  BY <1>1 DEF PostOf
<1>3. Posted'
  BY <1>2 DEF Posted
<1>4. \A d \in Call : calls'[d].at = "answered" => d # c
  OBVIOUS
<1>5. Answered'
  BY <1>4 DEF Answered, MadeOf
<1>6. QED BY <1>3, <1>5

(* A registration is given up, or answered too late: the key is kept. *)
LEMMA AbandonStep ==
  ASSUME EnrollIInv, NEW c \in Call, GiveUp(c) \/ Late(c)
  PROVE  EnrollIInv'
<1> USE DEF EnrollIInv
<1>1. /\ calls[c].at \in {"waiting", "posting", "answered"} /\ Over(c) /\ Leave(c)
      /\ UNCHANGED <<valid, alive, made, transactions, announced, events, posts>>
      /\ UNCHANGED <<revision, current, pending, transaction, held, acknowledged, expired, dropped>>
  BY DEF GiveUp, Late, daemonVars
<1>2. /\ calls' \in [Call -> CallState] /\ calls'[c].at = "over"
      /\ \A d \in Call \ {c} : calls'[d] = calls[d]
      /\ active' \in Call \union {None} /\ {snapshot'} \subseteq Code \union {None}
      /\ snapshot' # None => active' # None /\ calls'[active'].code = snapshot'
      /\ Asking'
  BY <1>1, OverDoes
<1>3. EnrollTypeOK'
  BY <1>1, <1>2 DEF EnrollTypeOK, CallState
<1>4. Numbered' /\ Made' /\ Offered'
  BY <1>1 DEF Numbered, Made, Offered
<1>5. \A code, key : Keeps(code, key) => Keeps(code, key)'
  BY <1>1 DEF Keeps
<1>6. Posted' /\ Answered'
  BY <1>1, <1>2, <1>5, OverKeeps
<1>7. NoClientLost'
  BY <1>1, <1>3, <1>5, NoneLost
<1>8. QED BY <1>2, <1>3, <1>4, <1>6, <1>7

(* An answer is accepted: the client is kept for the window from now on. *)
LEMMA AcceptedStep ==
  ASSUME EnrollIInv, NEW c \in Call, Accepted(c)
  PROVE  EnrollIInv' /\ calls[c].code = revision /\ held' = calls[c].got /\ MadeOf(c) \in transactions
<1> USE DEF EnrollIInv
<1>1. /\ calls[c].at = "answered" /\ calls[c].answer = "client" /\ revision = calls[c].code
      /\ Over(c) /\ Leave(c)
      /\ pending' = [revision |-> calls[c].code, of |-> calls[c].got]
      /\ current' = Consumed(calls[c].code) /\ held' = calls[c].got
      /\ UNCHANGED <<valid, alive, made, transactions, announced, events, posts>>
      /\ UNCHANGED <<revision, transaction, acknowledged, expired, dropped>>
  BY DEF Accepted, Timely, daemonVars
<1>2. /\ calls' \in [Call -> CallState] /\ calls'[c].at = "over"
      /\ \A d \in Call \ {c} : calls'[d] = calls[d]
      /\ active' \in Call \union {None} /\ {snapshot'} \subseteq Code \union {None}
      /\ snapshot' # None => active' # None /\ calls'[active'].code = snapshot'
      /\ Asking'
  BY <1>1, OverDoes
<1>3. MadeOf(c) \in transactions
  BY <1>1 DEF Answered, Refused
<1>4. /\ calls[c].got \in Client /\ calls[c].code \in Code
  BY <1>3, NumbersAre DEF MadeOf
<1>5. current' \in {current, None}
  BY <1>1 DEF Consumed
<1>6. EnrollTypeOK'
  BY <1>1, <1>2, <1>4, <1>5 DEF EnrollTypeOK, CallState
<1>7. Numbered' /\ Made'
  BY <1>1, <1>5 DEF Numbered, Made
<1>8. valid # revision
  BY <1>1, <1>3 DEF Made, MadeOf
<1>9. \A code, key : code # revision /\ Keeps(code, key) => Keeps(code, key)'
  BY <1>1 DEF Keeps, Consumed
<1>10. Posted' /\ Answered'
  BY <1>1, <1>2, <1>8, <1>9, OverKeeps
<1>11. pending'.revision = revision /\ pending'.of = calls[c].got
  BY <1>1
<1>12. MadeOf(c)[2] = revision /\ MadeOf(c)[3] = calls[c].got
  BY <1>1 DEF MadeOf
<1>13. Offered'
  BY <1>1, <1>3, <1>11, <1>12 DEF Offered
<1>14. \A t \in transactions : t[2] = revision => pending'.of = t[3]
  BY <1>3, <1>11, <1>12 DEF Made
<1>15. NoClientLost'
  BY <1>1, <1>6, <1>14, NoneLost
<1>16. QED BY <1>1, <1>2, <1>3, <1>6, <1>7, <1>10, <1>13, <1>15

(* A refusal: of an older code it drops the key of the last one, and notes *)
(* it; of the last code itself, its key has made no client.                *)
LEMMA DeniedStep ==
  ASSUME EnrollIInv, NEW c \in Call, Denied(c)
  PROVE  EnrollIInv'
<1> USE DEF EnrollIInv
<1>1. /\ calls[c].at = "answered" /\ calls[c].answer = Refused
      /\ Over(c) /\ Leave(c) /\ transaction' = NoPair
      /\ current' = Consumed(calls[c].code)
      /\ dropped' = IF transaction.revision = calls[c].code THEN dropped ELSE dropped \union {transaction.of}
      /\ UNCHANGED <<valid, alive, made, transactions, announced, events, posts>>
      /\ UNCHANGED <<revision, pending, held, acknowledged, expired>>
  BY DEF Denied, daemonVars
<1>2. /\ calls' \in [Call -> CallState] /\ calls'[c].at = "over"
      /\ \A d \in Call \ {c} : calls'[d] = calls[d]
      /\ active' \in Call \union {None} /\ {snapshot'} \subseteq Code \union {None}
      /\ snapshot' # None => active' # None /\ calls'[active'].code = snapshot'
      /\ Asking'
  BY <1>1, OverDoes
<1>3. /\ calls[c].code # valid /\ calls[c].code \in 1..revision
      /\ \A t \in transactions : ~(t[1] = calls[c].key /\ t[2] = calls[c].code)
  BY <1>1 DEF Answered, Asking, Registering, Underway, Refused
<1>4. current' \in {current, None}
  BY <1>1 DEF Consumed
<1>5. transaction' \in [revision : Code \union {None}, of : Key \union {None}]
  BY <1>1 DEF NoPair
<1>6. dropped' \subseteq Key \union {None} /\ dropped \subseteq dropped'
  BY <1>1, PairTyped DEF EnrollTypeOK
<1>7. EnrollTypeOK'
  BY <1>1, <1>2, <1>4, <1>5, <1>6 DEF EnrollTypeOK, CallState
<1>8. Numbered' /\ Made' /\ Offered'
  BY <1>1, <1>4 DEF Numbered, Made, Offered
<1>9. ASSUME NEW code, NEW key, code # calls[c].code, Keeps(code, key) PROVE Keeps(code, key)'
  BY <1>1, <1>9 DEF Keeps
<1>10. Posted' /\ Answered'
  BY <1>1, <1>2, <1>3, <1>9, OverKeeps
<1>11. ASSUME NEW t \in transactions, t[2] = revision, Keeps(t[2], t[1]) PROVE Keeps(t[2], t[1])'
  <2>1. CASE calls[c].code # revision
    BY <1>9, <1>11, <2>1
  <2>2. CASE calls[c].code = revision
    <3>1. transaction # NoPair => transaction.revision = revision /\ transaction.of = calls[c].key
      BY <1>1, <2>2 DEF Asking, Registering, Underway
    <3>2. transaction = NoPair => transaction.revision = None
      BY PairTyped
    <3>3. revision # None
      BY <1>3, <2>2, NumbersAre
    <3>4. t[1] # calls[c].key
      BY <1>3, <1>11, <2>2
    <3>5. ~(transaction.revision = t[2] /\ transaction.of = t[1])
      BY <1>11, <3>1, <3>2, <3>3, <3>4
    <3>6. QED BY <1>6, <1>11, <3>5 DEF Keeps
  <2>3. QED BY <2>1, <2>2
<1>12. NoClientLost'
  BY <1>1, <1>7, <1>11, NoneLost
<1>13. QED BY <1>2, <1>7, <1>8, <1>10, <1>12

LEMMA Least ==
  ASSUME NEW T \in SUBSET Nat, T # {}
  PROVE  \E x \in T : \A y \in T : x <= y
<1>1. PICK x \in T : \A y \in T : <<y, x>> \notin OpToRel(<, Nat)
  BY Zenon, WFMin, NatLessThanWellFounded
<1>2. ASSUME NEW y \in T PROVE x <= y
  <2>1. <<y, x>> \in Nat \X Nat /\ ~(y < x)
    BY <1>1 DEF OpToRel
  <2>2. QED BY <2>1
<1>3. QED BY <1>2

LEMMA NextIsIdle == EnrollTypeOK /\ Unused # {} => Next1 \in Call /\ calls[Next1].at = "idle"
<1> SUFFICES ASSUME EnrollTypeOK, Unused # {} PROVE Next1 \in Unused
  BY DEF Unused
<1>1. Unused \in SUBSET Nat
  BY NumbersAre DEF Unused
<1>2. \E c \in Unused : \A d \in Unused : c <= d
  BY <1>1, Least
<1>3. QED BY <1>2 DEF Next1

LEMMA PostForDoes ==
  ASSUME EnrollTypeOK, NEW c \in Call, NEW code \in Code, NEW tx, tx.of \in Key, PostFor(c, code, tx)
  PROVE  /\ calls' \in [Call -> CallState] /\ \A d \in Call \ {c} : calls'[d] = calls[d]
         /\ calls'[c].at = "posting" /\ calls'[c].code = code /\ calls'[c].key = tx.of
         /\ snapshot' = code /\ transaction' = tx
         /\ posts' = posts \union {[call |-> c, key |-> tx.of, code |-> code]}
<1>1. calls \in [Call -> CallState]
  BY CallTyped
<1> DEFINE new == [calls[c] EXCEPT !.at = "posting", !.code = code, !.key = tx.of]
<1>2. calls' = [calls EXCEPT ![c] = new]
  <2>1. calls' = [calls EXCEPT ![c].at = "posting", ![c].code = code, ![c].key = tx.of]
    BY DEF PostFor
  <2>2. QED BY <1>1, <2>1
<1>3. new \in CallState
  BY <1>1 DEF CallState
<1>4. new.at = "posting" /\ new.code = code /\ new.key = tx.of
  BY <1>1 DEF CallState
<1> HIDE DEF new
<1>5. calls'[c] = new /\ \A d \in Call \ {c} : calls'[d] = calls[d]
  BY <1>1, <1>2
<1>6. calls' \in [Call -> CallState]
  BY <1>1, <1>2, <1>3
<1>7. QED BY <1>4, <1>5, <1>6 DEF PostFor

LEMMA KeyIs ==
  ASSUME EnrollTypeOK, Asking, NEW c \in Call, NEW code \in Code
  PROVE  KeyFor(c, code) \in Key /\ (transaction.revision = code => KeyFor(c, code) = transaction.of)
<1>1. c \in Key /\ code # None
  BY NumbersAre
<1>2. transaction.revision = code => transaction # NoPair
  BY <1>1, PairTyped
<1>3. QED BY <1>1, <1>2 DEF Asking, KeyFor

(* A registration posts for the code that is the last one from now on.     *)
LEMMA PostStep ==
  ASSUME EnrollIInv, NEW c \in Call, calls[c].at \in {"idle", "waiting"}, active' = c,
         NEW code \in Code, revision' = code, current' = code, revision <= code,
         PostFor(c, code, [revision |-> code, of |-> KeyFor(c, code)]),
         \A d \in Call \ {c} : calls[d].at # "waiting" /\ (Underway(d) => calls[d].code # code),
         \A p \in posts : p.code = valid => p.code = code \/ p.key \in dropped,
         UNCHANGED <<valid, transactions, dropped>>
  PROVE  /\ calls' \in [Call -> CallState] /\ snapshot' = code /\ calls'[c].code = code
         /\ transaction' \in [revision : Code \union {None}, of : Key \union {None}]
         /\ posts' \subseteq [call : Call, key : Key, code : Code]
         /\ \A key : Keeps(code, key) => Keeps(code, key)'
         /\ Asking' /\ Posted' /\ Answered'
<1> USE DEF EnrollIInv
<1> DEFINE tx == [revision |-> code, of |-> KeyFor(c, code)]
           post == [call |-> c, key |-> tx.of, code |-> code]
<1>1. tx.revision = code /\ tx.of \in Key /\ (transaction.revision = code => tx.of = transaction.of)
  BY KeyIs
<1>2. tx \in [revision : Code \union {None}, of : Key \union {None}]
  BY KeyIs
<1> HIDE DEF tx
<1>3. /\ calls' \in [Call -> CallState] /\ \A d \in Call \ {c} : calls'[d] = calls[d]
      /\ calls'[c].at = "posting" /\ calls'[c].code = code /\ calls'[c].key = tx.of
      /\ snapshot' = code /\ transaction' = tx
      /\ posts' = posts \union {post}
  <2>1. PostFor(c, code, tx)
    BY DEF tx
  <2>2. QED BY <1>1, <2>1, PostForDoes
<1>4. /\ post.call = c /\ post.key = tx.of /\ post.code = code
      /\ post \in [call : Call, key : Key, code : Code]
  BY <1>1
<1> HIDE DEF post
<1>5. posts' \subseteq [call : Call, key : Key, code : Code]
  BY <1>3, <1>4 DEF EnrollTypeOK
<1>6. revision \in Nat /\ code \in Nat /\ 1 <= code /\ code # None
  BY NumbersAre
<1>7. ASSUME NEW key, Keeps(code, key) PROVE Keeps(code, key)'
  BY <1>1, <1>3, <1>7 DEF Keeps
<1>8. ASSUME NEW d \in Call PROVE Registering(d)'
  <2>1. CASE d = c
    <3>1. calls'[d].code \in 1..revision' /\ calls'[d].key \in Key
      BY <1>1, <1>3, <1>6, <2>1
    <3>2. transaction'.revision = revision' /\ transaction'.of = calls'[d].key
      BY <1>1, <1>3, <2>1
    <3>3. active' = d /\ snapshot' = revision' /\ calls'[d].at # "waiting"
      BY <1>3, <2>1
    <3>4. QED BY <3>1, <3>2, <3>3 DEF Registering
  <2>2. CASE d # c
    <3>1. calls'[d] = calls[d] /\ calls[d].at # "waiting" /\ (Underway(d) => calls[d].code # code)
      BY <1>3, <2>2
    <3>2. Underway(d) => calls[d].code \in 1..revision' /\ calls[d].key \in Key
      BY <1>6 DEF Asking, Registering
    <3>3. QED BY <3>1, <3>2 DEF Registering, Underway
  <2>3. QED BY <2>1, <2>2
<1>9. transaction' # NoPair => transaction'.revision \in 1..revision' /\ transaction'.of \in Key
  BY <1>1, <1>3, <1>6
<1>10. active' # None /\ Underway(active)' /\ snapshot' # None
  BY <1>3, <1>6, NumbersAre DEF Underway
<1>11. Asking'
  BY <1>8, <1>9, <1>10 DEF Asking
<1>12. ASSUME NEW p, p = post PROVE PostOf(p)'
  <2>1. p.call = c /\ p.key = tx.of /\ p.code = code
    BY <1>4, <1>12
  <2>2. current' = p.code /\ transaction'.revision = p.code /\ transaction'.of = p.key
    BY <1>1, <1>3, <2>1
  <2>3. Keeps(p.code, p.key)'
    BY <2>2 DEF Keeps
  <2>4. QED BY <1>3, <1>6, <2>1, <2>3 DEF PostOf
<1>13. ASSUME NEW p \in posts PROVE PostOf(p)' /\ p.call # c
  <2>1. PostOf(p) /\ p.call \in Call
    BY DEF Posted, EnrollTypeOK
  <2>2. p.call # c
    BY <2>1 DEF PostOf
  <2>3. calls'[p.call] = calls[p.call]
    BY <1>3, <2>1, <2>2
  <2>4. p.code \in 1..revision'
    BY <1>6, <2>1 DEF PostOf
  <2>5. p.code = valid => Keeps(p.code, p.key)'
    <3>1. CASE p.key \in dropped
      BY <3>1 DEF Keeps
    <3>2. CASE p.code = code
      BY <1>7, <2>1, <3>2 DEF PostOf
    <3>3. QED BY <3>1, <3>2
  <2>6. QED BY <2>1, <2>2, <2>3, <2>4, <2>5 DEF PostOf
<1>14. Posted'
  <2>1. \A p \in posts' : PostOf(p)'
    BY <1>3, <1>12, <1>13
  <2>2. \A p, q \in posts' : p.call = q.call => p = q
    BY <1>3, <1>4, <1>13 DEF Posted
  <2>3. QED BY <2>1, <2>2 DEF Posted
<1>15. Answered'
  <2>1. \A d \in Call : calls'[d].at = "answered" => calls'[d] = calls[d]
    BY <1>3
  <2>2. QED BY <2>1 DEF Answered, MadeOf
<1>16. QED BY <1>2, <1>3, <1>5, <1>7, <1>11, <1>14, <1>15

(* The window asks: the key of the last code is used again. *)
LEMMA RegisterClientStep ==
  ASSUME EnrollIInv, NEW after \in None..MaxEnrollments, RegisterClient(after)
  PROVE  EnrollIInv'
<1> USE DEF EnrollIInv
<1> DEFINE c == Next1
<1>1. /\ after \in None..revision /\ active = None /\ Unused # {} /\ active' = c
      /\ UNCHANGED <<valid, alive, made, transactions, announced, events>>
      /\ UNCHANGED <<revision, current, pending, held, acknowledged, expired, dropped>>
  BY DEF RegisterClient
<1>2. c \in Call /\ calls[c].at = "idle"
  BY <1>1, NextIsIdle
<1>3. \/ /\ current # None
         /\ PostFor(c, current, [revision |-> current, of |-> KeyFor(c, current)])
      \/ /\ calls' = [calls EXCEPT ![c].at = "waiting", ![c].after = after]
         /\ UNCHANGED <<snapshot, transaction, posts>>
  BY DEF RegisterClient
<1> HIDE DEF c
<1>4. /\ \A d \in Call : c # None /\ calls[d].at # "waiting" /\ (Underway(d) => calls[d].code # revision)
      /\ snapshot = None
  <2>1. c # None
    BY <1>2, NumbersAre
  <2>2. snapshot = None
    BY <1>1 DEF Asking
  <2>3. ASSUME NEW d \in Call PROVE calls[d].at # "waiting" /\ (Underway(d) => calls[d].code # revision)
    <3>1. Registering(d) /\ active # d
      BY <1>1, NumbersAre DEF Asking
    <3>2. QED BY <3>1 DEF Registering
  <2>4. QED BY <2>1, <2>2, <2>3
<1>5. Numbered' /\ Made' /\ Offered'
  BY <1>1 DEF Numbered, Made, Offered
<1>6. CASE /\ current # None
           /\ PostFor(c, current, [revision |-> current, of |-> KeyFor(c, current)])
  <2>1. PICK code \in Code : code = current /\ code = revision
    BY <1>6 DEF Numbered, EnrollTypeOK
  <2>2. \A p \in posts : p.code = valid => p.code = code \/ p.key \in dropped
    <3>1. ASSUME NEW p \in posts, p.code = valid PROVE Keeps(p.code, p.key)
      BY <3>1 DEF Posted, PostOf
    <3>2. QED BY <2>1, <3>1 DEF Keeps
  <2>3. /\ calls' \in [Call -> CallState] /\ snapshot' = code /\ calls'[c].code = code
        /\ transaction' \in [revision : Code \union {None}, of : Key \union {None}]
        /\ posts' \subseteq [call : Call, key : Key, code : Code]
        /\ \A key : Keeps(code, key) => Keeps(code, key)'
        /\ Asking' /\ Posted' /\ Answered'
    <3>1. PostFor(c, code, [revision |-> code, of |-> KeyFor(c, code)])
      BY <1>6, <2>1
    <3>2. revision <= code /\ revision' = code /\ current' = code
      BY <1>1, <2>1, NumbersAre
    <3>3. QED BY <1>1, <1>2, <1>4, <2>1, <2>2, <3>1, <3>2, PostStep
  <2>4. EnrollTypeOK'
    BY <1>1, <1>2, <1>4, <2>3 DEF EnrollTypeOK, CallState
  <2>5. NoClientLost'
    BY <1>1, <2>1, <2>3, <2>4, NoneLost
  <2>6. QED BY <1>5, <2>3, <2>4, <2>5
<1>7. CASE /\ calls' = [calls EXCEPT ![c].at = "waiting", ![c].after = after]
           /\ UNCHANGED <<snapshot, transaction, posts>>
  <2> DEFINE new == [calls[c] EXCEPT !.at = "waiting", !.after = after]
  <2>1. calls \in [Call -> CallState]
    BY CallTyped
  <2>2. after \in Code \union {None}
    BY <1>1, NumbersAre
  <2>3. new \in CallState /\ new.at = "waiting"
    BY <1>2, <2>1, <2>2 DEF CallState
  <2>4. calls' = [calls EXCEPT ![c] = new]
    BY <1>2, <1>7, <2>1
  <2> HIDE DEF new
  <2>5. /\ calls' \in [Call -> CallState] /\ calls'[c].at = "waiting"
        /\ \A d \in Call \ {c} : calls'[d] = calls[d]
    BY <1>2, <2>1, <2>3, <2>4
  <2>6. EnrollTypeOK'
    BY <1>1, <1>2, <1>4, <1>7, <2>5 DEF EnrollTypeOK, CallState
  <2>7. ASSUME NEW d \in Call PROVE Registering(d)'
    BY <1>1, <1>4, <1>7, <2>5 DEF Asking, Registering, Underway
  <2>8. Asking'
    BY <1>1, <1>4, <1>7, <2>5, <2>7 DEF Asking
  <2>9. \A p \in posts : PostOf(p)' /\ p.call # c
    <3>1. \A p \in posts : p.call \in Call /\ PostOf(p)
      BY DEF EnrollTypeOK, Posted
    <3>2. \A p \in posts : p.call # c
      BY <1>2, <3>1 DEF PostOf
    <3>3. \A p \in posts : calls'[p.call] = calls[p.call]
      BY <2>5, <3>1, <3>2
    <3>4. \A code, key : Keeps(code, key) => Keeps(code, key)'
      BY <1>1, <1>7 DEF Keeps
    <3>5. QED BY <1>1, <3>1, <3>2, <3>3, <3>4 DEF PostOf
  <2>10. Posted'
    BY <1>7, <2>9 DEF Posted
  <2>11. \A d \in Call : calls'[d].at = "answered" => calls'[d] = calls[d]
    BY <2>5
  <2>12. Answered'
    BY <1>1, <2>11 DEF Answered, MadeOf
  <2>13. \A code, key : Keeps(code, key) => Keeps(code, key)'
    BY <1>1, <1>7 DEF Keeps
  <2>14. NoClientLost'
    BY <1>1, <2>6, <2>13, NoneLost
  <2>15. QED BY <1>5, <2>6, <2>8, <2>10, <2>12, <2>14
<1>8. QED BY <1>3, <1>6, <1>7

(* Another code is published: what was asked for before is of no account,  *)
(* and who waited for a code asks for this one.                            *)
LEMMA PublishStep == ASSUME EnrollIInv, PublishCode PROVE EnrollIInv'
<1> USE DEF EnrollIInv
<1>1. /\ events # <<>> /\ events' = Tail(events)
      /\ revision' = Head(events) /\ current' = Head(events) /\ pending' = NoPair
      /\ UNCHANGED <<valid, alive, made, transactions, announced, held, acknowledged, expired, dropped>>
  BY DEF PublishCode
<1>2. /\ revision \in Nat /\ announced \in Nat /\ None = 0
      /\ events \in Seq(Code) /\ Len(events) \in Nat /\ Code = 1..MaxEnrollments
      /\ revision + Len(events) = announced /\ \A i \in 1..Len(events) : events[i] = revision + i
      /\ valid \in {None, announced}
  BY NumbersAre DEF EnrollTypeOK, Numbered
<1>3. Len(events) >= 1 /\ Len(events') = Len(events) - 1 /\ events' \in Seq(Code)
  BY <1>1, <1>2
<1>4. revision' = revision + 1 /\ revision' <= announced /\ revision' \in Code
  <2>1. Head(events) = events[1]
    OBVIOUS
  <2>2. 1 \in 1..Len(events)
    BY <1>2, <1>3
  <2>3. events[1] = revision + 1
    BY <1>2, <2>2
  <2>4. announced \in 1..MaxEnrollments
    BY NumbersAre
  <2>5. revision + 1 <= announced
    BY <1>2, <1>3
  <2>6. revision + 1 \in 1..MaxEnrollments
    BY <1>2, <2>4, <2>5, EnrollBounds
  <2>7. QED BY <1>1, <1>2, <2>1, <2>3, <2>5, <2>6
<1>5. \A i \in 1..Len(events') : events'[i] = revision' + i
  <2>1. ASSUME NEW i \in 1..Len(events') PROVE events'[i] = revision' + i
    <3>1. i + 1 \in 1..Len(events) /\ events'[i] = events[i + 1]
      BY <1>1, <1>2, <1>3
    <3>2. QED BY <1>2, <1>4, <3>1
  <2>2. QED BY <2>1
<1>6. Numbered'
  BY <1>1, <1>2, <1>3, <1>4, <1>5 DEF Numbered
<1>7. \A t \in transactions : t[2] \in Nat /\ t[2] <= revision
  BY NumbersAre DEF Made
<1>8. Made'
  BY <1>1, <1>2, <1>4, <1>7 DEF Made
<1>9. Offered'
  BY <1>1 DEF Offered
<1>10. NoClientLost'
  BY <1>1, <1>2, <1>4, <1>7 DEF NoClientLost
<1>11. \A p \in posts : p.call \in Call /\ p.code # valid /\ p.code \in 1..revision' /\ PostOf(p)
  <2>1. \A p \in posts : p.call \in Call /\ p.code \in 1..revision /\ PostOf(p)
    BY DEF EnrollTypeOK, Posted, PostOf
  <2>2. QED BY <1>2, <1>4, <2>1
<1>12. \A d \in Call : Underway(d) => calls[d].code \in 1..revision' /\ calls[d].code # revision' /\ calls[d].key \in Key
  <2>1. \A d \in Call : Underway(d) => calls[d].code \in 1..revision /\ calls[d].key \in Key
    BY DEF Asking, Registering
  <2>2. QED BY <1>2, <1>4, <2>1
<1>13. NoPair \in [revision : Code \union {None}, of : Client \union {None}]
       /\ NoPair \in [revision : Code \union {None}, of : Key \union {None}]
  BY DEF NoPair
<1>14. CASE snapshot # None
  <2>1. /\ calls' = [calls EXCEPT ![active].aborted = TRUE]
        /\ active' = None /\ snapshot' = None /\ transaction' = NoPair /\ posts' = posts
    BY <1>14 DEF PublishCode
  <2>2. active \in Call /\ Underway(active)
    BY <1>14 DEF Asking, EnrollTypeOK
  <2>3. calls \in [Call -> CallState]
    BY CallTyped
  <2> DEFINE new == [calls[active] EXCEPT !.aborted = TRUE]
  <2>4. /\ new \in CallState /\ new.at = calls[active].at /\ new.code = calls[active].code
        /\ new.key = calls[active].key /\ new.got = calls[active].got /\ new.answer = calls[active].answer
    BY <2>2, <2>3 DEF CallState
  <2>5. calls' = [calls EXCEPT ![active] = new]
    BY <2>1, <2>2, <2>3
  <2> HIDE DEF new
  <2>6. calls' \in [Call -> CallState]
    BY <2>2, <2>3, <2>4, <2>5
  <2>7. calls'[active] = new /\ \A d \in Call \ {active} : calls'[d] = calls[d]
    BY <2>2, <2>3, <2>5
  <2>8. \A d \in Call :
          /\ calls'[d].at = calls[d].at /\ calls'[d].code = calls[d].code /\ calls'[d].key = calls[d].key
          /\ calls'[d].got = calls[d].got /\ calls'[d].answer = calls[d].answer
    BY <2>4, <2>7
  <2>9. EnrollTypeOK'
    BY <1>1, <1>3, <1>4, <1>13, <2>1, <2>6 DEF EnrollTypeOK, CallState
  <2>10. ASSUME NEW d \in Call PROVE Registering(d)'
    <3>1. calls[d].at # "waiting"
      BY <2>2 DEF Asking, Registering, Underway
    <3>2. Underway(d)' => Underway(d)
      BY <2>8 DEF Underway
    <3>3. Underway(d)' => calls'[d].code \in 1..revision' /\ calls'[d].key \in Key /\ calls'[d].code # revision'
      BY <1>12, <2>8, <3>2
    <3>4. calls'[d].at # "waiting"
      BY <2>8, <3>1
    <3>5. QED BY <3>3, <3>4 DEF Registering
  <2>11. Asking'
    BY <2>1, <2>10 DEF Asking
  <2>12. \A p \in posts : PostOf(p)'
    BY <1>1, <1>11, <2>8 DEF PostOf
  <2>13. Posted'
    BY <2>1, <2>12 DEF Posted
  <2>14. Answered'
    BY <1>1, <2>8 DEF Answered, MadeOf
  <2>15. QED BY <1>6, <1>8, <1>9, <1>10, <2>9, <2>11, <2>13, <2>14
<1>15. CASE snapshot = None /\ active # None
  <2>1. PICK c \in Call : c = active /\ calls[c].at = "waiting"
    BY <1>15 DEF EnrollTypeOK, Asking
  <2>2. PICK code \in Code : code = Head(events) /\ code = revision'
    BY <1>1, <1>4
  <2>3. active' = c /\ PostFor(c, code, [revision |-> code, of |-> KeyFor(c, code)])
    BY <1>15, <2>1, <2>2 DEF PublishCode
  <2>4. \A d \in Call \ {c} : calls[d].at # "waiting" /\ (Underway(d) => calls[d].code # code)
    <3>1. ASSUME NEW d \in Call \ {c} PROVE calls[d].at # "waiting"
      BY <2>1 DEF Asking, Registering
    <3>2. QED BY <1>12, <2>2, <3>1
  <2>5. /\ calls' \in [Call -> CallState] /\ snapshot' = code /\ calls'[c].code = code
        /\ transaction' \in [revision : Code \union {None}, of : Key \union {None}]
        /\ posts' \subseteq [call : Call, key : Key, code : Code]
        /\ Asking' /\ Posted' /\ Answered'
    <3>1. revision <= code
      BY <1>2, <1>4, <2>2
    <3>2. revision' = code /\ current' = code
      BY <1>1, <2>2
    <3>3. QED BY <1>1, <1>11, <2>1, <2>3, <2>4, <3>1, <3>2, PostStep
  <2>6. EnrollTypeOK'
    BY <1>1, <1>3, <1>4, <1>13, <1>15, <2>1, <2>3, <2>5 DEF EnrollTypeOK, CallState
  <2>7. QED BY <1>6, <1>8, <1>9, <1>10, <2>5, <2>6
<1>16. CASE snapshot = None /\ active = None
  <2>1. UNCHANGED <<calls, snapshot, transaction, posts, active>>
    BY <1>16 DEF PublishCode
  <2>2. EnrollTypeOK'
    BY <1>1, <1>3, <1>4, <1>13, <2>1 DEF EnrollTypeOK
  <2>3. ASSUME NEW d \in Call PROVE Registering(d)'
    <3>1. Registering(d)
      BY DEF Asking
    <3>2. QED BY <1>12, <2>1, <3>1 DEF Registering, Underway
  <2>4. transaction' # NoPair => transaction'.revision \in 1..revision' /\ transaction'.of \in Key
    BY <1>2, <1>4, <2>1 DEF Asking
  <2>5. Asking'
    BY <1>16, <2>1, <2>3, <2>4 DEF Asking
  <2>6. \A p \in posts : PostOf(p)'
    BY <1>1, <1>11, <2>1 DEF PostOf
  <2>7. Posted'
    BY <2>1, <2>6 DEF Posted
  <2>8. Answered'
    BY <1>1, <2>1 DEF Answered, MadeOf
  <2>9. QED BY <1>6, <1>8, <1>9, <1>10, <2>2, <2>5, <2>7, <2>8
<1>17. QED BY <1>14, <1>15, <1>16

(* The window has the client, so that its key is of no more use. *)
LEMMA AcknowledgeStep == ASSUME EnrollIInv, Acknowledge PROVE EnrollIInv'
<1> USE DEF EnrollIInv
<1>1. /\ held # None /\ pending.of = held /\ pending' = NoPair /\ transaction' = NoPair
      /\ acknowledged' = acknowledged \union {held}
      /\ UNCHANGED <<valid, alive, made, transactions, announced, events, posts>>
      /\ UNCHANGED <<revision, current, calls, active, snapshot, held, expired, dropped>>
  BY DEF Acknowledge, daemonVars
<1>2. pending # NoPair
  BY <1>1, PairTyped
<1>3. PICK s \in transactions : s[2] = revision /\ s[3] = held
  BY <1>1, <1>2 DEF Offered
<1>4. /\ NoPair \in [revision : Code \union {None}, of : Client \union {None}]
      /\ NoPair \in [revision : Code \union {None}, of : Key \union {None}]
  BY DEF NoPair
<1>5. EnrollTypeOK'
  BY <1>1, <1>4 DEF EnrollTypeOK
<1>6. Numbered' /\ Made' /\ Offered'
  BY <1>1 DEF Numbered, Made, Offered
<1>7. Asking' /\ Answered'
  BY <1>1 DEF Asking, Registering, Underway, Answered, MadeOf
<1>8. \A p \in posts : p.code # valid
  <2>1. \A p \in posts : p.code \in 1..revision
    BY DEF Posted, PostOf
  <2>2. revision \in Nat /\ announced \in Nat /\ revision <= announced /\ None = 0
    <3>1. revision \in Nat /\ announced \in Nat /\ None = 0
      BY NumbersAre
    <3>2. events \in Seq(Code)
      BY DEF EnrollTypeOK
    <3>3. Len(events) \in Nat
      BY <3>2
    <3>4. revision + Len(events) = announced
      BY DEF Numbered
    <3>5. QED BY <3>1, <3>3, <3>4
  <2>3. valid # revision
    BY <1>3 DEF Made
  <2>4. QED BY <2>1, <2>2, <2>3 DEF Numbered
<1>9. Posted'
  <2>1. \A p \in posts : PostOf(p)'
    BY <1>1, <1>8 DEF Posted, PostOf
  <2>2. QED BY <1>1, <2>1 DEF Posted
<1>10. \A t \in transactions : t[2] = revision => t[3] \in acknowledged'
  BY <1>1, <1>3 DEF Made
<1>11. NoClientLost'
  BY <1>1, <1>5, <1>10, NoneLost
<1>12. QED BY <1>5, <1>6, <1>7, <1>9, <1>11

-----------------------------------------------------------------------------
LEMMA NextEnroll == EnrollIInv /\ [EnrollNext]_enrollVars => EnrollIInv'
<1> SUFFICES ASSUME EnrollIInv, [EnrollNext]_enrollVars PROVE EnrollIInv'
  OBVIOUS
<1>1. CASE Rebind \/ \E c \in Client : RevokeClient(c)
  BY <1>1, NewCodeStep
<1>2. CASE CodeExpires
  BY <1>2, ExpiryStep
<1>3. CASE \E p \in posts : Handle(p)
  BY <1>3, HandleStep
<1>4. CASE \E after \in None..MaxEnrollments : RegisterClient(after)
  BY <1>4, RegisterClientStep
<1>5. CASE Reload \/ \E after \in None..MaxEnrollments : Retained(after)
  BY <1>5, WindowStep
<1>6. CASE \E c \in Call : GiveUp(c) \/ Accepted(c) \/ Late(c) \/ Denied(c)
  BY <1>6, AbandonStep, AcceptedStep, DeniedStep
<1>7. CASE PublishCode
  BY <1>7, PublishStep
<1>8. CASE Acknowledge
  BY <1>8, AcknowledgeStep
<1>9. CASE UNCHANGED enrollVars
  <2>1. /\ UNCHANGED <<valid, alive, made, transactions, announced, events, posts>>
        /\ UNCHANGED <<revision, current, pending, calls, active, snapshot, transaction>>
        /\ UNCHANGED <<held, acknowledged, expired, dropped>>
    BY <1>9 DEF enrollVars
  <2>2. EnrollTypeOK' /\ Numbered' /\ Made' /\ Offered'
    BY <2>1 DEF EnrollIInv, EnrollTypeOK, Numbered, Made, Offered
  <2>3. Asking' /\ Answered'
    BY <2>1 DEF EnrollIInv, Asking, Registering, Underway, Answered, MadeOf
  <2>4. Posted' /\ NoClientLost'
    BY <2>1 DEF EnrollIInv, Posted, PostOf, Keeps, NoClientLost, Reachable
  <2>5. QED BY <2>2, <2>3, <2>4 DEF EnrollIInv
<1>10. QED BY <1>1, <1>2, <1>3, <1>4, <1>5, <1>6, <1>7, <1>8, <1>9 DEF EnrollNext

(* The client that a code was made into is the client of one code. *)
LEMMA CodeOfIs ==
  ASSUME EnrollIInv, NEW t \in transactions
  PROVE  CodeOf(t[3]) = t[2]
<1>1. \A s \in transactions : s[3] = t[3] => s = t
  BY DEF EnrollIInv, Made
<1>2. QED BY <1>1 DEF CodeOf

LEMMA HandsOut == EnrollIInv /\ [EnrollNext]_enrollVars => held' \in {held, None} \/ CodeOf(held') = revision
<1> SUFFICES ASSUME EnrollIInv, [EnrollNext]_enrollVars, held' # held, held' # None
             PROVE  CodeOf(held') = revision
  OBVIOUS
<1>1. CASE \E c \in Call : Accepted(c)
  <2>1. PICK c \in Call : Accepted(c)
    BY <1>1
  <2>2. calls[c].code = revision /\ held' = calls[c].got /\ MadeOf(c) \in transactions
    BY <2>1, AcceptedStep
  <2>3. MadeOf(c)[2] = calls[c].code /\ MadeOf(c)[3] = calls[c].got
    BY DEF MadeOf
  <2>4. QED BY <2>2, <2>3, CodeOfIs
<1>2. CASE \E after \in None..MaxEnrollments : Retained(after)
  <2>1. pending # NoPair /\ held' = pending.of
    BY <1>2 DEF Retained
  <2>2. PICK t \in transactions : t[2] = revision /\ t[3] = pending.of
    BY <2>1 DEF EnrollIInv, Offered
  <2>3. QED BY <2>1, <2>2, CodeOfIs
<1>3. ASSUME held' \in {held, None} PROVE FALSE
  BY <1>3
<1>4. CASE Rebind \/ (\E c \in Client : RevokeClient(c)) \/ CodeExpires \/ \E p \in posts : Handle(p)
  BY <1>3, <1>4 DEF Rebind, RevokeClient, CodeExpires, Handle
<1>5. CASE (\E after \in None..MaxEnrollments : RegisterClient(after)) \/ \E c \in Call : GiveUp(c) \/ Late(c) \/ Denied(c)
  BY <1>3, <1>5 DEF RegisterClient, GiveUp, Late, Denied
<1>6. CASE PublishCode \/ Acknowledge \/ Reload \/ UNCHANGED enrollVars
  BY <1>3, <1>6 DEF PublishCode, Acknowledge, Reload, enrollVars
<1>7. QED BY <1>1, <1>2, <1>4, <1>5, <1>6 DEF EnrollNext

(* The inductive invariant of the enrollment. *)
THEOREM EnrollInvariant == EnrollSpec => []EnrollIInv
<1>1. QED BY InitEnroll, NextEnroll, PTL DEF EnrollSpec

(* Types: in particular the daemon makes no more clients than it announces *)
(* codes, and the registration in flight asks by the snapshot's code.      *)
THEOREM EnrollTypes == EnrollSpec => []EnrollTypeOK
<1>1. EnrollIInv => EnrollTypeOK
  BY DEF EnrollIInv
<1>2. QED BY EnrollInvariant, <1>1, PTL

(* A client made of the last code reaches the window, or can be asked for  *)
(* again by its key, but for the two exceptions NoClientLost names.        *)
THEOREM EnrollLosesNone == EnrollSpec => []NoClientLost
<1>1. EnrollIInv => NoClientLost
  BY DEF EnrollIInv
<1>2. QED BY EnrollInvariant, <1>1, PTL

(* The window is handed clients of the last published code only, however   *)
(* answers, codes and reloads cross.                                       *)
THEOREM EnrollHandsOutCurrent == EnrollSpec => HandsOutCurrent
<1>1. EnrollIInv /\ [EnrollNext]_enrollVars => [held' \in {held, None} \/ CodeOf(held') = revision]_enrollVars
  BY HandsOut
<1>2. QED BY EnrollInvariant, <1>1, PTL DEF EnrollSpec, HandsOutCurrent
=============================================================================
