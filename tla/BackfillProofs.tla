---------------------------- MODULE BackfillProofs ----------------------------
(***************************************************************************)
(* What holds of the thread backfiller for any number of peers and uuids,  *)
(* any references between them, and any limits, with one flush under way   *)
(* or two that overlap.                                                    *)
(*                                                                         *)
(* Entries relates a flush to the queue it iterates over: its entry is in  *)
(* the queue as long as it counts as attached.  On top of it               *)
(*   - Spending: in a minute that is watched, what is left of the budgets  *)
(*     counts as requests made, apart for flushes begun in it and before,  *)
(*   - Trying: a ref a flush still means to send counts as an attempt,     *)
(*   - Attributed: so does it count as asked for, and                      *)
(*   - Remembered: what dangles from a message is chased whether or not    *)
(*     the queue has been seeded, what dangles from an envelope after; a   *)
(*     message that a hook still holds is about to be.                     *)
(***************************************************************************)
EXTENDS Backfill, FiniteSetTheorems, TLAPS

FlushState ==
  [at : {"idle", "visit", "send", "close"}, young : BOOLEAN,
   budget : 0..MaxRequestsPerMinute, seen : SUBSET Peer,
   peer : Peer \union {Nobody}, attached : BOOLEAN,
   own : SUBSET Uuid, left : SUBSET Uuid, batch : Batches]

Entry(f) ==
  /\ flush[f].at \in {"send", "close"} =>
       flush[f].peer \in Peer /\ (flush[f].attached => flush[f].peer \in DOMAIN pending)
  /\ flush[f].at \in {"idle", "visit"} => flush[f].peer = Nobody
  /\ flush[f].at = "send" => flush[f].budget > 0
  /\ flush[f].batch \subseteq flush[f].left

Entries == \A f \in Flush : Entry(f)

Base == TypeOK /\ Entries

-----------------------------------------------------------------------------
(* The operators.                                                          *)

LEMMA MinOfTwo ==
  ASSUME NEW m \in Nat, NEW n \in Nat
  PROVE  Min({m, n}) \in {m, n} /\ Min({m, n}) <= m /\ Min({m, n}) <= n
<1>1. \E x \in {m, n} : \A y \in {m, n} : x =< y
  <2>1. CASE m <= n
    BY <2>1
  <2>2. CASE n <= m
    BY <2>2
  <2>3. QED BY <2>1, <2>2
<1>2. Min({m, n}) \in {m, n} /\ \A y \in {m, n} : Min({m, n}) =< y
  BY <1>1 DEF Min
<1>3. QED BY <1>2

(* A batch is some of the refs left, and not too many. *)
LEMMA BatchIs ==
  ASSUME NEW left \in SUBSET Uuid, NEW b \in NextBatch(left)
  PROVE  b \subseteq left /\ b \in Batches
<1>1. Cardinality(left) \in Nat
  BY UuidAssumption, FS_Subset, FS_CardinalityType
<1>2. MaxRefsPerRequest \in Nat
  BY LimitsAssumption
<1>3. Min({MaxRefsPerRequest, Cardinality(left)}) <= MaxRefsPerRequest
  BY <1>1, <1>2, MinOfTwo
<1>4. b \subseteq left /\ Cardinality(b) = Min({MaxRefsPerRequest, Cardinality(left)})
  BY DEF NextBatch
<1>5. QED BY <1>3, <1>4 DEF Batches

LEMMA NoBatch == {} \in Batches
  BY FS_EmptySet, LimitsAssumption DEF Batches

LEMMA IdleTyped ==
  /\ IdleFlush \in FlushState /\ IdleFlush.at = "idle" /\ IdleFlush.peer = Nobody
  /\ IdleFlush.batch = {} /\ IdleFlush.left = {} /\ IdleFlush.budget = 0 /\ ~IdleFlush.young
  BY NoBatch, LimitsAssumption DEF IdleFlush, FlushState

(* What is queued: only more, and nothing wanted is left out that is not   *)
(* under way, exhausted, or asked of a peer that had all its rounds.       *)
LEMMA EnqueueDoes ==
  ASSUME TypeOK, NEW want, \A p \in Peer : want[p] \subseteq Uuid,
         NEW flying, NEW names \in SUBSET Uuid, NEW tries,
         Enqueue(want, flying, names, tries)
  PROVE  /\ DOMAIN pending' \subseteq Peer /\ \A p \in DOMAIN pending' : pending'[p] \subseteq Uuid
         /\ DOMAIN pending \subseteq DOMAIN pending'
         /\ \A p \in DOMAIN pending : pending[p] \subseteq pending'[p]
         /\ \A p \in Peer : \A u \in want[p] :
              \/ p \in DOMAIN pending' /\ u \in pending'[p]
              \/ u \in flying \/ Exhausted(tries, u) \/ rounds[p] >= MaxRounds
         /\ \A p \in DOMAIN pending' : \A u \in pending'[p] :
              u \in known' \/ (p \in DOMAIN pending /\ u \in pending[p])
         /\ names \subseteq known' /\ known' \subseteq Uuid
         /\ timer' \in BOOLEAN
<1> DEFINE new == [p \in Peer |-> Accepted(want, p, flying, tries)]
           asked == {p \in Peer : new[p] # {}}
<1>1. /\ pending' = [p \in DOMAIN pending \union asked |-> QueueOf(p) \union new[p]]
      /\ known' = names \union UNION {new[p] : p \in Peer}
      /\ timer' = (timer \/ \E p \in asked : ~(new[p] \subseteq QueueOf(p)))
  BY DEF Enqueue
<1>2. \A p \in Peer : new[p] \subseteq Uuid
  BY DEF Accepted
<1>3. \A p \in Peer : \A u \in want[p] :
        u \in new[p] \/ u \in flying \/ Exhausted(tries, u) \/ rounds[p] >= MaxRounds
  BY DEF Accepted
<1>4. asked \subseteq Peer /\ \A p \in Peer : p \notin asked => new[p] = {}
  OBVIOUS
<1>5. DOMAIN pending \subseteq Peer /\ \A p \in DOMAIN pending : pending[p] \subseteq Uuid
  BY DEF TypeOK
<1>6. \A p \in Peer : QueueOf(p) \subseteq Uuid /\ (p \in DOMAIN pending => QueueOf(p) = pending[p])
                      /\ (p \notin DOMAIN pending => QueueOf(p) = {})
  BY <1>5 DEF QueueOf
<1>7. known' \subseteq Uuid /\ names \subseteq known' /\ \A p \in Peer : new[p] \subseteq known'
  BY <1>1, <1>2
<1>8. timer' \in BOOLEAN
  BY <1>1, <1>5 DEF TypeOK
<1>9. DOMAIN pending' = DOMAIN pending \union asked
  BY <1>1
<1>10. \A p \in DOMAIN pending' : pending'[p] = QueueOf(p) \union new[p]
  BY <1>1
<1> HIDE DEF new, asked
<1>11. DOMAIN pending' \subseteq Peer /\ \A p \in DOMAIN pending' : pending'[p] \subseteq Uuid
  BY <1>2, <1>4, <1>5, <1>6, <1>9, <1>10
<1>12. \A p \in DOMAIN pending : pending[p] \subseteq pending'[p]
  BY <1>5, <1>6, <1>9, <1>10
<1>13. \A p \in Peer : \A u \in new[p] : p \in DOMAIN pending' /\ u \in pending'[p]
  BY <1>4, <1>9, <1>10
<1>14. \A p \in DOMAIN pending' : \A u \in pending'[p] :
         u \in known' \/ (p \in DOMAIN pending /\ u \in pending[p])
  BY <1>6, <1>7, <1>10, <1>11
<1>15. QED BY <1>3, <1>7, <1>8, <1>9, <1>11, <1>12, <1>13, <1>14

-----------------------------------------------------------------------------
(* What the operators on flushes leave alone.                              *)

\* Two states of a flush that differ in nothing but where it stands in the queue.
Alike(x, y) ==
  /\ x.budget = y.budget /\ x.left = y.left /\ x.batch = y.batch /\ x.young = y.young

LEMMA DeleteDoes ==
  ASSUME NEW p, Delete(p)
  PROVE  /\ DOMAIN pending' = DOMAIN pending \ {p}
         /\ \A q \in DOMAIN pending' : pending'[q] = pending[q]
  BY DEF Delete, Restrict

LEMMA DetachedIs ==
  ASSUME TypeOK, NEW p \in DOMAIN pending, NEW fs \in [Flush -> FlushState], NEW g \in Flush
  PROVE  /\ Detached(p, fs)[g] \in FlushState /\ Alike(Detached(p, fs)[g], fs[g])
         /\ Detached(p, fs)[g].at = fs[g].at /\ Detached(p, fs)[g].peer = fs[g].peer
         /\ Detached(p, fs)[g].attached => fs[g].attached /\ fs[g].peer # p
<1>1. pending[p] \subseteq Uuid /\ fs[g] \in FlushState
  BY DEF TypeOK
<1>2. Detached(p, fs)[g] = IF fs[g].peer = p /\ fs[g].attached
                           THEN [fs[g] EXCEPT !.attached = FALSE, !.own = pending[p]] ELSE fs[g]
  BY DEF Detached
<1>3. CASE fs[g].peer = p /\ fs[g].attached
  <2>1. Detached(p, fs)[g] = [fs[g] EXCEPT !.attached = FALSE, !.own = pending[p]]
    BY <1>2, <1>3
  <2>2. QED BY <1>1, <2>1 DEF FlushState, Alike
<1>4. CASE ~(fs[g].peer = p /\ fs[g].attached)
  <2>1. Detached(p, fs)[g] = fs[g]
    BY <1>2, <1>4
  <2>2. QED BY <1>1, <1>4, <2>1 DEF Alike
<1>5. QED BY <1>3, <1>4

LEMMA ForgetIs ==
  ASSUME NEW p, NEW fs \in [Flush -> FlushState], NEW g \in Flush
  PROVE  /\ Forget(p, fs)[g] \in FlushState /\ Alike(Forget(p, fs)[g], fs[g])
         /\ Forget(p, fs)[g].at = fs[g].at /\ Forget(p, fs)[g].peer = fs[g].peer
         /\ Forget(p, fs)[g].attached = fs[g].attached
<1>1. fs[g] \in FlushState
  OBVIOUS
<1>2. Forget(p, fs)[g] = [fs[g] EXCEPT !.seen = fs[g].seen \ {p}]
  BY DEF Forget
<1>3. QED BY <1>1, <1>2 DEF FlushState, Alike

LEMMA PassIs ==
  ASSUME NEW p \in Peer, NEW fs \in [Flush -> FlushState], NEW f \in Flush, NEW g \in Flush
  PROVE  /\ Pass(p, fs, f)[g] \in FlushState /\ Alike(Pass(p, fs, f)[g], fs[g])
         /\ g # f => Pass(p, fs, f)[g] = fs[g]
         /\ g = f => Pass(p, fs, f)[g].at = "visit" /\ Pass(p, fs, f)[g].peer = Nobody
<1>1. fs[g] \in FlushState
  OBVIOUS
<1>2. CASE g # f
  BY <1>1, <1>2 DEF Pass, Alike
<1>3. CASE g = f
  <2>1. Pass(p, fs, f)[g] = [fs[g] EXCEPT !.at = "visit", !.seen = fs[g].seen \union {p}, !.peer = Nobody]
    BY <1>3 DEF Pass
  <2>2. fs[g].seen \union {p} \subseteq Peer
    BY <1>1 DEF FlushState
  <2>3. Pass(p, fs, f)[g] \in FlushState
    BY <1>1, <2>1, <2>2 DEF FlushState
  <2>4. /\ Alike(Pass(p, fs, f)[g], fs[g])
        /\ Pass(p, fs, f)[g].at = "visit" /\ Pass(p, fs, f)[g].peer = Nobody
    BY <1>1, <2>1 DEF FlushState, Alike
  <2>5. QED BY <1>3, <2>3, <2>4
<1>4. QED BY <1>2, <1>3

LEMMA FlushTyped == TypeOK => flush \in [Flush -> FlushState]
  BY DEF TypeOK, FlushState

-----------------------------------------------------------------------------
(* What each step does.                                                    *)

\* A step that leaves the flushes' budgets and refs, and lets no queue go.
Aside ==
  /\ flush' = flush /\ thread' = thread /\ rounds' = rounds /\ minute' = minute
  /\ DOMAIN pending \subseteq DOMAIN pending'

LEMMA AsideEntries == ASSUME Entries, Aside PROVE Entries'
  BY DEF Entries, Entry, Aside

(* A message, met by a hook or a route: it resolves a uuid, and its refs   *)
(* are with the hook or noted.                                             *)
LEMMA MeetDoes ==
  ASSUME TypeOK, NEW p \in Peer, NEW u \in Uuid, Ingest(p, u) \/ Show(p, u)
  PROVE  /\ TypeOK' /\ Aside /\ local[u] = Nobody /\ local' = [local EXCEPT ![u] = p]
         /\ UNCHANGED <<held, attempts, pending, inFlight, known, recent, seeded>>
         /\ Resolved \subseteq Resolved' /\ hooks \subseteq hooks' /\ excused \subseteq excused'
         /\ <<p, u>> \in hooks' \/ RefOf[u] \ Resolved \subseteq excused'
<1>1. /\ local[u] = Nobody /\ local' = [local EXCEPT ![u] = p]
      /\ UNCHANGED <<held, wrong, attempts, waiting, pending, inFlight, known, rounds, recent, timer>>
      /\ UNCHANGED <<flush, thread, faults, seeded, churn>> /\ minute' = minute
      /\ \/ hooks' = hooks \union {<<p, u>>} /\ excused' = excused
         \/ hooks' = hooks /\ excused' = excused \union (RefOf[u] \ Resolved)
  BY DEF Ingest, Show, Meet, memory, bounds
<1>2. local'[u] = p /\ \A v \in Uuid \ {u} : local'[v] = local[v]
  BY <1>1 DEF TypeOK
<1>3. Resolved \subseteq Resolved'
  BY <1>1, <1>2 DEF Resolved, HeldUuids, LocalUuids
<1>4. local' \in [Uuid -> Peer \union {Nobody}]
  BY <1>1 DEF TypeOK
<1>5. hooks' \subseteq Peer \X Uuid /\ excused' \subseteq Uuid
  <2>1. RefOf[u] \subseteq Uuid
    BY RefOfAssumption
  <2>2. QED BY <1>1, <2>1 DEF TypeOK
<1>6. TypeOK'
  BY <1>1, <1>4, <1>5 DEF TypeOK, HeldUuids, minute
<1>7. QED BY <1>1, <1>3, <1>6 DEF Aside

(* A hook is done with its message: its refs are chased. *)
LEMMA DanglingDoes ==
  ASSUME TypeOK, NEW p \in Peer, NEW u \in Uuid, EnqueueDangling(p, u)
  PROVE  /\ TypeOK' /\ Aside /\ hooks' = hooks \ {<<p, u>>}
         /\ UNCHANGED <<local, held, attempts, inFlight, recent, seeded, excused>>
         /\ \A q \in DOMAIN pending : pending[q] \subseteq pending'[q]
         /\ \A t \in RefOf[u] \ Resolved :
              \/ p \in DOMAIN pending' /\ t \in pending'[p]
              \/ t \in inFlight \/ Exhausted(attempts, t) \/ rounds[p] >= MaxRounds
         /\ known \subseteq known'
         /\ \A q \in DOMAIN pending' : \A t \in pending'[q] :
              t \in known' \/ (q \in DOMAIN pending /\ t \in pending[q])
<1> DEFINE want == Only(p, RefOf[u] \ Resolved)
<1>1. /\ Enqueue(want, inFlight, known, attempts) /\ hooks' = hooks \ {<<p, u>>}
      /\ UNCHANGED <<local, held, wrong, attempts, waiting, inFlight, rounds, recent, flush, thread>>
      /\ UNCHANGED <<faults, seeded, churn, excused>> /\ minute' = minute
  BY DEF EnqueueDangling, persisted, bounds
<1>2. \A q \in Peer : want[q] \subseteq Uuid
  BY RefOfAssumption DEF Only
<1>3. want[p] = RefOf[u] \ Resolved
  BY DEF Only
<1>4. known \in SUBSET Uuid
  BY DEF TypeOK
<1> HIDE DEF want
<1>5. /\ DOMAIN pending' \subseteq Peer /\ \A q \in DOMAIN pending' : pending'[q] \subseteq Uuid
      /\ DOMAIN pending \subseteq DOMAIN pending'
      /\ \A q \in DOMAIN pending : pending[q] \subseteq pending'[q]
      /\ \A q \in Peer : \A t \in want[q] :
           \/ q \in DOMAIN pending' /\ t \in pending'[q]
           \/ t \in inFlight \/ Exhausted(attempts, t) \/ rounds[q] >= MaxRounds
      /\ \A q \in DOMAIN pending' : \A t \in pending'[q] :
           t \in known' \/ (q \in DOMAIN pending /\ t \in pending[q])
      /\ known \subseteq known' /\ known' \subseteq Uuid
      /\ timer' \in BOOLEAN
  BY <1>1, <1>2, <1>4, EnqueueDoes
<1>6. TypeOK'
  BY <1>1, <1>5 DEF TypeOK, HeldUuids, minute
<1>7. QED BY <1>1, <1>3, <1>5, <1>6 DEF Aside

(* A hook throws: the refs of its message are noted. *)
LEMMA HookDoes ==
  ASSUME TypeOK, NEW p \in Peer, NEW u \in Uuid, HookThrows(p, u)
  PROVE  /\ TypeOK' /\ Aside /\ hooks' = hooks \ {<<p, u>>}
         /\ UNCHANGED <<local, held, attempts, pending, inFlight, known, recent, seeded>>
         /\ excused \subseteq excused' /\ RefOf[u] \ Resolved \subseteq excused'
<1>1. /\ hooks' = hooks \ {<<p, u>>} /\ excused' = excused \union (RefOf[u] \ Resolved)
      /\ UNCHANGED <<local, held, wrong, attempts, waiting, pending, inFlight, known, rounds, recent, timer>>
      /\ UNCHANGED <<flush, thread, faults, seeded, churn>> /\ minute' = minute
  BY DEF HookThrows, persisted, memory, bounds
<1>2. RefOf[u] \subseteq Uuid
  BY RefOfAssumption
<1>3. TypeOK'
  BY <1>1, <1>2 DEF TypeOK, HeldUuids, minute
<1>4. QED BY <1>1, <1>3 DEF Aside

(* A bundle's envelope: its uuid resolves, and what still dangles from it  *)
(* is among what the code then takes for dangling.                         *)
LEMMA HoldDoes ==
  ASSUME TypeOK, NEW p \in Peer, NEW u \in Uuid, NEW evicted \in SUBSET HeldUuids,
         Hold(p, u, evicted), local' = local
  PROVE  /\ held' \in [Uuid -> Peer \union {Nobody}] /\ wrong' \subseteq HeldUuids' /\ churn' \in 0..MaxChurn
         /\ u \in Resolved' /\ Resolved \ evicted \subseteq Resolved'
         /\ \A v \in Uuid : v # u => held'[v] \in {held[v], Nobody}
         /\ \/ held'[u] \in {held[u], Nobody}
            \/ held'[u] = p /\ RefOf[u] \ Resolved' \subseteq Dangles(u, evicted)
         /\ Dangles(u, evicted) \subseteq Uuid
<1> DEFINE stored == u \notin Resolved
           full == stored /\ Cardinality(HeldUuids) >= HeldCap
<1>1. /\ Cardinality(evicted) = (IF full THEN 1 ELSE 0)
      /\ churn + Cardinality(evicted) <= MaxChurn
      /\ churn' = churn + Cardinality(evicted)
      /\ held' = IF stored THEN HeldAfter(p, u, evicted) ELSE held
      /\ wrong' = IF stored /\ ~AuthorFound(p, u) THEN (wrong \union {u}) \ evicted
                  ELSE wrong \ evicted
  BY DEF Hold
<1>2. p # Nobody /\ held \in [Uuid -> Peer \union {Nobody}] /\ local \in [Uuid -> Peer \union {Nobody}]
  BY NobodyAssumption DEF TypeOK
<1>3. stored => /\ u \notin evicted /\ held'[u] = p
                /\ \A v \in Uuid \ {u} : held'[v] = IF v \in evicted THEN Nobody ELSE held[v]
  BY <1>1 DEF HeldAfter, Resolved
<1>4. held' \in [Uuid -> Peer \union {Nobody}]
  BY <1>1, <1>2 DEF HeldAfter
<1>5. u \in Resolved' /\ Resolved \ evicted \subseteq Resolved'
  <2>1. CASE stored
    BY <1>2, <1>3, <2>1 DEF Resolved, HeldUuids, LocalUuids
  <2>2. CASE ~stored
    BY <1>1, <2>2 DEF Resolved, HeldUuids, LocalUuids
  <2>3. QED BY <2>1, <2>2
<1>6. \A v \in Uuid : v # u => held'[v] \in {held[v], Nobody}
  BY <1>1, <1>3
<1>7. Dangles(u, evicted) \subseteq Uuid /\ (stored => Dangles(u, evicted) = (RefOf[u] \ (Resolved \ evicted)) \ {u})
  BY RefOfAssumption DEF Dangles
<1>8. \/ held'[u] \in {held[u], Nobody}
      \/ held'[u] = p /\ RefOf[u] \ Resolved' \subseteq Dangles(u, evicted)
  BY <1>1, <1>3, <1>5, <1>7
<1>9. wrong' \subseteq HeldUuids'
  <2>1. wrong \subseteq HeldUuids
    BY DEF TypeOK
  <2>2. CASE stored
    BY <1>1, <1>2, <1>3, <2>1, <2>2 DEF HeldUuids
  <2>3. CASE ~stored
    BY <1>1, <2>1, <2>3 DEF HeldUuids
  <2>4. QED BY <2>2, <2>3
<1>10. churn' \in 0..MaxChurn
  BY <1>1, LimitsAssumption DEF TypeOK
<1>11. QED BY <1>4, <1>5, <1>6, <1>7, <1>8, <1>9, <1>10

(* A bundle: its uuid resolves, whatever is evicted for it is noted, and   *)
(* the refs of an envelope that is stored are chased.                      *)
LEMMA BundleDoes ==
  ASSUME TypeOK, NEW p \in Peer, NEW u \in Uuid, ReceiveBundle(p, u)
  PROVE  /\ TypeOK' /\ Aside
         /\ UNCHANGED <<local, recent, seeded, hooks>>
         /\ inFlight' = inFlight \ {u} /\ attempts' = [attempts EXCEPT ![u] = 0]
         /\ u \in Resolved' /\ Resolved \subseteq Resolved' \union excused' /\ excused \subseteq excused'
         /\ \A v \in Uuid : v # u => held'[v] \in {held[v], Nobody}
         /\ \/ held'[u] \in {held[u], Nobody}
            \/ /\ held'[u] = p
               /\ \A t \in RefOf[u] \ Resolved' :
                    \/ p \in DOMAIN pending' /\ t \in pending'[p]
                    \/ t \in inFlight' \/ Exhausted(attempts', t) \/ rounds[p] >= MaxRounds
         /\ \A q \in DOMAIN pending : pending[q] \subseteq pending'[q]
         /\ known \ {u} \subseteq known'
         /\ \A q \in DOMAIN pending' : \A t \in pending'[q] :
              t \in known' \/ (q \in DOMAIN pending /\ t \in pending[q])
<1> DEFINE tries == [attempts EXCEPT ![u] = 0]
           flying == inFlight \ {u}
<1>1. PICK evicted \in SUBSET HeldUuids :
        /\ Hold(p, u, evicted)
        /\ excused' = excused \union evicted
        /\ inFlight' = flying
        /\ attempts' = tries
        /\ waiting' = waiting \ {u}
        /\ Enqueue(Only(p, Dangles(u, evicted)), flying, known \ {u}, tries)
  BY DEF ReceiveBundle
<1>2. UNCHANGED <<local, rounds, recent, hooks, flush, thread, faults, seeded>> /\ minute' = minute
  BY DEF ReceiveBundle
<1> DEFINE want == Only(p, Dangles(u, evicted))
<1>3. /\ held' \in [Uuid -> Peer \union {Nobody}] /\ wrong' \subseteq HeldUuids' /\ churn' \in 0..MaxChurn
      /\ u \in Resolved' /\ Resolved \ evicted \subseteq Resolved'
      /\ \A v \in Uuid : v # u => held'[v] \in {held[v], Nobody}
      /\ \/ held'[u] \in {held[u], Nobody}
         \/ held'[u] = p /\ RefOf[u] \ Resolved' \subseteq Dangles(u, evicted)
      /\ Dangles(u, evicted) \subseteq Uuid
  BY <1>1, <1>2, HoldDoes
<1>4. want[p] = Dangles(u, evicted) /\ \A q \in Peer : want[q] \subseteq Uuid
  BY <1>3 DEF Only
<1>5. known \ {u} \in SUBSET Uuid
  BY DEF TypeOK
<1> HIDE DEF want
<1>7. /\ DOMAIN pending' \subseteq Peer /\ \A q \in DOMAIN pending' : pending'[q] \subseteq Uuid
      /\ DOMAIN pending \subseteq DOMAIN pending'
      /\ \A q \in DOMAIN pending : pending[q] \subseteq pending'[q]
      /\ \A q \in Peer : \A t \in want[q] :
           \/ q \in DOMAIN pending' /\ t \in pending'[q]
           \/ t \in flying \/ Exhausted(tries, t) \/ rounds[q] >= MaxRounds
      /\ \A q \in DOMAIN pending' : \A t \in pending'[q] :
           t \in known' \/ (q \in DOMAIN pending /\ t \in pending[q])
      /\ known \ {u} \subseteq known' /\ known' \subseteq Uuid
      /\ timer' \in BOOLEAN
  <2>1. Enqueue(want, flying, known \ {u}, tries)
    BY <1>1 DEF want
  <2> HIDE DEF flying, tries
  <2>2. QED BY <2>1, <1>4, <1>5, EnqueueDoes
<1>8. \/ held'[u] \in {held[u], Nobody}
      \/ /\ held'[u] = p
         /\ \A t \in RefOf[u] \ Resolved' :
              \/ p \in DOMAIN pending' /\ t \in pending'[p]
              \/ t \in inFlight' \/ Exhausted(attempts', t) \/ rounds[p] >= MaxRounds
  <2>1. \A t \in Dangles(u, evicted) :
          \/ p \in DOMAIN pending' /\ t \in pending'[p]
          \/ t \in inFlight' \/ Exhausted(attempts', t) \/ rounds[p] >= MaxRounds
    BY <1>1, <1>4, <1>7
  <2>2. QED BY <1>3, <2>1
<1>9. attempts' \in [Uuid -> Nat] /\ waiting' \subseteq Uuid /\ inFlight' \subseteq Uuid /\ excused' \subseteq Uuid
  BY <1>1 DEF TypeOK, HeldUuids
<1>10. TypeOK'
  BY <1>2, <1>3, <1>7, <1>9 DEF TypeOK, minute
<1>11. Resolved \subseteq Resolved' \union excused' /\ excused \subseteq excused'
  BY <1>1, <1>3
<1>12. QED BY <1>1, <1>2, <1>3, <1>7, <1>8, <1>10, <1>11 DEF Aside

(* A bundle cut short: the refs of an envelope that is stored are noted. *)
LEMMA CutDoes ==
  ASSUME TypeOK, NEW p \in Peer, NEW u \in Uuid, BundleThrows(p, u)
  PROVE  /\ TypeOK' /\ Aside
         /\ UNCHANGED <<local, pending, recent, seeded, hooks>>
         /\ inFlight' \subseteq inFlight /\ inFlight \ {u} \subseteq inFlight' /\ known \ {u} \subseteq known'
         /\ \A v \in Uuid : v # u => attempts'[v] = attempts[v]
         /\ attempts'[u] \in {attempts[u], 0}
         /\ u \in Resolved' /\ Resolved \subseteq Resolved' \union excused' /\ excused \subseteq excused'
         /\ \A v \in Uuid : v # u => held'[v] \in {held[v], Nobody}
         /\ \/ held'[u] \in {held[u], Nobody}
            \/ held'[u] = p /\ RefOf[u] \ Resolved' \subseteq excused'
<1>1. PICK evicted \in SUBSET HeldUuids :
        /\ Hold(p, u, evicted)
        /\ excused' = excused \union evicted \union Dangles(u, evicted)
  BY DEF BundleThrows
<1>2. /\ UNCHANGED <<local, pending, rounds, recent, timer, hooks, flush, thread, seeded>> /\ minute' = minute
      /\ faults < MaxFaults /\ faults' = faults + 1
      /\ inFlight' \in {inFlight, inFlight \ {u}} /\ known' \in {known, known \ {u}}
      /\ \/ attempts' = attempts /\ waiting' = waiting
         \/ attempts' = [attempts EXCEPT ![u] = 0] /\ waiting' = waiting \ {u}
  BY DEF BundleThrows, Fault
<1>3. /\ held' \in [Uuid -> Peer \union {Nobody}] /\ wrong' \subseteq HeldUuids' /\ churn' \in 0..MaxChurn
      /\ u \in Resolved' /\ Resolved \ evicted \subseteq Resolved'
      /\ \A v \in Uuid : v # u => held'[v] \in {held[v], Nobody}
      /\ \/ held'[u] \in {held[u], Nobody}
         \/ held'[u] = p /\ RefOf[u] \ Resolved' \subseteq Dangles(u, evicted)
      /\ Dangles(u, evicted) \subseteq Uuid
  BY <1>1, <1>2, HoldDoes
<1>4. /\ attempts' \in [Uuid -> Nat] /\ attempts'[u] \in {attempts[u], 0}
      /\ \A v \in Uuid : v # u => attempts'[v] = attempts[v]
  BY <1>2 DEF TypeOK
<1>5. waiting' \subseteq Uuid /\ inFlight' \subseteq Uuid /\ known' \subseteq Uuid /\ excused' \subseteq Uuid
  BY <1>1, <1>2, <1>3 DEF TypeOK, HeldUuids
<1>6. faults' \in 0..MaxFaults
  BY <1>2, LimitsAssumption DEF TypeOK
<1>7. TypeOK'
  BY <1>2, <1>3, <1>4, <1>5, <1>6 DEF TypeOK, minute
<1>8. QED BY <1>1, <1>2, <1>3, <1>4, <1>7 DEF Aside

(* An envelope is dropped, and noted. *)
LEMMA RenderDoes ==
  ASSUME TypeOK, NEW u \in Uuid, Render(u)
  PROVE  /\ TypeOK' /\ Aside
         /\ UNCHANGED <<local, pending, inFlight, attempts, known, recent, seeded, hooks>>
         /\ Resolved \subseteq Resolved' \union excused' /\ excused \subseteq excused'
         /\ \A v \in Uuid : held'[v] \in {held[v], Nobody}
<1>1. /\ u \in wrong /\ churn < MaxChurn /\ churn' = churn + 1
      /\ held' = [held EXCEPT ![u] = Nobody] /\ wrong' = wrong \ {u} /\ excused' = excused \union {u}
      /\ UNCHANGED <<local, attempts, waiting, pending, inFlight, known, rounds, recent, timer>>
      /\ UNCHANGED <<hooks, flush, thread, faults, seeded>> /\ minute' = minute
  BY DEF Render, memory
<1>2. held'[u] = Nobody /\ \A v \in Uuid \ {u} : held'[v] = held[v]
  BY <1>1 DEF TypeOK
<1>3. churn' \in 0..MaxChurn
  BY <1>1, LimitsAssumption DEF TypeOK
<1>4. held' \in [Uuid -> Peer \union {Nobody}] /\ wrong' \subseteq HeldUuids'
  BY <1>1, <1>2 DEF TypeOK, HeldUuids
<1>5. TypeOK'
  BY <1>1, <1>3, <1>4 DEF TypeOK, minute
<1>6. Resolved \subseteq Resolved' \union {u}
  BY <1>1, <1>2 DEF Resolved, HeldUuids, LocalUuids
<1>7. QED BY <1>1, <1>2, <1>5, <1>6 DEF Aside

(* Time passes. *)
LEMMA ClockDoes ==
  ASSUME TypeOK, (\E u \in Uuid : BackoffElapses(u)) \/ WindowSlides
  PROVE  /\ TypeOK' /\ Aside
         /\ UNCHANGED <<local, held, pending, inFlight, attempts, known, seeded, excused, hooks>>
         /\ recent' = recent \/ recent' >= fresh
<1>1. /\ UNCHANGED <<local, held, wrong, pending, inFlight, attempts, known, rounds, timer>>
      /\ UNCHANGED <<hooks, flush, thread, faults, seeded, churn, excused>> /\ minute' = minute
      /\ waiting' \subseteq waiting
  BY DEF BackoffElapses, WindowSlides, memory, persisted, bounds
<1>2. recent' \in Nat /\ (recent' = recent \/ recent' >= fresh)
  BY DEF BackoffElapses, WindowSlides, memory, TypeOK
<1>3. TypeOK'
  BY <1>1, <1>2 DEF TypeOK, HeldUuids, minute
<1>4. QED BY <1>1, <1>2, <1>3 DEF Aside

(* A watched minute begins or ends: no flush under way began in it. *)
LEMMA WatchDoes ==
  ASSUME Base, MinuteBegins \/ MinuteEnds
  PROVE  /\ Base' /\ watching' \in BOOLEAN /\ sent' = 0 /\ fresh' = 0 /\ restarted' = 0
         /\ \A g \in Flush : ~flush'[g].young /\ flush'[g].left = flush[g].left
         /\ UNCHANGED <<local, held, pending, inFlight, attempts, known, rounds, recent, seeded, excused, hooks>>
<1>1. /\ watching' \in BOOLEAN /\ sent' = 0 /\ fresh' = 0 /\ restarted' = 0
      /\ flush' = [f \in Flush |-> [flush[f] EXCEPT !.young = FALSE]]
      /\ UNCHANGED <<local, held, wrong, attempts, waiting, pending, inFlight, known, rounds, recent, timer>>
      /\ UNCHANGED <<hooks, thread, faults, seeded, churn, excused>>
  BY DEF MinuteBegins, MinuteEnds, Watch, persisted, memory
<1>2. flush \in [Flush -> FlushState]
  BY FlushTyped DEF Base
<1>3. ASSUME NEW g \in Flush
      PROVE  /\ flush'[g] \in FlushState /\ ~flush'[g].young /\ flush'[g].budget = flush[g].budget
             /\ flush'[g].left = flush[g].left /\ flush'[g].batch = flush[g].batch /\ flush'[g].at = flush[g].at
             /\ flush'[g].peer = flush[g].peer /\ flush'[g].attached = flush[g].attached
  <2>1. flush[g] \in FlushState /\ flush'[g] = [flush[g] EXCEPT !.young = FALSE]
    BY <1>1, <1>2
  <2>2. QED BY <2>1 DEF FlushState
<1>4. flush' \in [Flush -> FlushState]
  BY <1>1, <1>3
<1>5. TypeOK'
  <2>1. {sent', fresh', restarted'} \subseteq Nat
    BY <1>1
  <2>2. HeldUuids' = HeldUuids
    BY <1>1 DEF HeldUuids
  <2>3. QED BY <1>1, <1>4, <2>1, <2>2 DEF Base, TypeOK, FlushState
<1>6. Entries'
  BY <1>1, <1>3 DEF Base, Entries, Entry
<1>7. QED BY <1>1, <1>3, <1>5, <1>6 DEF Base

(* A restart forgets what was queued and asked, and notes what dangles     *)
(* from the messages.                                                      *)
LEMMA RestartDoes ==
  ASSUME TypeOK, Restart
  PROVE  /\ TypeOK' /\ Entries' /\ seeded' = FALSE /\ recent' = 0 /\ fresh' = 0
         /\ UNCHANGED <<local, held, attempts, watching, sent>>
         /\ restarted' = IF watching THEN restarted + 1 ELSE restarted
         /\ inFlight' = {} /\ DOMAIN pending' = {}
         /\ \A g \in Flush : flush'[g].left = {} /\ flush'[g].budget = 0 /\ ~flush'[g].young
         /\ excused \subseteq excused'
         /\ \A u \in LocalUuids : RefOf[u] \ Resolved \subseteq excused'
<1>1. /\ faults < MaxFaults /\ faults' = faults + 1
      /\ seeded' = FALSE /\ inFlight' = {} /\ known' = {} /\ recent' = 0 /\ timer' = FALSE /\ thread' = 0
      /\ UNCHANGED <<local, held, wrong, attempts, waiting, churn, watching, sent>>
      /\ hooks' = {} /\ fresh' = 0
      /\ restarted' = IF watching THEN restarted + 1 ELSE restarted
      /\ flush' = [f \in Flush |-> IdleFlush]
      /\ rounds' = [p \in Peer |-> 0]
  BY DEF Restart, Fault, persisted
<1>2. DOMAIN pending' = {}
  BY DEF Restart, Restrict
<1>3. \A u \in LocalUuids : RefOf[u] \ Resolved \subseteq excused' /\ RefOf[u] \subseteq Uuid
  BY RefOfAssumption DEF Restart, LocalUuids
<1>4. excused \subseteq excused' /\ excused' \subseteq Uuid
  BY RefOfAssumption DEF Restart, LocalUuids, TypeOK
<1>5. flush' \in [Flush -> FlushState]
  BY <1>1, IdleTyped
<1>6. faults' \in 0..MaxFaults
  BY <1>1, LimitsAssumption DEF TypeOK
<1>7. rounds' \in [Peer -> 0..MaxRounds]
  BY <1>1, LimitsAssumption
<1>8. TypeOK'
  <2>1. {sent', fresh', restarted'} \subseteq Nat
    BY <1>1 DEF TypeOK
  <2>2. QED BY <1>1, <1>2, <1>4, <1>5, <1>6, <1>7, <2>1 DEF TypeOK, FlushState, HeldUuids
<1>9. Entries'
  BY <1>1, IdleTyped DEF Entries, Entry
<1>10. QED BY <1>1, <1>2, <1>3, <1>4, <1>8, <1>9, IdleTyped

(* What dangles from the held envelopes is chased. *)
LEMMA SeedDoes ==
  ASSUME TypeOK, Seed
  PROVE  /\ TypeOK' /\ Aside
         /\ UNCHANGED <<local, held, attempts, inFlight, recent, excused, hooks>>
         /\ \A q \in DOMAIN pending : pending[q] \subseteq pending'[q]
         /\ \A u \in Uuid, p \in Peer : held[u] = p =>
              \A t \in RefOf[u] \ Resolved :
                \/ p \in DOMAIN pending' /\ t \in pending'[p]
                \/ t \in inFlight \/ Exhausted(attempts, t) \/ rounds[p] >= MaxRounds
         /\ known \subseteq known'
         /\ \A q \in DOMAIN pending' : \A t \in pending'[q] :
              t \in known' \/ (q \in DOMAIN pending /\ t \in pending[q])
<1> DEFINE want == [p \in Peer |-> UNION {RefOf[u] \ Resolved : u \in {v \in Uuid : held[v] = p}}]
<1>1. /\ seeded' = TRUE /\ Enqueue(want, inFlight, known, attempts)
      /\ UNCHANGED <<local, held, wrong, attempts, waiting, inFlight, rounds, recent, flush, thread>>
      /\ UNCHANGED <<hooks, faults, churn, excused>> /\ minute' = minute
  BY DEF Seed, persisted
<1>2. \A q \in Peer : want[q] \subseteq Uuid
  BY RefOfAssumption
<1>3. \A u \in Uuid, p \in Peer : held[u] = p => RefOf[u] \ Resolved \subseteq want[p]
  OBVIOUS
<1>4. known \in SUBSET Uuid
  BY DEF TypeOK
<1> HIDE DEF want
<1>5. /\ DOMAIN pending' \subseteq Peer /\ \A q \in DOMAIN pending' : pending'[q] \subseteq Uuid
      /\ DOMAIN pending \subseteq DOMAIN pending'
      /\ \A q \in DOMAIN pending : pending[q] \subseteq pending'[q]
      /\ \A q \in Peer : \A t \in want[q] :
           \/ q \in DOMAIN pending' /\ t \in pending'[q]
           \/ t \in inFlight \/ Exhausted(attempts, t) \/ rounds[q] >= MaxRounds
      /\ \A q \in DOMAIN pending' : \A t \in pending'[q] :
           t \in known' \/ (q \in DOMAIN pending /\ t \in pending[q])
      /\ known \subseteq known' /\ known' \subseteq Uuid
      /\ timer' \in BOOLEAN
  BY <1>1, <1>2, <1>4, EnqueueDoes
<1>6. TypeOK'
  BY <1>1, <1>5 DEF TypeOK, HeldUuids, minute
<1>7. QED BY <1>1, <1>3, <1>5, <1>6 DEF Aside

(* A flush begins: it has a budget, and nothing in hand. *)
LEMMA BeginDoes ==
  ASSUME Base, NEW f \in Flush, TimerFires(f) \/ Kick(f)
  PROVE  /\ Base' /\ flush'[f].budget = Budget /\ flush'[f].left = {} /\ flush'[f].batch = {}
         /\ flush'[f].young = watching /\ minute' = minute
         /\ \A g \in Flush \ {f} : flush'[g] = flush[g]
         /\ UNCHANGED <<local, held, pending, inFlight, attempts, known, rounds, recent, seeded, excused, hooks>>
<1>1. /\ thread' = f /\ timer' \in {timer, FALSE}
      /\ flush' = [flush EXCEPT ![f] = [IdleFlush EXCEPT !.at = "visit", !.young = watching, !.budget = Budget]]
      /\ UNCHANGED <<local, held, wrong, attempts, waiting, pending, inFlight, known, rounds, recent>>
      /\ UNCHANGED <<hooks, faults, seeded, churn, excused>> /\ minute' = minute
  BY DEF TimerFires, Kick, BeginFlush, persisted, memory, bounds
<1>2. Budget \in 0..MaxRequestsPerMinute
  BY LimitsAssumption DEF Base, TypeOK, Budget
<1>3. flush \in [Flush -> FlushState]
  BY FlushTyped DEF Base
<1> DEFINE begun == [IdleFlush EXCEPT !.at = "visit", !.young = watching, !.budget = Budget]
<1>4. /\ begun \in FlushState /\ begun.at = "visit" /\ begun.peer = Nobody
      /\ begun.batch = {} /\ begun.left = {} /\ begun.budget = Budget /\ begun.young = watching
  <2>1. watching \in BOOLEAN
    BY DEF Base, TypeOK
  <2>2. QED BY <1>2, <2>1, IdleTyped DEF FlushState
<1>5. flush'[f] = begun /\ \A g \in Flush \ {f} : flush'[g] = flush[g]
  BY <1>1, <1>3
<1> HIDE DEF begun
<1>6. flush' \in [Flush -> FlushState]
  BY <1>1, <1>3, <1>4, <1>5
<1>7. TypeOK'
  BY <1>1, <1>6 DEF Base, TypeOK, FlushState, HeldUuids, minute
<1>8. Entries'
  BY <1>1, <1>4, <1>5 DEF Base, Entries, Entry
<1>9. QED BY <1>1, <1>4, <1>5, <1>7, <1>8 DEF Base

(* A visit in vain drops only what is given up. *)
LEMMA VainDoes ==
  ASSUME Base, NEW f \in Flush, NEW p \in Peer, VisitInVain(f, p)
  PROVE  /\ Base' /\ \A g \in Flush : Alike(flush'[g], flush[g])
         /\ UNCHANGED <<local, held, inFlight, attempts, known, rounds, recent, seeded, excused, hooks>>
         /\ minute' = minute
         /\ DOMAIN pending' \subseteq DOMAIN pending
         /\ \A q \in DOMAIN pending' : pending'[q] = pending[q]
         /\ \A q \in DOMAIN pending \ DOMAIN pending' : \A u \in pending[q] : Exhausted(attempts, u)
<1>1. /\ flush[f].at = "visit" /\ p \in DOMAIN pending
      /\ UNCHANGED <<local, held, wrong, attempts, waiting, inFlight, known, rounds, recent, timer, thread>>
      /\ UNCHANGED <<hooks, faults, seeded, churn, excused>> /\ minute' = minute
  BY DEF VisitInVain, Running, Candidates, persisted, bounds
<1>2. flush \in [Flush -> FlushState]
  BY FlushTyped DEF Base
<1>3. CASE /\ \A u \in pending[p] : Exhausted(attempts, u)
           /\ Delete(p) /\ flush' = Forget(p, Detached(p, flush))
  <2> DEFINE off == Detached(p, flush)
  <2>1. off \in [Flush -> FlushState]
    <3>1. \A g \in Flush : off[g] \in FlushState
      BY <1>1, <1>2, DetachedIs DEF Base
    <3>2. off = [g \in Flush |-> off[g]]
      BY DEF Detached
    <3> HIDE DEF off
    <3>3. QED BY <3>1, <3>2
  <2>2. \A g \in Flush : /\ Alike(off[g], flush[g]) /\ off[g].at = flush[g].at /\ off[g].peer = flush[g].peer
                         /\ off[g].attached => flush[g].attached /\ flush[g].peer # p
    BY <1>1, <1>2, DetachedIs DEF Base
  <2> HIDE DEF off
  <2>3. flush' = Forget(p, off)
    BY <1>3 DEF off
  <2>4. \A g \in Flush : /\ flush'[g] \in FlushState /\ Alike(flush'[g], off[g]) /\ flush'[g].at = off[g].at
                         /\ flush'[g].peer = off[g].peer /\ flush'[g].attached = off[g].attached
    BY <2>1, <2>3, ForgetIs
  <2>5. flush' \in [Flush -> FlushState]
    BY <2>3, <2>4 DEF Forget
  <2>6. DOMAIN pending' = DOMAIN pending \ {p} /\ \A q \in DOMAIN pending' : pending'[q] = pending[q]
    BY <1>3, DeleteDoes
  <2>7. TypeOK'
    BY <1>1, <2>5, <2>6 DEF Base, TypeOK, FlushState, HeldUuids, minute
  <2>8. \A g \in Flush : Alike(flush'[g], flush[g])
    BY <2>2, <2>4 DEF Alike
  <2>9. Entries'
    BY <2>2, <2>4, <2>6, <2>8 DEF Base, Entries, Entry, Alike
  <2>10. QED BY <1>1, <1>3, <2>6, <2>7, <2>8, <2>9 DEF Base
<1>4. CASE flush' = Pass(p, flush, f) /\ UNCHANGED pending
  <2>1. \A g \in Flush : /\ flush'[g] \in FlushState /\ Alike(flush'[g], flush[g])
                         /\ g # f => flush'[g] = flush[g]
                         /\ g = f => flush'[g].at = "visit" /\ flush'[g].peer = Nobody
    BY <1>2, <1>4, PassIs
  <2>2. flush' \in [Flush -> FlushState]
    BY <1>4, <2>1 DEF Pass
  <2>3. TypeOK'
    BY <1>1, <1>4, <2>2 DEF Base, TypeOK, FlushState, HeldUuids, minute
  <2>4. Entries'
    BY <1>4, <2>1 DEF Base, Entries, Entry, Alike
  <2>5. QED BY <1>1, <1>4, <2>1, <2>3, <2>4 DEF Base
<1>5. QED BY <1>3, <1>4 DEF VisitInVain

(* A visit that sends takes up what is queued, eligible and not in flight. *)
LEMMA VisitDoes ==
  ASSUME Base, NEW f \in Flush, NEW p \in Peer, VisitAndSend(f, p)
  PROVE  /\ Base' /\ flush'[f].budget = flush[f].budget /\ flush'[f].left = EligibleOf(p)
         /\ flush'[f].young = flush[f].young /\ minute' = minute
         /\ p \in DOMAIN pending
         /\ \A g \in Flush \ {f} : flush'[g] = flush[g]
         /\ \A q \in Peer : rounds[q] >= MaxRounds => rounds'[q] >= MaxRounds
         /\ UNCHANGED <<local, held, pending, inFlight, attempts, known, recent, seeded, excused, hooks>>
<1>1. /\ flush[f].at = "visit" /\ flush[f].budget # 0 /\ p \in DOMAIN pending /\ thread' = 0
      /\ rounds' = [rounds EXCEPT ![p] = Min({rounds[p] + 1, MaxRounds})]
      /\ UNCHANGED <<local, held, wrong, attempts, waiting, pending, inFlight, known, recent, timer>>
      /\ UNCHANGED <<hooks, faults, seeded, churn, excused>> /\ minute' = minute
  BY DEF VisitAndSend, Running, Candidates, persisted, bounds
<1>2. flush \in [Flush -> FlushState]
  BY FlushTyped DEF Base
<1>3. EligibleOf(p) \in SUBSET Uuid
  BY <1>1 DEF EligibleOf, Base, TypeOK
<1>4. PICK b \in NextBatch(EligibleOf(p)) :
        flush' = [flush EXCEPT ![f] = [flush[f] EXCEPT !.at = "send", !.peer = p, !.attached = TRUE,
                                               !.own = {}, !.left = EligibleOf(p), !.batch = b]]
  BY DEF VisitAndSend
<1>5. b \subseteq EligibleOf(p) /\ b \in Batches
  BY <1>3, BatchIs
<1>6. /\ flush'[f] = [flush[f] EXCEPT !.at = "send", !.peer = p, !.attached = TRUE,
                                      !.own = {}, !.left = EligibleOf(p), !.batch = b]
      /\ \A g \in Flush \ {f} : flush'[g] = flush[g]
  BY <1>2, <1>4
<1>7. flush[f] \in FlushState
  BY <1>2
<1>8. flush'[f] \in FlushState
  BY <1>3, <1>5, <1>6, <1>7 DEF FlushState
<1>9. /\ flush'[f].at = "send" /\ flush'[f].peer = p /\ flush'[f].left = EligibleOf(p)
      /\ flush'[f].batch = b /\ flush'[f].budget = flush[f].budget /\ flush'[f].young = flush[f].young
  BY <1>6, <1>7 DEF FlushState
<1>10. flush' \in [Flush -> FlushState]
  BY <1>2, <1>4, <1>6, <1>8
<1>11. rounds[p] \in 0..MaxRounds /\ MaxRounds \in Nat /\ rounds \in [Peer -> 0..MaxRounds]
  BY LimitsAssumption DEF Base, TypeOK
<1>12. /\ Min({rounds[p] + 1, MaxRounds}) \in {rounds[p] + 1, MaxRounds}
       /\ Min({rounds[p] + 1, MaxRounds}) <= MaxRounds
  BY <1>11, MinOfTwo
<1>13. rounds' \in [Peer -> 0..MaxRounds] /\ \A q \in Peer : rounds[q] >= MaxRounds => rounds'[q] >= MaxRounds
  <2>1. rounds'[p] = Min({rounds[p] + 1, MaxRounds}) /\ \A q \in Peer \ {p} : rounds'[q] = rounds[q]
    BY <1>1, <1>11
  <2>2. rounds'[p] \in 0..MaxRounds /\ (rounds[p] >= MaxRounds => rounds'[p] >= MaxRounds)
    BY <1>11, <1>12, <2>1
  <2>3. QED BY <1>1, <1>11, <2>1, <2>2
<1>14. TypeOK'
  BY <1>1, <1>10, <1>13 DEF Base, TypeOK, FlushState, HeldUuids, minute
<1>15. flush[f].budget > 0
  BY <1>1, <1>7 DEF FlushState
<1>16. Entries'
  <2>1. flush'[f].attached => flush'[f].peer \in DOMAIN pending'
    BY <1>1, <1>9
  <2>2. Entry(f)'
    BY <1>5, <1>9, <1>15, <2>1 DEF Entry
  <2>3. \A g \in Flush \ {f} : Entry(g)'
    BY <1>1, <1>6 DEF Base, Entries, Entry
  <2>4. QED BY <2>2, <2>3 DEF Entries
<1>17. QED BY <1>1, <1>6, <1>9, <1>13, <1>14, <1>16 DEF Base

(* A send that resolves: what went out is in flight and counted. *)
LEMMA ResolvesDoes ==
  ASSUME Base, NEW f \in Flush, SendResolves(f)
  PROVE  /\ Base' /\ flush[f].budget > 0 /\ flush'[f].budget = flush[f].budget - 1
         /\ flush'[f].left \subseteq flush[f].left \ flush[f].batch /\ flush[f].batch \subseteq flush[f].left
         /\ \A g \in Flush \ {f} : flush'[g] = flush[g]
         /\ flush'[f].young = flush[f].young /\ UNCHANGED <<watching, restarted>>
         /\ sent' = (IF watching THEN sent + 1 ELSE sent)
         /\ fresh' = (IF flush[f].young THEN fresh + 1 ELSE fresh)
         /\ recent' = recent + 1 /\ inFlight' = inFlight \union flush[f].batch
         /\ attempts' = [u \in Uuid |-> IF u \in flush[f].batch THEN attempts[u] + 1 ELSE attempts[u]]
         /\ DOMAIN pending' = DOMAIN pending
         /\ \A q \in DOMAIN pending : /\ pending'[q] \subseteq pending[q]
                                      /\ pending[q] \subseteq pending'[q] \union flush[f].batch
         /\ UNCHANGED <<local, held, known, rounds, seeded, excused, hooks>>
<1> DEFINE fl == flush[f]
           rest == fl.left \ fl.batch
           spent == [fl EXCEPT !.own = @ \ fl.batch, !.left = rest, !.budget = @ - 1]
<1>1. /\ thread = 0 /\ fl.at = "send"
      /\ pending' = (IF fl.attached THEN [pending EXCEPT ![fl.peer] = @ \ fl.batch] ELSE pending)
      /\ inFlight' = inFlight \union fl.batch
      /\ attempts' = [u \in Uuid |-> IF u \in fl.batch THEN attempts[u] + 1 ELSE attempts[u]]
      /\ waiting' = waiting \union fl.batch /\ recent' = recent + 1
      /\ UNCHANGED <<local, held, wrong, known, rounds, timer, hooks, faults, seeded, churn, excused>>
      /\ UNCHANGED <<watching, restarted>>
      /\ sent' = (IF watching THEN sent + 1 ELSE sent)
      /\ fresh' = (IF fl.young THEN fresh + 1 ELSE fresh)
  BY DEF SendResolves, Sending, bounds
<1>2. flush \in [Flush -> FlushState] /\ fl \in FlushState
  BY FlushTyped DEF Base
<1>3. /\ fl.budget \in Nat /\ fl.budget > 0 /\ fl.budget <= MaxRequestsPerMinute
      /\ fl.batch \subseteq fl.left /\ fl.left \subseteq Uuid
      /\ fl.attached => fl.peer \in DOMAIN pending
      /\ fl.peer \in Peer
  BY <1>1, <1>2, LimitsAssumption DEF Base, Entries, Entry, FlushState
<1>4. /\ spent \in FlushState /\ spent.left = rest /\ spent.budget = fl.budget - 1 /\ spent.at = "send"
      /\ spent.peer = fl.peer /\ spent.attached = fl.attached /\ spent.young = fl.young
  <2>1. rest \in SUBSET Uuid /\ fl.own \ fl.batch \in SUBSET Uuid /\ fl.budget - 1 \in 0..MaxRequestsPerMinute
    BY <1>2, <1>3, LimitsAssumption DEF FlushState
  <2>2. spent \in FlushState
    BY <1>2, <2>1 DEF FlushState
  <2>3. /\ spent.left = rest /\ spent.budget = fl.budget - 1 /\ spent.at = "send"
        /\ spent.peer = fl.peer /\ spent.attached = fl.attached /\ spent.young = fl.young
    BY <1>1, <1>2 DEF FlushState
  <2>4. QED BY <2>2, <2>3
<1>5. /\ DOMAIN pending' = DOMAIN pending
      /\ \A q \in DOMAIN pending : /\ pending'[q] \subseteq pending[q]
                                   /\ pending[q] \subseteq pending'[q] \union fl.batch
  BY <1>1, <1>3
<1> HIDE DEF spent
<1>6. \/ /\ rest # {} /\ fl.budget > 1 /\ thread' = thread
         /\ \E b \in NextBatch(rest) : flush' = [flush EXCEPT ![f] = [spent EXCEPT !.batch = b]]
      \/ /\ thread' = f
         /\ flush' = [flush EXCEPT ![f] = [spent EXCEPT !.at = "close", !.left = {}, !.batch = {}]]
  BY DEF SendResolves, spent
<1>7. /\ flush'[f] \in FlushState /\ flush'[f].budget = fl.budget - 1
      /\ flush'[f].left \subseteq rest /\ flush'[f].batch \subseteq flush'[f].left
      /\ flush'[f].at \in {"send", "close"} /\ (flush'[f].at = "send" => flush'[f].budget > 0)
      /\ flush'[f].peer = fl.peer /\ flush'[f].attached = fl.attached /\ flush'[f].young = fl.young
      /\ flush' \in [Flush -> FlushState] /\ \A g \in Flush \ {f} : flush'[g] = flush[g]
      /\ thread' \in {thread, f}
  <2>1. CASE /\ rest # {} /\ fl.budget > 1 /\ thread' = thread
             /\ \E b \in NextBatch(rest) : flush' = [flush EXCEPT ![f] = [spent EXCEPT !.batch = b]]
    <3>1. PICK b \in NextBatch(rest) : flush' = [flush EXCEPT ![f] = [spent EXCEPT !.batch = b]]
      BY <2>1
    <3>2. b \subseteq rest /\ b \in Batches
      BY <1>3, BatchIs
    <3> DEFINE next == [spent EXCEPT !.batch = b]
    <3>3. next \in FlushState
      BY <1>4, <3>2 DEF FlushState
    <3>4. /\ next.budget = fl.budget - 1 /\ next.left = rest /\ next.batch = b /\ next.at = "send"
          /\ next.peer = fl.peer /\ next.attached = fl.attached /\ next.young = fl.young
      BY <1>4 DEF FlushState
    <3>5. flush' = [flush EXCEPT ![f] = next]
      BY <3>1
    <3> HIDE DEF next
    <3>6. /\ flush'[f] = next /\ flush' \in [Flush -> FlushState]
          /\ \A g \in Flush \ {f} : flush'[g] = flush[g]
      BY <1>2, <3>3, <3>5
    <3>7. next.budget > 0
      BY <1>3, <2>1, <3>4
    <3>8. QED BY <2>1, <3>2, <3>3, <3>4, <3>6, <3>7
  <2>2. CASE /\ thread' = f
             /\ flush' = [flush EXCEPT ![f] = [spent EXCEPT !.at = "close", !.left = {}, !.batch = {}]]
    <3> DEFINE next == [spent EXCEPT !.at = "close", !.left = {}, !.batch = {}]
    <3>1. next \in FlushState
      BY <1>4, NoBatch DEF FlushState
    <3>2. /\ next.budget = fl.budget - 1 /\ next.left = {} /\ next.batch = {} /\ next.at = "close"
          /\ next.peer = fl.peer /\ next.attached = fl.attached /\ next.young = fl.young
      BY <1>4 DEF FlushState
    <3>3. flush' = [flush EXCEPT ![f] = next]
      BY <2>2
    <3> HIDE DEF next
    <3>4. /\ flush'[f] = next /\ flush' \in [Flush -> FlushState]
          /\ \A g \in Flush \ {f} : flush'[g] = flush[g]
      BY <1>2, <3>1, <3>3
    <3>5. QED BY <2>2, <3>1, <3>2, <3>4
  <2>3. QED BY <1>6, <2>1, <2>2
<1>8. attempts' \in [Uuid -> Nat] /\ recent' \in Nat /\ {sent', fresh', restarted'} \subseteq Nat
  BY <1>1 DEF Base, TypeOK
<1>9. waiting' \subseteq Uuid /\ inFlight' \subseteq Uuid /\ thread' \in {0} \union Flush
  BY <1>1, <1>3, <1>7 DEF Base, TypeOK
<1>10. TypeOK'
  BY <1>1, <1>5, <1>7, <1>8, <1>9 DEF Base, TypeOK, FlushState, HeldUuids
<1>11. Entry(f)'
  BY <1>3, <1>5, <1>7 DEF Entry
<1>12. \A g \in Flush \ {f} : Entry(g)'
  BY <1>5, <1>7 DEF Base, Entries, Entry
<1>13. Entries'
  BY <1>11, <1>12 DEF Entries
<1>14. QED BY <1>1, <1>3, <1>5, <1>7, <1>10, <1>13 DEF Base

(* A send whose recording throws: of what went out, some is in flight and  *)
(* some of that is counted.                                                *)
LEMMA RecordDoes ==
  ASSUME Base, NEW f \in Flush, RecordThrows(f)
  PROVE  /\ Base' /\ flush'[f].budget = flush[f].budget /\ flush'[f].young = flush[f].young
         /\ flush'[f].left = {} /\ flush[f].batch \subseteq flush[f].left
         /\ \A g \in Flush \ {f} : flush'[g] = flush[g]
         /\ \E done \in SUBSET flush[f].batch, kept \in SUBSET flush[f].batch :
              /\ inFlight' = inFlight \union done
              /\ attempts' = [u \in Uuid |-> IF u \in kept THEN attempts[u] + 1 ELSE attempts[u]]
              /\ \A q \in DOMAIN pending : /\ pending'[q] \subseteq pending[q]
                                           /\ pending[q] \subseteq pending'[q] \union done
         /\ DOMAIN pending' = DOMAIN pending
         /\ UNCHANGED <<local, held, known, rounds, recent, seeded, excused, hooks>> /\ minute' = minute
<1> DEFINE fl == flush[f]
<1>1. /\ fl.at = "send" /\ thread' = f /\ faults < MaxFaults /\ faults' = faults + 1
      /\ UNCHANGED <<local, held, wrong, known, rounds, recent, timer, hooks, seeded, churn, excused>>
      /\ minute' = minute
  BY DEF RecordThrows, Sending, Fault
<1>2. PICK done \in SUBSET fl.batch :
        /\ pending' = IF fl.attached THEN [pending EXCEPT ![fl.peer] = @ \ done] ELSE pending
        /\ inFlight' = inFlight \union done
        /\ \E kept \in SUBSET done :
             /\ attempts' = [u \in Uuid |-> IF u \in kept THEN attempts[u] + 1 ELSE attempts[u]]
             /\ waiting' = waiting \union kept
        /\ flush' = [flush EXCEPT ![f] = [fl EXCEPT !.at = "close", !.own = @ \ done, !.left = {}, !.batch = {}]]
  <2>1. PICK done \in (SUBSET fl.batch) \ {{}}, last \in fl.batch :
          /\ pending' = IF fl.attached THEN [pending EXCEPT ![fl.peer] = @ \ done] ELSE pending
          /\ inFlight' = inFlight \union done
          /\ \E kept \in {done, done \ {last}} :
               /\ attempts' = [u \in Uuid |-> IF u \in kept THEN attempts[u] + 1 ELSE attempts[u]]
               /\ waiting' = waiting \union kept
          /\ flush' = [flush EXCEPT ![f] = [fl EXCEPT !.at = "close", !.own = @ \ done, !.left = {}, !.batch = {}]]
    BY DEF RecordThrows
  <2>2. {done, done \ {last}} \subseteq SUBSET done
    OBVIOUS
  <2>3. QED BY <2>1, <2>2
<1>3. PICK kept \in SUBSET done :
        /\ attempts' = [u \in Uuid |-> IF u \in kept THEN attempts[u] + 1 ELSE attempts[u]]
        /\ waiting' = waiting \union kept
  BY <1>2
<1>4. flush \in [Flush -> FlushState] /\ fl \in FlushState
  BY FlushTyped DEF Base
<1>5. /\ fl.batch \subseteq fl.left /\ fl.left \subseteq Uuid /\ fl.peer \in Peer
      /\ fl.attached => fl.peer \in DOMAIN pending
  BY <1>1, <1>4 DEF Base, Entries, Entry, FlushState
<1>6. /\ DOMAIN pending' = DOMAIN pending
      /\ \A q \in DOMAIN pending : /\ pending'[q] \subseteq pending[q]
                                   /\ pending[q] \subseteq pending'[q] \union done
  BY <1>2, <1>5
<1> DEFINE next == [fl EXCEPT !.at = "close", !.own = @ \ done, !.left = {}, !.batch = {}]
<1>7. next \in FlushState
  BY <1>4, NoBatch DEF FlushState
<1>8. /\ next.budget = fl.budget /\ next.left = {} /\ next.batch = {} /\ next.at = "close"
      /\ next.peer = fl.peer /\ next.attached = fl.attached /\ next.young = fl.young
  BY <1>4 DEF FlushState
<1>9. flush' = [flush EXCEPT ![f] = next]
  BY <1>2
<1> HIDE DEF next
<1>10. /\ flush'[f] = next /\ flush' \in [Flush -> FlushState]
       /\ \A g \in Flush \ {f} : flush'[g] = flush[g]
  BY <1>4, <1>7, <1>9
<1>11. attempts' \in [Uuid -> Nat]
  BY <1>3 DEF Base, TypeOK
<1>12. waiting' \subseteq Uuid /\ inFlight' \subseteq Uuid /\ faults' \in 0..MaxFaults
  BY <1>1, <1>2, <1>3, <1>5, LimitsAssumption DEF Base, TypeOK
<1>13. TypeOK'
  BY <1>1, <1>6, <1>10, <1>11, <1>12 DEF Base, TypeOK, FlushState, HeldUuids, minute
<1>14. Entry(f)'
  BY <1>5, <1>6, <1>8, <1>10 DEF Entry
<1>15. \A g \in Flush \ {f} : Entry(g)'
  BY <1>6, <1>10 DEF Base, Entries, Entry
<1>16. Entries'
  BY <1>14, <1>15 DEF Entries
<1>17. QED BY <1>1, <1>2, <1>3, <1>5, <1>6, <1>8, <1>10, <1>13, <1>16 DEF Base

(* A send that fails, a flush that ends: what was in hand is let go. *)
LEMMA LetGoDoes ==
  ASSUME Base, NEW f \in Flush, SendFails(f) \/ EndFlush(f)
  PROVE  /\ Base' /\ flush'[f].left = {}
         /\ \/ flush'[f].budget = flush[f].budget /\ flush'[f].young = flush[f].young
            \/ flush'[f].budget = 0 /\ ~flush'[f].young
         /\ \A g \in Flush \ {f} : flush'[g] = flush[g]
         /\ UNCHANGED <<local, held, pending, inFlight, attempts, known, rounds, recent, seeded, excused, hooks>>
         /\ minute' = minute
<1>1. /\ thread' \in {0, f} /\ timer' \in BOOLEAN
      /\ UNCHANGED <<local, held, wrong, attempts, waiting, pending, inFlight, known, rounds, recent>>
      /\ UNCHANGED <<hooks, faults, seeded, churn, excused>> /\ minute' = minute
  BY DEF SendFails, EndFlush, persisted, memory, bounds, Base, TypeOK
<1>2. flush \in [Flush -> FlushState] /\ flush[f] \in FlushState
  BY FlushTyped DEF Base
<1>3. /\ flush' \in [Flush -> FlushState] /\ \A g \in Flush \ {f} : flush'[g] = flush[g]
      /\ \/ flush'[f].budget = flush[f].budget /\ flush'[f].young = flush[f].young
         \/ flush'[f].budget = 0 /\ ~flush'[f].young
      /\ flush'[f].left = {} /\ Entry(f)'
  <2>1. CASE SendFails(f)
    <3> DEFINE next == [flush[f] EXCEPT !.at = "close", !.left = {}, !.batch = {}]
    <3>1. next \in FlushState
      BY <1>2, NoBatch DEF FlushState
    <3>2. /\ next.budget = flush[f].budget /\ next.left = {} /\ next.batch = {} /\ next.at = "close"
          /\ next.peer = flush[f].peer /\ next.attached = flush[f].attached /\ next.young = flush[f].young
      BY <1>2 DEF FlushState
    <3>3. flush' = [flush EXCEPT ![f] = next] /\ flush[f].at = "send"
      BY <2>1 DEF SendFails, Sending
    <3> HIDE DEF next
    <3>4. /\ flush'[f] = next /\ flush' \in [Flush -> FlushState]
          /\ \A g \in Flush \ {f} : flush'[g] = flush[g]
      BY <1>2, <3>1, <3>3
    <3>5. next.peer \in Peer /\ (next.attached => next.peer \in DOMAIN pending)
      BY <3>2, <3>3 DEF Base, Entries, Entry
    <3>6. Entry(f)'
      BY <1>1, <3>2, <3>4, <3>5 DEF Entry
    <3>7. QED BY <3>2, <3>4, <3>6
  <2>2. CASE EndFlush(f)
    <3>1. flush' = [flush EXCEPT ![f] = IdleFlush]
      BY <2>2 DEF EndFlush
    <3>2. /\ flush'[f] = IdleFlush /\ flush' \in [Flush -> FlushState]
          /\ \A g \in Flush \ {f} : flush'[g] = flush[g]
      BY <1>2, <3>1, IdleTyped
    <3>3. Entry(f)'
      BY <3>2, IdleTyped DEF Entry
    <3>4. QED BY <3>2, <3>3, IdleTyped
  <2>3. QED BY <2>1, <2>2
<1>4. TypeOK'
  BY <1>1, <1>3 DEF Base, TypeOK, FlushState, HeldUuids, minute
<1>5. \A g \in Flush \ {f} : Entry(g)'
  BY <1>1, <1>3 DEF Base, Entries, Entry
<1>6. Entries'
  BY <1>3, <1>5 DEF Entries
<1>7. QED BY <1>1, <1>3, <1>4, <1>6 DEF Base

(* A flush closes a peer: a queue that it removes is noted. *)
LEMMA CloseDoes ==
  ASSUME Base, NEW f \in Flush, ClosePeer(f)
  PROVE  /\ Base' /\ \A g \in Flush : Alike(flush'[g], flush[g])
         /\ UNCHANGED <<local, held, inFlight, attempts, known, rounds, recent, seeded, hooks>>
         /\ minute' = minute
         /\ DOMAIN pending' \subseteq DOMAIN pending
         /\ \A q \in DOMAIN pending' : pending'[q] = pending[q]
         /\ \A q \in DOMAIN pending \ DOMAIN pending' : pending[q] \subseteq excused'
         /\ excused \subseteq excused'
<1> DEFINE p == flush[f].peer
           passed == Pass(p, flush, f)
           done == [passed EXCEPT ![f].attached = TRUE, ![f].own = {}]
<1>1. /\ flush[f].at = "close"
      /\ UNCHANGED <<local, held, wrong, attempts, waiting, inFlight, known, rounds, recent, timer, thread>>
      /\ UNCHANGED <<hooks, faults, seeded, churn>> /\ minute' = minute
  BY DEF ClosePeer, Running, persisted, bounds
<1>2. flush \in [Flush -> FlushState] /\ p \in Peer
  BY <1>1, FlushTyped DEF Base, Entries, Entry
<1>3. \/ /\ p \in DOMAIN pending /\ Delete(p) /\ flush' = Forget(p, Detached(p, done))
         /\ excused' = excused \union pending[p]
      \/ flush' = done /\ UNCHANGED <<pending, excused>>
  BY DEF ClosePeer
<1>4. /\ passed = [g \in Flush |-> passed[g]]
      /\ \A g \in Flush : /\ passed[g] \in FlushState /\ Alike(passed[g], flush[g])
                          /\ g # f => passed[g] = flush[g]
                          /\ g = f => passed[g].at = "visit" /\ passed[g].peer = Nobody
  <2>1. passed = [g \in Flush |-> passed[g]]
    BY DEF Pass
  <2>2. QED BY <2>1, <1>2, PassIs
<1>5. passed \in [Flush -> FlushState]
  <2> HIDE DEF passed
  <2>1. QED BY <1>4
<1>6. /\ done \in [Flush -> FlushState]
      /\ \A g \in Flush : /\ Alike(done[g], passed[g]) /\ done[g].at = passed[g].at /\ done[g].peer = passed[g].peer
                          /\ g # f => done[g] = passed[g]
  <2> HIDE DEF passed
  <2>1. /\ done[f] = [passed[f] EXCEPT !.attached = TRUE, !.own = {}]
        /\ \A g \in Flush \ {f} : done[g] = passed[g]
    BY <1>5
  <2>2. passed[f] \in FlushState
    BY <1>5
  <2>3. done = [g \in Flush |-> done[g]]
    BY <1>5
  <2> HIDE DEF done
  <2>4. done[f] \in FlushState
    BY <2>1, <2>2 DEF FlushState
  <2>5. Alike(done[f], passed[f]) /\ done[f].at = passed[f].at /\ done[f].peer = passed[f].peer
    BY <2>1, <2>2 DEF FlushState, Alike
  <2>6. QED BY <1>5, <2>1, <2>3, <2>4, <2>5 DEF Alike
<1> HIDE DEF passed, done
<1>7. \A g \in Flush : /\ Alike(done[g], flush[g])
                       /\ g # f => done[g] = flush[g]
                       /\ g = f => done[g].at = "visit" /\ done[g].peer = Nobody
  BY <1>4, <1>6 DEF Alike
<1>8. CASE /\ p \in DOMAIN pending /\ Delete(p) /\ flush' = Forget(p, Detached(p, done))
           /\ excused' = excused \union pending[p]
  <2> DEFINE off == Detached(p, done)
  <2>1. \A g \in Flush : /\ off[g] \in FlushState
                         /\ Alike(off[g], done[g]) /\ off[g].at = done[g].at /\ off[g].peer = done[g].peer
                         /\ off[g].attached => done[g].attached /\ done[g].peer # p
    BY <1>6, <1>8, DetachedIs DEF Base
  <2>2. off = [g \in Flush |-> off[g]]
    BY DEF Detached
  <2>3. flush' = Forget(p, off)
    BY <1>8
  <2> HIDE DEF off
  <2>4. off \in [Flush -> FlushState]
    BY <2>1, <2>2
  <2>5. \A g \in Flush : /\ flush'[g] \in FlushState /\ Alike(flush'[g], off[g]) /\ flush'[g].at = off[g].at
                         /\ flush'[g].peer = off[g].peer /\ flush'[g].attached = off[g].attached
    BY <2>3, <2>4, ForgetIs
  <2>6. flush' \in [Flush -> FlushState]
    BY <2>3, <2>5 DEF Forget
  <2>7. DOMAIN pending' = DOMAIN pending \ {p} /\ \A q \in DOMAIN pending' : pending'[q] = pending[q]
    BY <1>8, DeleteDoes
  <2>8. excused' \subseteq Uuid
    BY <1>8 DEF Base, TypeOK
  <2>9. TypeOK'
    BY <1>1, <2>6, <2>7, <2>8 DEF Base, TypeOK, FlushState, HeldUuids, minute
  <2>10. \A g \in Flush : Alike(flush'[g], flush[g])
    BY <1>7, <2>1, <2>5 DEF Alike
  <2>11. Entry(f)'
    BY <1>7, <2>1, <2>5, <2>10 DEF Base, Entries, Entry, Alike
  <2>12. \A g \in Flush \ {f} : Entry(g)'
    BY <1>7, <2>1, <2>5, <2>7, <2>10 DEF Base, Entries, Entry, Alike
  <2>13. Entries'
    BY <2>11, <2>12 DEF Entries
  <2>14. QED BY <1>1, <1>8, <2>7, <2>9, <2>10, <2>13 DEF Base
<1>9. CASE flush' = done /\ UNCHANGED <<pending, excused>>
  <2>1. TypeOK'
    BY <1>1, <1>6, <1>9 DEF Base, TypeOK, FlushState, HeldUuids, minute
  <2>2. Entries'
    BY <1>7, <1>9 DEF Base, Entries, Entry, Alike
  <2>3. QED BY <1>1, <1>7, <1>9, <2>1, <2>2 DEF Base
<1>10. QED BY <1>3, <1>8, <1>9

-----------------------------------------------------------------------------
(* Types, and the entries of the flushes.                                  *)

LEMMA InitBase == Init => Base
<1> SUFFICES ASSUME Init PROVE Base
  OBVIOUS
<1>1. flush \in [Flush -> FlushState] /\ Entries
  BY IdleTyped DEF Init, Entries, Entry
<1>2. attempts \in [Uuid -> Nat] /\ rounds \in [Peer -> 0..MaxRounds]
  BY LimitsAssumption DEF Init
<1>3. local \in [Uuid -> Peer \union {Nobody}] /\ held \in [Uuid -> Peer \union {Nobody}]
  BY DEF Init
<1>4. faults \in 0..MaxFaults /\ churn \in 0..MaxChurn
  BY LimitsAssumption DEF Init
<1>5. DOMAIN pending = {}
  BY DEF Init
<1>6. {sent, fresh, restarted} \subseteq Nat /\ recent \in Nat
  BY DEF Init
<1>7. /\ wrong \subseteq HeldUuids /\ waiting \subseteq Uuid /\ hooks \subseteq Peer \X Uuid
      /\ inFlight \subseteq Uuid /\ known \subseteq Uuid /\ excused \subseteq Uuid
      /\ timer \in BOOLEAN /\ seeded \in BOOLEAN /\ watching \in BOOLEAN /\ thread \in {0} \union Flush
  BY DEF Init
<1>8. TypeOK
  BY <1>1, <1>2, <1>3, <1>4, <1>5, <1>6, <1>7 DEF TypeOK, FlushState
<1>9. QED BY <1>1, <1>8 DEF Base

LEMMA NextBase == Base /\ [Next]_vars => Base'
<1> SUFFICES ASSUME Base, [Next]_vars PROVE Base'
  OBVIOUS
<1>1. ASSUME NEW p \in Peer, NEW u \in Uuid,
             Ingest(p, u) \/ Show(p, u) \/ EnqueueDangling(p, u) \/ HookThrows(p, u)
      PROVE  Base'
  BY <1>1, MeetDoes, DanglingDoes, HookDoes, AsideEntries DEF Base
<1>2. ASSUME NEW p \in Peer, NEW u \in Uuid, ReceiveBundle(p, u) \/ BundleThrows(p, u) PROVE Base'
  BY <1>2, BundleDoes, CutDoes, AsideEntries DEF Base
<1>3. ASSUME NEW u \in Uuid, Render(u) PROVE Base'
  BY <1>3, RenderDoes, AsideEntries DEF Base
<1>4. ASSUME (\E u \in Uuid : BackoffElapses(u)) \/ WindowSlides PROVE Base'
  BY <1>4, ClockDoes, AsideEntries DEF Base
<1>5. ASSUME MinuteBegins \/ MinuteEnds PROVE Base'
  BY <1>5, WatchDoes
<1>6. ASSUME NEW f \in Flush, TimerFires(f) \/ Kick(f) PROVE Base'
  BY <1>6, BeginDoes
<1>7. ASSUME NEW f \in Flush, NEW p \in Peer, VisitInVain(f, p) \/ VisitAndSend(f, p) PROVE Base'
  BY <1>7, VainDoes, VisitDoes
<1>8. ASSUME NEW f \in Flush, ClosePeer(f) \/ EndFlush(f) PROVE Base'
  BY <1>8, CloseDoes, LetGoDoes
<1>9. ASSUME NEW f \in Flush, SendResolves(f) \/ SendFails(f) \/ RecordThrows(f) PROVE Base'
  BY <1>9, ResolvesDoes, LetGoDoes, RecordDoes
<1>10. ASSUME Restart PROVE Base'
  BY <1>10, RestartDoes DEF Base
<1>11. ASSUME Seed PROVE Base'
  BY <1>11, SeedDoes, AsideEntries DEF Base
<1>12. ASSUME UNCHANGED vars PROVE Base'
  BY <1>12 DEF vars, Base, TypeOK, Entries, Entry, HeldUuids
<1>13. QED BY <1>1, <1>2, <1>3, <1>4, <1>5, <1>6, <1>7, <1>8, <1>9, <1>10, <1>11, <1>12 DEF Next, Synchronous

(* The state of the backfiller is well typed, in every environment. *)
THEOREM BackfillTypes == Spec => []TypeOK
<1>1. Base => TypeOK
  BY DEF Base
<1>2. QED BY InitBase, NextBase, <1>1, PTL DEF Spec

-----------------------------------------------------------------------------
(* The request budget of a watched minute.                                 *)

Cap == MaxFlushes * MaxRequestsPerMinute

YoungOf(g) == IF flush[g].young THEN flush[g].budget ELSE 0
OldOf(g) == IF flush[g].young THEN 0 ELSE flush[g].budget

Young == YoungOf(1) + (IF MaxFlushes = 2 THEN YoungOf(2) ELSE 0)
Old == OldOf(1) + (IF MaxFlushes = 2 THEN OldOf(2) ELSE 0)

Allowed == (1 + restarted) * Cap

(* Stamps of this minute are in the window, so the flushes that began in   *)
(* it share one cap; those that began before it share another, and with    *)
(* every restart what was sent since the last one is beyond recall.        *)
Spending ==
  /\ fresh <= recent
  /\ fresh + Young <= Cap
  /\ sent + Old <= Allowed + fresh
  /\ ~watching => sent = 0 /\ fresh = 0 /\ restarted = 0 /\ \A g \in Flush : ~flush[g].young

Sums ==
  /\ MaxRequestsPerMinute \in Nat /\ Cap \in Nat
  /\ recent \in Nat /\ sent \in Nat /\ fresh \in Nat /\ restarted \in Nat
  /\ \A g \in Flush : YoungOf(g) \in 0..MaxRequestsPerMinute /\ OldOf(g) \in 0..MaxRequestsPerMinute
  /\ \/ /\ MaxFlushes = 1 /\ Flush = {1} /\ Cap = MaxRequestsPerMinute
        /\ Young = YoungOf(1) /\ Old = OldOf(1)
     \/ /\ MaxFlushes = 2 /\ Flush = {1, 2} /\ Cap = 2 * MaxRequestsPerMinute
        /\ Young = YoungOf(1) + YoungOf(2) /\ Old = OldOf(1) + OldOf(2)

LEMMA SumsAre == TypeOK => Sums
<1> SUFFICES ASSUME TypeOK PROVE Sums
  OBVIOUS
<1>1. MaxRequestsPerMinute \in Nat /\ {recent, sent, fresh, restarted} \subseteq Nat
  BY LimitsAssumption DEF TypeOK
<1>2. \A g \in Flush : flush[g].budget \in 0..MaxRequestsPerMinute /\ flush[g].young \in BOOLEAN
  BY DEF TypeOK
<1>3. \A g \in Flush : YoungOf(g) \in 0..MaxRequestsPerMinute /\ OldOf(g) \in 0..MaxRequestsPerMinute
  BY <1>1, <1>2 DEF YoungOf, OldOf
<1>4. CASE MaxFlushes = 1
  <2>1. Flush = {1} /\ Cap = MaxRequestsPerMinute
    BY <1>1, <1>4 DEF Flush, Cap
  <2>2. Young = YoungOf(1) /\ Old = OldOf(1)
    BY <1>1, <1>3, <1>4, <2>1 DEF Young, Old
  <2>3. QED BY <1>1, <1>3, <1>4, <2>1, <2>2 DEF Sums
<1>5. CASE MaxFlushes = 2
  <2>1. Flush = {1, 2} /\ Cap = 2 * MaxRequestsPerMinute /\ Cap \in Nat
    BY <1>1, <1>5 DEF Flush, Cap
  <2>2. Young = YoungOf(1) + YoungOf(2) /\ Old = OldOf(1) + OldOf(2)
    BY <1>5 DEF Young, Old
  <2>3. QED BY <1>1, <1>3, <1>5, <2>1, <2>2 DEF Sums
<1>6. QED BY <1>4, <1>5, FlushesAssumption

LEMMA SumsNext == TypeOK' => Sums'
  BY SumsAre, PTL

LEMMA Multiples ==
  ASSUME NEW r \in Nat, NEW c \in Nat
  PROVE  /\ (1 + r) * c \in Nat /\ c <= (1 + r) * c
         /\ (2 + r) * c = (1 + r) * c + c /\ (1 + (r + 1)) * c = (1 + r) * c + c
<1>1. r * c \in Nat
  OBVIOUS
<1>2. (1 + r) * c = c + r * c /\ (2 + r) * c = c + c + r * c /\ (1 + (r + 1)) * c = c + c + r * c
  OBVIOUS
<1>3. QED BY <1>1, <1>2

(* Facts of arithmetic, cited where the terms are not plain variables.     *)
LEMMA Shift ==
  ASSUME NEW m \in Nat, NEW n \in Nat, NEW c \in Nat, m <= c, c <= n
  PROVE  0 + m <= n + 0
OBVIOUS

LEMMA Under ==
  ASSUME NEW a \in Nat, NEW b \in Nat, NEW c \in Nat, NEW e \in Nat, a + b <= c, e <= b
  PROVE  a + e <= c
OBVIOUS

LEMMA Fewer ==
  ASSUME NEW a \in Nat, NEW b \in Nat, NEW c \in Nat, NEW d \in Nat, NEW e \in Nat,
         a + b <= c + d, e <= b
  PROVE  a + e <= c + d
OBVIOUS

LEMMA AllowedIs ==
  TypeOK => Allowed \in Nat /\ Cap <= Allowed /\ (2 + restarted) * Cap = Allowed + Cap
  BY SumsAre, Multiples DEF Sums, Allowed

LEMMA NoSpending ==
  ASSUME TypeOK, TypeOK', Spending, minute' = minute, recent' = recent \/ recent' >= fresh,
         \A g \in Flush : /\ YoungOf(g)' <= YoungOf(g) /\ OldOf(g)' <= OldOf(g)
                          /\ flush'[g].young => flush[g].young
  PROVE  Spending'
<1>1. Sums /\ Sums' /\ Allowed \in Nat
  BY SumsAre, SumsNext, AllowedIs
<1>2. watching' = watching /\ sent' = sent /\ fresh' = fresh /\ restarted' = restarted
  BY DEF minute
<1>3. Allowed' = Allowed
  BY <1>2 DEF Allowed
<1>4. Young \in Nat /\ Young' \in Nat /\ Young' <= Young /\ Old \in Nat /\ Old' \in Nat /\ Old' <= Old
  <2>1. CASE MaxFlushes = 1
    BY <1>1, <2>1 DEF Sums
  <2>2. CASE MaxFlushes = 2
    BY <1>1, <2>2 DEF Sums
  <2>3. QED BY <2>1, <2>2, FlushesAssumption
<1>5. fresh' <= recent'
  BY <1>2 DEF Spending
<1>6. fresh \in Nat /\ sent \in Nat /\ Cap \in Nat
  BY <1>1 DEF Sums
<1>7. fresh + Young <= Cap /\ sent + Old <= Allowed + fresh
  BY DEF Spending
<1>8. fresh + Young' <= Cap /\ sent + Old' <= Allowed + fresh
  <2>1. fresh + Young' <= Cap
    BY <1>4, <1>6, <1>7, Under
  <2>2. sent + Old' <= Allowed + fresh
    BY <1>1, <1>4, <1>6, <1>7, Fewer
  <2>3. QED BY <2>1, <2>2
<1>9. fresh' + Young' <= Cap /\ sent' + Old' <= Allowed' + fresh'
  BY <1>2, <1>3, <1>8
<1>10. QED BY <1>2, <1>5, <1>9 DEF Spending

\* A step that leaves the budgets, or gives one back.
LEMMA SameSpending ==
  ASSUME TypeOK, TypeOK', Spending, minute' = minute, recent' = recent \/ recent' >= fresh,
         \A g \in Flush : \/ flush'[g].budget = flush[g].budget /\ flush'[g].young = flush[g].young
                          \/ flush'[g].budget = 0 /\ ~flush'[g].young
  PROVE  Spending'
<1>1. Sums /\ Sums'
  BY SumsAre, SumsNext
<1>2. \A g \in Flush : /\ YoungOf(g)' <= YoungOf(g) /\ OldOf(g)' <= OldOf(g)
                       /\ flush'[g].young => flush[g].young
  <2> SUFFICES ASSUME NEW g \in Flush
               PROVE  /\ YoungOf(g)' <= YoungOf(g) /\ OldOf(g)' <= OldOf(g)
                      /\ flush'[g].young => flush[g].young
    OBVIOUS
  <2>1. YoungOf(g) \in Nat /\ OldOf(g) \in Nat
    BY <1>1 DEF Sums
  <2>2. CASE flush'[g].budget = flush[g].budget /\ flush'[g].young = flush[g].young
    <3>1. YoungOf(g)' = YoungOf(g) /\ OldOf(g)' = OldOf(g)
      BY <2>2 DEF YoungOf, OldOf
    <3>2. QED BY <2>1, <2>2, <3>1
  <2>3. CASE flush'[g].budget = 0 /\ ~flush'[g].young
    <3>1. YoungOf(g)' = 0 /\ OldOf(g)' = 0
      BY <2>3 DEF YoungOf, OldOf
    <3>2. QED BY <2>1, <2>3, <3>1
  <2>4. QED BY <2>2, <2>3
<1>3. QED BY <1>2, NoSpending

(* A flush begins. *)
LEMMA BeginSpending ==
  ASSUME TypeOK, TypeOK', Spending, NEW f \in Flush, minute' = minute, recent' = recent,
         flush'[f].budget = Budget, flush'[f].young = watching, \A g \in Flush \ {f} : flush'[g] = flush[g]
  PROVE  Spending'
<1>1. Sums /\ Sums' /\ Allowed \in Nat /\ Cap <= Allowed
  BY SumsAre, SumsNext, AllowedIs
<1>2. watching' = watching /\ sent' = sent /\ fresh' = fresh /\ restarted' = restarted
  BY DEF minute
<1>3. Allowed' = Allowed
  BY <1>2 DEF Allowed
<1>4. \A g \in Flush \ {f} : YoungOf(g)' = YoungOf(g) /\ OldOf(g)' = OldOf(g)
  BY DEF YoungOf, OldOf
<1>5. YoungOf(f)' = (IF watching THEN Budget ELSE 0) /\ (watching => OldOf(f)' = 0)
  BY DEF YoungOf, OldOf
<1>6. Budget = 0 \/ recent + Budget = MaxRequestsPerMinute
  BY <1>1 DEF Budget, Sums
<1>7. Budget \in Nat
  BY <1>1 DEF Budget, Sums
<1>8. fresh <= recent /\ fresh + Young <= Cap /\ sent + Old <= Allowed + fresh
  BY DEF Spending
<1>13. sent \in Nat /\ fresh \in Nat /\ Cap \in Nat
  BY <1>1 DEF Sums
<1>14. sent' + Old' <= Allowed' + fresh' <=> sent + Old' <= Allowed + fresh
  BY <1>2, <1>3
<1>9. fresh' + Young' <= Cap
  <2>1. YoungOf(f)' <= Budget /\ (Budget = 0 \/ fresh + Budget <= MaxRequestsPerMinute)
    BY <1>1, <1>5, <1>6, <1>7, <1>8 DEF Sums
  <2>2. CASE MaxFlushes = 1
    <3>1. f = 1 /\ Young' = YoungOf(1)' /\ Young = YoungOf(1) /\ Cap = MaxRequestsPerMinute
      BY <1>1, <2>2 DEF Sums
    <3>2. QED BY <1>1, <1>2, <1>7, <1>8, <2>1, <2>2, <3>1 DEF Sums
  <2>3. CASE MaxFlushes = 2
    <3>1. /\ f \in {1, 2} /\ 1 \in Flush /\ 2 \in Flush /\ Cap = 2 * MaxRequestsPerMinute
          /\ Young' = YoungOf(1)' + YoungOf(2)' /\ Young = YoungOf(1) + YoungOf(2)
      BY <1>1, <2>3 DEF Sums
    <3>2. CASE f = 1
      <4>1. YoungOf(2)' = YoungOf(2) /\ YoungOf(1)' <= Budget
        BY <1>4, <2>1, <3>1, <3>2
      <4>2. /\ YoungOf(1) \in 0..MaxRequestsPerMinute /\ YoungOf(2) \in 0..MaxRequestsPerMinute
            /\ YoungOf(1)' \in 0..MaxRequestsPerMinute /\ MaxRequestsPerMinute \in Nat
        BY <1>1, <3>1 DEF Sums
      <4>3. fresh + Young' <= Cap
        BY <1>7, <1>8, <1>13, <2>1, <3>1, <4>1, <4>2
      <4>4. QED BY <1>2, <4>3
    <3>3. CASE f = 2
      <4>1. YoungOf(1)' = YoungOf(1) /\ YoungOf(2)' <= Budget
        BY <1>4, <2>1, <3>1, <3>3
      <4>2. /\ YoungOf(1) \in 0..MaxRequestsPerMinute /\ YoungOf(2) \in 0..MaxRequestsPerMinute
            /\ YoungOf(2)' \in 0..MaxRequestsPerMinute /\ MaxRequestsPerMinute \in Nat
        BY <1>1, <3>1 DEF Sums
      <4>3. fresh + Young' <= Cap
        BY <1>7, <1>8, <1>13, <2>1, <3>1, <4>1, <4>2
      <4>4. QED BY <1>2, <4>3
    <3>4. QED BY <3>1, <3>2, <3>3
  <2>4. QED BY <2>2, <2>3, FlushesAssumption
<1>10. sent' + Old' <= Allowed' + fresh'
  <2>1. CASE watching
    <3>1. \A g \in Flush : OldOf(g)' <= OldOf(g)
      BY <1>1, <1>4, <1>5, <2>1 DEF Sums
    <3>2. CASE MaxFlushes = 1
      <4>1. Old \in Nat /\ Old' \in Nat /\ Old' <= Old
        BY <1>1, <3>1, <3>2 DEF Sums
      <4>2. sent + Old' <= Allowed + fresh
        BY <1>1, <1>8, <1>13, <4>1, Fewer
      <4>3. QED BY <1>14, <4>2
    <3>3. CASE MaxFlushes = 2
      <4>1. Old \in Nat /\ Old' \in Nat /\ Old' <= Old
        BY <1>1, <3>1, <3>3 DEF Sums
      <4>2. sent + Old' <= Allowed + fresh
        BY <1>1, <1>8, <1>13, <4>1, Fewer
      <4>3. QED BY <1>14, <4>2
    <3>4. QED BY <3>2, <3>3, FlushesAssumption
  <2>2. CASE ~watching
    <3>1. sent' = 0 /\ fresh' = 0
      BY <1>2, <2>2 DEF Spending
    <3>2. Old' <= Cap
      BY <1>1 DEF Sums
    <3>3. Old' \in Nat
      BY <1>1 DEF Sums
    <3>4. 0 + Old' <= Allowed + 0
      BY <1>1, <1>13, <3>2, <3>3, Shift
    <3>5. QED BY <1>3, <3>1, <3>4
  <2>3. QED BY <2>1, <2>2
<1>11. ~watching' => \A g \in Flush : ~flush'[g].young
  BY <1>2 DEF Spending
<1>12. QED BY <1>2, <1>8, <1>9, <1>10, <1>11 DEF Spending

(* A request is recorded: it counts against the flush that made it. *)
LEMMA SendSpending ==
  ASSUME TypeOK, TypeOK', Spending, NEW f \in Flush, UNCHANGED <<watching, restarted>>,
         recent' = recent + 1, flush[f].budget > 0, flush'[f].budget = flush[f].budget - 1,
         flush'[f].young = flush[f].young, \A g \in Flush \ {f} : flush'[g] = flush[g],
         sent' = (IF watching THEN sent + 1 ELSE sent), fresh' = (IF flush[f].young THEN fresh + 1 ELSE fresh)
  PROVE  Spending'
<1>1. Sums /\ Sums' /\ Allowed \in Nat
  BY SumsAre, SumsNext, AllowedIs
<1>2. Allowed' = Allowed
  BY DEF Allowed
<1>3. flush[f].budget \in Nat
  BY LimitsAssumption DEF TypeOK
<1>4. \A g \in Flush \ {f} : YoungOf(g)' = YoungOf(g) /\ OldOf(g)' = OldOf(g)
  BY DEF YoungOf, OldOf
<1>5. /\ flush[f].young => YoungOf(f)' = YoungOf(f) - 1 /\ OldOf(f)' = OldOf(f)
      /\ ~flush[f].young => OldOf(f)' = OldOf(f) - 1 /\ YoungOf(f)' = YoungOf(f)
  BY <1>3 DEF YoungOf, OldOf
<1>6. /\ flush[f].young => Young' = Young - 1 /\ Old' = Old
      /\ ~flush[f].young => Old' = Old - 1 /\ Young' = Young
  <2>1. CASE MaxFlushes = 1
    <3>1. f = 1 /\ Young' = YoungOf(1)' /\ Young = YoungOf(1) /\ Old' = OldOf(1)' /\ Old = OldOf(1)
      BY <1>1, <2>1 DEF Sums
    <3>2. QED BY <1>5, <3>1
  <2>2. CASE MaxFlushes = 2
    <3>1. /\ f \in {1, 2} /\ 1 \in Flush /\ 2 \in Flush
          /\ Young' = YoungOf(1)' + YoungOf(2)' /\ Young = YoungOf(1) + YoungOf(2)
          /\ Old' = OldOf(1)' + OldOf(2)' /\ Old = OldOf(1) + OldOf(2)
          /\ YoungOf(1) \in Nat /\ YoungOf(2) \in Nat /\ OldOf(1) \in Nat /\ OldOf(2) \in Nat
      BY <1>1, <2>2 DEF Sums
    <3>2. CASE f = 1
      <4>1. YoungOf(2)' = YoungOf(2) /\ OldOf(2)' = OldOf(2)
        BY <1>4, <3>1, <3>2
      <4>2. QED BY <1>5, <3>1, <3>2, <4>1
    <3>3. CASE f = 2
      <4>1. YoungOf(1)' = YoungOf(1) /\ OldOf(1)' = OldOf(1)
        BY <1>4, <3>1, <3>3
      <4>2. QED BY <1>5, <3>1, <3>3, <4>1
    <3>4. QED BY <3>1, <3>2, <3>3
  <2>3. QED BY <2>1, <2>2, FlushesAssumption
<1>7. Young \in Nat /\ Old \in Nat
  BY <1>1 DEF Sums
<1>8. /\ fresh <= recent /\ fresh + Young <= Cap /\ sent + Old <= Allowed + fresh
      /\ ~watching => sent = 0 /\ fresh = 0 /\ restarted = 0 /\ \A g \in Flush : ~flush[g].young
  BY DEF Spending
<1>9. recent \in Nat /\ sent \in Nat /\ fresh \in Nat /\ Cap \in Nat
  BY <1>1 DEF Sums
<1>10. fresh' <= recent' /\ fresh' + Young' <= Cap
  BY <1>6, <1>7, <1>8, <1>9
<1>11. sent' + Old' <= Allowed' + fresh'
  BY <1>1, <1>2, <1>6, <1>7, <1>8, <1>9
<1>12. ~watching' => sent' = 0 /\ fresh' = 0 /\ restarted' = 0 /\ \A g \in Flush : ~flush'[g].young
  BY <1>8
<1>13. QED BY <1>10, <1>11, <1>12 DEF Spending

(* A restart: no flush is left, and no stamp. *)
LEMMA RestartSpending ==
  ASSUME TypeOK, TypeOK', Spending, recent' = 0, fresh' = 0, UNCHANGED <<watching, sent>>,
         restarted' = (IF watching THEN restarted + 1 ELSE restarted),
         \A g \in Flush : flush'[g].budget = 0 /\ ~flush'[g].young
  PROVE  Spending'
<1>1. Sums /\ Sums' /\ Allowed \in Nat /\ Cap <= Allowed
  BY SumsAre, SumsNext, AllowedIs
<1>2. \A g \in Flush : YoungOf(g)' = 0 /\ OldOf(g)' = 0
  BY DEF YoungOf, OldOf
<1>3. Young' = 0 /\ Old' = 0
  BY <1>1, <1>2 DEF Sums
<1>4. Young \in Nat /\ Old \in Nat /\ Cap \in Nat /\ sent \in Nat /\ fresh \in Nat /\ restarted \in Nat
  BY <1>1 DEF Sums
<1>5. sent <= Allowed + Cap /\ (~watching => sent = 0)
  BY <1>1, <1>4 DEF Spending
<1>6. Allowed' = (IF watching THEN Allowed + Cap ELSE Allowed)
  BY <1>4, Multiples DEF Allowed
<1>7. sent' + Old' <= Allowed' + fresh'
  BY <1>1, <1>3, <1>4, <1>5, <1>6
<1>8. fresh' <= recent' /\ fresh' + Young' <= Cap
  BY <1>3, <1>4
<1>9. ~watching' => sent' = 0 /\ fresh' = 0 /\ restarted' = 0 /\ \A g \in Flush : ~flush'[g].young
  BY DEF Spending
<1>10. QED BY <1>7, <1>8, <1>9 DEF Spending

(* A minute begins or ends: what is under way began outside it. *)
LEMMA WatchSpending ==
  ASSUME TypeOK, TypeOK', sent' = 0, fresh' = 0, restarted' = 0, \A g \in Flush : ~flush'[g].young
  PROVE  Spending'
<1>1. Sums'
  BY SumsNext
<1>2. \A g \in Flush : YoungOf(g)' = 0
  BY DEF YoungOf
<1>3. Young' = 0 /\ Old' <= Cap /\ Old' \in Nat /\ Cap \in Nat /\ recent' \in Nat
  BY <1>1, <1>2 DEF Sums
<1>4. Allowed' = Cap
  BY <1>3 DEF Allowed
<1>5. fresh' <= recent'
  BY <1>3
<1>6. fresh' + Young' <= Cap
  BY <1>3
<1>7. sent' + Old' <= Allowed' + fresh'
  <2>1. 0 + Old' <= Cap + 0
    <3>1. Cap <= Cap
      BY <1>3
    <3>2. QED BY <1>3, <3>1, Shift
  <2>2. QED BY <1>4, <2>1
<1>8. QED BY <1>5, <1>6, <1>7 DEF Spending

LEMMA SpendingStep == Base /\ Spending /\ [Next]_vars => Spending'
<1> SUFFICES ASSUME Base, Spending, [Next]_vars PROVE Spending'
  OBVIOUS
<1>0. TypeOK /\ TypeOK'
  BY NextBase DEF Base
<1>1. ASSUME Aside, recent' = recent \/ recent' >= fresh PROVE Spending'
  BY <1>0, <1>1, SameSpending DEF Aside
<1>2. ASSUME NEW p \in Peer, NEW u \in Uuid,
             \/ Ingest(p, u) \/ Show(p, u) \/ EnqueueDangling(p, u) \/ HookThrows(p, u)
             \/ ReceiveBundle(p, u) \/ BundleThrows(p, u)
      PROVE  Spending'
  <2>1. Aside /\ recent' = recent
    BY <1>0, <1>2, MeetDoes, DanglingDoes, HookDoes, BundleDoes, CutDoes
  <2>2. QED BY <1>1, <2>1
<1>3. ASSUME NEW u \in Uuid, Render(u) PROVE Spending'
  <2>1. Aside /\ recent' = recent
    BY <1>0, <1>3, RenderDoes
  <2>2. QED BY <1>1, <2>1
<1>4. ASSUME (\E u \in Uuid : BackoffElapses(u)) \/ WindowSlides PROVE Spending'
  BY <1>0, <1>1, <1>4, ClockDoes
<1>5. ASSUME MinuteBegins \/ MinuteEnds PROVE Spending'
  BY <1>0, <1>5, WatchDoes, WatchSpending
<1>6. ASSUME NEW f \in Flush, TimerFires(f) \/ Kick(f) PROVE Spending'
  BY <1>0, <1>6, BeginDoes, BeginSpending
<1>7. ASSUME NEW f \in Flush, NEW p \in Peer, VisitInVain(f, p) \/ VisitAndSend(f, p) PROVE Spending'
  <2>1. /\ recent' = recent /\ minute' = minute
        /\ \A g \in Flush : flush'[g].budget = flush[g].budget /\ flush'[g].young = flush[g].young
    BY <1>7, VainDoes, VisitDoes DEF Alike
  <2>2. QED BY <1>0, <2>1, SameSpending
<1>8. ASSUME NEW f \in Flush, ClosePeer(f) PROVE Spending'
  <2>1. /\ recent' = recent /\ minute' = minute
        /\ \A g \in Flush : flush'[g].budget = flush[g].budget /\ flush'[g].young = flush[g].young
    BY <1>8, CloseDoes DEF Alike
  <2>2. QED BY <1>0, <2>1, SameSpending
<1>9. ASSUME NEW f \in Flush, SendFails(f) \/ EndFlush(f) \/ RecordThrows(f) PROVE Spending'
  <2>1. /\ recent' = recent /\ minute' = minute
        /\ \A g \in Flush \ {f} : flush'[g] = flush[g]
        /\ \/ flush'[f].budget = flush[f].budget /\ flush'[f].young = flush[f].young
           \/ flush'[f].budget = 0 /\ ~flush'[f].young
    BY <1>9, LetGoDoes, RecordDoes
  <2>2. QED BY <1>0, <2>1, SameSpending
<1>10. ASSUME NEW f \in Flush, SendResolves(f) PROVE Spending'
  BY <1>0, <1>10, ResolvesDoes, SendSpending
<1>11. ASSUME Restart PROVE Spending'
  BY <1>0, <1>11, RestartDoes, RestartSpending
<1>12. ASSUME Seed PROVE Spending'
  <2>1. Aside /\ recent' = recent
    BY <1>0, <1>12, SeedDoes
  <2>2. QED BY <1>1, <2>1
<1>13. ASSUME UNCHANGED vars PROVE Spending'
  <2>1. flush' = flush /\ recent' = recent /\ minute' = minute
    BY <1>13 DEF vars, minute
  <2>2. QED BY <1>0, <2>1, SameSpending
<1>14. QED BY <1>2, <1>3, <1>4, <1>5, <1>6, <1>7, <1>8, <1>9, <1>10, <1>11, <1>12, <1>13 DEF Next, Synchronous

(* The requests recorded in a minute, whichever minute is taken, are no    *)
(* more than twice the cap for each flush that can be under way at once:   *)
(* once for the flushes that began in it and once for those that were      *)
(* under way; and once more for every restart in it, which forgets them.   *)
THEOREM BackfillRate == Spec => []RateWithinFlushes
<1>1. Init => Spending
  <2> SUFFICES ASSUME Init PROVE Spending
    OBVIOUS
  <2>1. /\ recent = 0 /\ sent = 0 /\ fresh = 0 /\ restarted = 0
        /\ \A g \in Flush : flush[g].budget = 0 /\ ~flush[g].young
    BY IdleTyped DEF Init
  <2>2. Sums /\ \A g \in Flush : YoungOf(g) = 0 /\ OldOf(g) = 0
    BY <2>1, InitBase, SumsAre DEF Base, YoungOf, OldOf
  <2>3. Young = 0 /\ Old = 0 /\ Cap \in Nat
    BY <2>2 DEF Sums
  <2>4. Allowed = Cap
    BY <2>1, <2>3 DEF Allowed
  <2>5. QED BY <2>1, <2>3, <2>4 DEF Spending
<1>2. Base /\ Spending => RateWithinFlushes
  <2> SUFFICES ASSUME Base, Spending PROVE RateWithinFlushes
    OBVIOUS
  <2>1. Sums /\ Allowed \in Nat /\ (2 + restarted) * Cap = Allowed + Cap
    BY SumsAre, AllowedIs DEF Base
  <2>2. Young \in Nat /\ Old \in Nat /\ Cap \in Nat /\ sent \in Nat /\ fresh \in Nat
    BY <2>1 DEF Sums
  <2>3. sent <= Allowed + Cap
    BY <2>1, <2>2 DEF Spending
  <2>4. (2 + restarted) * MaxFlushes * MaxRequestsPerMinute = (2 + restarted) * Cap
    <3>1. restarted \in Nat /\ MaxFlushes \in Nat /\ MaxRequestsPerMinute \in Nat
      BY <2>1, FlushesAssumption DEF Sums
    <3>2. QED BY <3>1 DEF Cap
  <2>5. QED BY <2>1, <2>3, <2>4 DEF RateWithinFlushes
<1>3. QED BY InitBase, NextBase, SpendingStep, <1>1, <1>2, PTL DEF Spec

-----------------------------------------------------------------------------
(* The attempts at a ref.                                                  *)

Wants(f, v) == IF v \in flush[f].left THEN 1 ELSE 0

Tries(v) == attempts[v] + Wants(1, v) + (IF MaxFlushes = 2 THEN Wants(2, v) ELSE 0)

Trying == \A v \in Uuid : Tries(v) <= MaxAttempts + MaxFlushes - 1

LEMMA TriesAre ==
  ASSUME TypeOK, NEW v \in Uuid
  PROVE  /\ attempts[v] \in Nat /\ MaxAttempts \in Nat /\ MaxAttempts > 0
         /\ \/ MaxFlushes = 1 /\ Flush = {1} /\ Tries(v) = attempts[v] + Wants(1, v)
            \/ MaxFlushes = 2 /\ Flush = {1, 2} /\ Tries(v) = attempts[v] + Wants(1, v) + Wants(2, v)
<1>1. attempts[v] \in Nat /\ MaxAttempts \in Nat /\ MaxAttempts > 0
  BY LimitsAssumption DEF TypeOK
<1>2. Wants(1, v) \in {0, 1} /\ Wants(2, v) \in {0, 1}
  BY DEF Wants
<1>3. \/ MaxFlushes = 1 /\ Flush = {1}
      \/ MaxFlushes = 2 /\ Flush = {1, 2}
  BY FlushesAssumption DEF Flush
<1>4. QED BY <1>1, <1>2, <1>3 DEF Tries

LEMMA NoTrying ==
  ASSUME TypeOK, TypeOK', Trying,
         \A v \in Uuid : attempts'[v] <= attempts[v],
         \A g \in Flush : flush'[g].left \subseteq flush[g].left
  PROVE  Trying'
<1> SUFFICES ASSUME NEW v \in Uuid PROVE Tries(v)' <= MaxAttempts + MaxFlushes - 1
  BY DEF Trying
<1>1. \A g \in Flush : /\ Wants(g, v) \in {0, 1} /\ Wants(g, v)' \in {0, 1}
                       /\ Wants(g, v)' <= Wants(g, v)
  BY DEF Wants
<1>2. attempts[v] \in Nat /\ attempts'[v] \in Nat /\ attempts'[v] <= attempts[v]
  BY DEF TypeOK
<1>3. Tries(v) <= MaxAttempts + MaxFlushes - 1
  BY DEF Trying
<1>4. CASE MaxFlushes = 1
  <2>1. 1 \in Flush /\ Tries(v) = attempts[v] + Wants(1, v) /\ Tries(v)' = attempts'[v] + Wants(1, v)'
    BY <1>1, <1>2, <1>4 DEF Tries, Flush
  <2>2. MaxAttempts \in Nat
    BY LimitsAssumption
  <2>3. QED BY <1>1, <1>2, <1>3, <1>4, <2>1, <2>2
<1>5. CASE MaxFlushes = 2
  <2>1. /\ 1 \in Flush /\ 2 \in Flush
        /\ Tries(v) = attempts[v] + Wants(1, v) + Wants(2, v)
        /\ Tries(v)' = attempts'[v] + Wants(1, v)' + Wants(2, v)'
    BY <1>1, <1>2, <1>5 DEF Tries, Flush
  <2>2. MaxAttempts \in Nat
    BY LimitsAssumption
  <2>3. QED BY <1>1, <1>2, <1>3, <1>5, <2>1, <2>2
<1>6. QED BY <1>4, <1>5, FlushesAssumption

(* What is in hand is below the limit when it is taken up, and every       *)
(* request of it gives it out of hand.                                     *)
LEMMA TryingStep == Base /\ Trying /\ [Next]_vars => Trying'
<1> SUFFICES ASSUME Base, Trying, [Next]_vars PROVE Trying'
  OBVIOUS
<1>0. TypeOK /\ TypeOK'
  BY NextBase DEF Base
<1>1. /\ MaxAttempts \in Nat
      /\ \A v \in Uuid : attempts[v] \in Nat /\ attempts'[v] \in Nat
  BY <1>0, LimitsAssumption DEF TypeOK
<1>2. ASSUME flush' = flush, attempts' = attempts PROVE Trying'
  BY <1>0, <1>1, <1>2, NoTrying
<1>3. ASSUME NEW p \in Peer, NEW u \in Uuid,
             Ingest(p, u) \/ Show(p, u) \/ EnqueueDangling(p, u) \/ HookThrows(p, u)
      PROVE  Trying'
  BY <1>0, <1>2, <1>3, MeetDoes, DanglingDoes, HookDoes DEF Aside
<1>4. ASSUME NEW p \in Peer, NEW u \in Uuid, ReceiveBundle(p, u) \/ BundleThrows(p, u) PROVE Trying'
  <2>1. flush' = flush
    BY <1>0, <1>4, BundleDoes, CutDoes DEF Aside
  <2>2. attempts'[u] \in {attempts[u], 0} /\ \A v \in Uuid \ {u} : attempts'[v] = attempts[v]
    <3>1. CASE ReceiveBundle(p, u)
      <4>1. attempts' = [attempts EXCEPT ![u] = 0]
        BY <1>0, <3>1, BundleDoes
      <4>2. QED BY <1>0, <4>1 DEF TypeOK
    <3>2. CASE BundleThrows(p, u)
      BY <1>0, <3>2, CutDoes
    <3>3. QED BY <1>4, <3>1, <3>2
  <2>3. \A v \in Uuid : attempts'[v] <= attempts[v]
    BY <1>1, <2>2
  <2>4. QED BY <1>0, <2>1, <2>3, NoTrying
<1>5. ASSUME NEW u \in Uuid, Render(u) PROVE Trying'
  BY <1>0, <1>2, <1>5, RenderDoes DEF Aside
<1>6. ASSUME (\E u \in Uuid : BackoffElapses(u)) \/ WindowSlides \/ MinuteBegins \/ MinuteEnds PROVE Trying'
  <2>1. attempts' = attempts /\ \A g \in Flush : flush'[g].left = flush[g].left
    BY <1>0, <1>6, ClockDoes, WatchDoes DEF Aside
  <2>2. QED BY <1>0, <1>1, <2>1, NoTrying
<1>7. ASSUME NEW f \in Flush, TimerFires(f) \/ Kick(f) \/ SendFails(f) \/ EndFlush(f) PROVE Trying'
  <2>1. /\ attempts' = attempts /\ flush'[f].left = {}
        /\ \A g \in Flush \ {f} : flush'[g] = flush[g]
    BY <1>7, BeginDoes, LetGoDoes
  <2>2. QED BY <1>0, <1>1, <2>1, NoTrying
<1>8. ASSUME NEW f \in Flush, (\E p \in Peer : VisitInVain(f, p)) \/ ClosePeer(f) PROVE Trying'
  <2>1. attempts' = attempts /\ \A g \in Flush : flush'[g].left = flush[g].left
    BY <1>8, VainDoes, CloseDoes DEF Alike
  <2>2. QED BY <1>0, <1>1, <2>1, NoTrying
<1>9. ASSUME NEW f \in Flush, NEW p \in Peer, VisitAndSend(f, p) PROVE Trying'
  <2> SUFFICES ASSUME NEW v \in Uuid PROVE Tries(v)' <= MaxAttempts + MaxFlushes - 1
    BY DEF Trying
  <2>1. /\ attempts' = attempts /\ flush'[f].left = EligibleOf(p)
        /\ \A g \in Flush \ {f} : flush'[g] = flush[g]
    BY <1>9, VisitDoes
  <2>2. \A g \in Flush : Wants(g, v) \in {0, 1} /\ Wants(g, v)' \in {0, 1}
    BY DEF Wants
  <2>3. \A g \in Flush \ {f} : Wants(g, v)' = Wants(g, v)
    BY <2>1 DEF Wants
  <2>4. Tries(v) <= MaxAttempts + MaxFlushes - 1
    BY DEF Trying
  <2>5. v \in EligibleOf(p) => attempts[v] + 1 <= MaxAttempts
    BY <1>1 DEF EligibleOf, isEligible, Exhausted
  <2>6. v \notin EligibleOf(p) => Wants(f, v)' = 0
    BY <2>1 DEF Wants
  <2>7. attempts'[v] = attempts[v]
    BY <2>1
  <2>8. CASE MaxFlushes = 1
    <3>1. /\ f = 1 /\ 1 \in Flush /\ Tries(v) = attempts[v] + Wants(1, v)
          /\ Tries(v)' = attempts'[v] + Wants(1, v)'
      BY <1>1, <2>2, <2>8 DEF Tries, Flush
    <3>2. QED BY <1>1, <2>2, <2>4, <2>5, <2>6, <2>7, <2>8, <3>1
  <2>9. CASE MaxFlushes = 2
    <3>1. /\ f \in {1, 2} /\ 1 \in Flush /\ 2 \in Flush
          /\ Tries(v) = attempts[v] + Wants(1, v) + Wants(2, v)
          /\ Tries(v)' = attempts'[v] + Wants(1, v)' + Wants(2, v)'
      BY <1>1, <2>2, <2>9 DEF Tries, Flush
    <3>2. QED BY <1>1, <2>2, <2>3, <2>4, <2>5, <2>6, <2>7, <2>9, <3>1
  <2>10. QED BY <2>8, <2>9, FlushesAssumption
<1>10. ASSUME NEW f \in Flush, SendResolves(f) \/ RecordThrows(f) PROVE Trying'
  <2> SUFFICES ASSUME NEW v \in Uuid PROVE Tries(v)' <= MaxAttempts + MaxFlushes - 1
    BY DEF Trying
  <2>1. PICK kept \in SUBSET flush[f].left :
          /\ attempts' = [u \in Uuid |-> IF u \in kept THEN attempts[u] + 1 ELSE attempts[u]]
          /\ flush'[f].left \subseteq flush[f].left \ kept
          /\ \A g \in Flush \ {f} : flush'[g] = flush[g]
    <3>1. CASE SendResolves(f)
      <4>1. /\ attempts' = [u \in Uuid |-> IF u \in flush[f].batch THEN attempts[u] + 1 ELSE attempts[u]]
            /\ flush'[f].left \subseteq flush[f].left \ flush[f].batch
            /\ \A g \in Flush \ {f} : flush'[g] = flush[g]
            /\ flush[f].batch \in SUBSET flush[f].left
        BY <3>1, ResolvesDoes
      <4>2. QED BY <4>1
    <3>2. CASE RecordThrows(f)
      <4>1. /\ \E kept \in SUBSET flush[f].batch :
                 attempts' = [u \in Uuid |-> IF u \in kept THEN attempts[u] + 1 ELSE attempts[u]]
            /\ flush'[f].left = {} /\ flush[f].batch \subseteq flush[f].left
            /\ \A g \in Flush \ {f} : flush'[g] = flush[g]
        BY <3>2, RecordDoes
      <4>2. QED BY <4>1
    <3>3. QED BY <1>10, <3>1, <3>2
  <2>2. \A g \in Flush : Wants(g, v) \in {0, 1} /\ Wants(g, v)' \in {0, 1}
    BY DEF Wants
  <2>3. \A g \in Flush \ {f} : Wants(g, v)' = Wants(g, v)
    BY <2>1 DEF Wants
  <2>4. Tries(v) <= MaxAttempts + MaxFlushes - 1
    BY DEF Trying
  <2>5. \/ attempts'[v] = attempts[v] + 1 /\ Wants(f, v) = 1 /\ Wants(f, v)' = 0
        \/ attempts'[v] = attempts[v] /\ Wants(f, v)' <= Wants(f, v)
    BY <2>1 DEF Wants
  <2>6. CASE MaxFlushes = 1
    <3>1. /\ f = 1 /\ 1 \in Flush /\ Tries(v) = attempts[v] + Wants(1, v)
          /\ Tries(v)' = attempts'[v] + Wants(1, v)'
      BY <1>1, <2>2, <2>6 DEF Tries, Flush
    <3>2. QED BY <1>1, <2>2, <2>4, <2>5, <2>6, <3>1
  <2>7. CASE MaxFlushes = 2
    <3>1. /\ f \in {1, 2} /\ 1 \in Flush /\ 2 \in Flush
          /\ Tries(v) = attempts[v] + Wants(1, v) + Wants(2, v)
          /\ Tries(v)' = attempts'[v] + Wants(1, v)' + Wants(2, v)'
      BY <1>1, <2>2, <2>7 DEF Tries, Flush
    <3>2. QED BY <1>1, <2>2, <2>3, <2>4, <2>5, <2>7, <3>1
  <2>8. QED BY <2>6, <2>7, FlushesAssumption
<1>11. ASSUME Restart PROVE Trying'
  <2>1. attempts' = attempts /\ \A g \in Flush : flush'[g].left = {}
    BY <1>0, <1>11, RestartDoes
  <2>2. QED BY <1>0, <1>1, <2>1, NoTrying
<1>12. ASSUME Seed PROVE Trying'
  BY <1>0, <1>2, <1>12, SeedDoes DEF Aside
<1>13. ASSUME UNCHANGED vars PROVE Trying'
  BY <1>2, <1>13 DEF vars
<1>14. QED BY <1>3, <1>4, <1>5, <1>6, <1>7, <1>8, <1>9, <1>10, <1>11, <1>12, <1>13 DEF Next, Synchronous

(* No more than MaxAttempts requests are recorded of a ref, across         *)
(* restarts, but for one more when two flushes overlap.                    *)
THEOREM BackfillAttempts == Spec => []AttemptsWithinFlushes
<1>1. Init => Trying
  <2> SUFFICES ASSUME Init, NEW v \in Uuid PROVE Tries(v) <= MaxAttempts + MaxFlushes - 1
    BY DEF Trying
  <2>1. attempts[v] = 0 /\ \A g \in Flush : flush[g].left = {}
    BY IdleTyped DEF Init
  <2>2. QED BY <2>1, FlushesAssumption, LimitsAssumption DEF Tries, Wants, Flush
<1>2. Base /\ Trying => AttemptsWithinFlushes
  <2> SUFFICES ASSUME Base, Trying, NEW v \in Uuid PROVE attempts[v] <= MaxAttempts + MaxFlushes - 1
    BY DEF AttemptsWithinFlushes
  <2>1. TypeOK
    BY DEF Base
  <2>2. Tries(v) <= MaxAttempts + MaxFlushes - 1
    BY DEF Trying
  <2>3. Wants(1, v) \in {0, 1} /\ Wants(2, v) \in {0, 1}
    BY DEF Wants
  <2>4. QED BY <2>1, <2>2, <2>3, TriesAre
<1>3. QED BY InitBase, NextBase, TryingStep, <1>1, <1>2, PTL DEF Spec

-----------------------------------------------------------------------------
(* Who a ref that was asked for is by.                                     *)

Asked == inFlight \union Queued \union UNION {flush[f].left : f \in Flush}

Attributed == Asked \ (Resolved \union excused) \subseteq known

\* What resolves, goes on resolving or is noted.
Noted == excused \subseteq excused' /\ Resolved \subseteq Resolved' \union excused'

LEMMA SameNoted == ASSUME UNCHANGED <<local, held>>, excused \subseteq excused' PROVE Noted /\ Resolved' = Resolved
  BY DEF Noted, Resolved, HeldUuids, LocalUuids

LEMMA QueuedIs == \A p \in DOMAIN pending : pending[p] \subseteq Queued
  BY DEF Queued

LEMMA LeftIsAsked ==
  /\ inFlight \subseteq Asked /\ Queued \subseteq Asked
  /\ \A g \in Flush : flush[g].left \subseteq Asked
  BY DEF Asked

(* Nothing is asked that was not, but with its author. *)
LEMMA KeepsAttributed ==
  ASSUME Attributed, Noted, known \ Resolved' \subseteq known',
         inFlight' \subseteq Asked, \A g \in Flush : flush'[g].left \subseteq Asked,
         \A q \in DOMAIN pending' : \A t \in pending'[q] : t \in known' \/ t \in Asked
  PROVE  Attributed'
<1> SUFFICES ASSUME NEW t \in Asked', t \notin Resolved', t \notin excused'
             PROVE  t \in known'
  BY DEF Attributed
<1>1. t \in known' \/ t \in Asked
  BY DEF Asked, Queued
<1>2. t \in Asked => t \in known
  BY DEF Attributed, Noted
<1>3. QED BY <1>1, <1>2

LEMMA AttributedStep == Base /\ Attributed /\ [Next]_vars => Attributed'
<1> SUFFICES ASSUME Base, Attributed, [Next]_vars PROVE Attributed'
  OBVIOUS
<1>0. TypeOK /\ TypeOK'
  BY NextBase DEF Base
<1> USE LeftIsAsked, QueuedIs
<1>1. ASSUME NEW p \in Peer, NEW u \in Uuid,
             Ingest(p, u) \/ Show(p, u) \/ EnqueueDangling(p, u) \/ HookThrows(p, u)
      PROVE  Attributed'
  <2>1. CASE Ingest(p, u) \/ Show(p, u) \/ HookThrows(p, u)
    <3>1. /\ flush' = flush /\ UNCHANGED <<pending, inFlight, known>> /\ excused \subseteq excused'
          /\ Resolved \subseteq Resolved'
      BY <1>0, <2>1, MeetDoes, HookDoes DEF Aside, Resolved, HeldUuids, LocalUuids
    <3>2. QED BY <3>1, KeepsAttributed DEF Noted
  <2>2. CASE EnqueueDangling(p, u)
    <3>1. /\ flush' = flush /\ UNCHANGED <<local, held, inFlight, excused>> /\ known \subseteq known'
          /\ \A q \in DOMAIN pending' : \A t \in pending'[q] :
               t \in known' \/ (q \in DOMAIN pending /\ t \in pending[q])
      BY <1>0, <2>2, DanglingDoes DEF Aside
    <3>2. QED BY <3>1, SameNoted, KeepsAttributed
  <2>3. QED BY <1>1, <2>1, <2>2
<1>2. ASSUME NEW p \in Peer, NEW u \in Uuid, ReceiveBundle(p, u) \/ BundleThrows(p, u) PROVE Attributed'
  <2>1. /\ flush' = flush /\ inFlight' \subseteq inFlight /\ known \ {u} \subseteq known' /\ u \in Resolved'
        /\ Resolved \subseteq Resolved' \union excused' /\ excused \subseteq excused'
        /\ \A q \in DOMAIN pending' : \A t \in pending'[q] :
             t \in known' \/ (q \in DOMAIN pending /\ t \in pending[q])
    BY <1>0, <1>2, BundleDoes, CutDoes DEF Aside
  <2>2. QED BY <2>1, KeepsAttributed DEF Noted
<1>3. ASSUME NEW u \in Uuid, Render(u) PROVE Attributed'
  <2>1. /\ flush' = flush /\ UNCHANGED <<pending, inFlight, known>>
        /\ Resolved \subseteq Resolved' \union excused' /\ excused \subseteq excused'
    BY <1>0, <1>3, RenderDoes DEF Aside
  <2>2. QED BY <2>1, KeepsAttributed DEF Noted
<1>4. ASSUME (\E u \in Uuid : BackoffElapses(u)) \/ WindowSlides \/ MinuteBegins \/ MinuteEnds
      PROVE  Attributed'
  <2>1. /\ UNCHANGED <<local, held, pending, inFlight, known, excused>>
        /\ \A g \in Flush : flush'[g].left = flush[g].left
    BY <1>0, <1>4, ClockDoes, WatchDoes DEF Aside
  <2>2. QED BY <2>1, SameNoted, KeepsAttributed
<1>5. ASSUME NEW f \in Flush, TimerFires(f) \/ Kick(f) \/ SendFails(f) \/ EndFlush(f) PROVE Attributed'
  <2>1. /\ UNCHANGED <<local, held, pending, inFlight, known, excused>>
        /\ flush'[f].left = {} /\ \A g \in Flush \ {f} : flush'[g] = flush[g]
    BY <1>5, BeginDoes, LetGoDoes
  <2>2. QED BY <2>1, SameNoted, KeepsAttributed
<1>6. ASSUME NEW f \in Flush, (\E p \in Peer : VisitInVain(f, p)) \/ ClosePeer(f) PROVE Attributed'
  <2>1. /\ UNCHANGED <<local, held, inFlight, known>> /\ excused \subseteq excused'
        /\ DOMAIN pending' \subseteq DOMAIN pending
        /\ \A q \in DOMAIN pending' : pending'[q] = pending[q]
        /\ \A g \in Flush : flush'[g].left = flush[g].left
    BY <1>6, VainDoes, CloseDoes DEF Alike
  <2>2. QED BY <2>1, SameNoted, KeepsAttributed
<1>7. ASSUME NEW f \in Flush, NEW p \in Peer, VisitAndSend(f, p) PROVE Attributed'
  <2>1. /\ UNCHANGED <<local, held, pending, inFlight, known, excused>>
        /\ p \in DOMAIN pending /\ flush'[f].left = EligibleOf(p)
        /\ \A g \in Flush \ {f} : flush'[g] = flush[g]
    BY <1>7, VisitDoes
  <2>2. flush'[f].left \subseteq Asked
    BY <2>1 DEF EligibleOf
  <2>3. QED BY <2>1, <2>2, SameNoted, KeepsAttributed
<1>8. ASSUME NEW f \in Flush, SendResolves(f) \/ RecordThrows(f) PROVE Attributed'
  <2>1. /\ UNCHANGED <<local, held, known, excused>>
        /\ flush'[f].left \subseteq flush[f].left /\ flush[f].batch \subseteq flush[f].left
        /\ \A g \in Flush \ {f} : flush'[g] = flush[g]
        /\ inFlight' \subseteq inFlight \union flush[f].batch
        /\ DOMAIN pending' = DOMAIN pending
        /\ \A q \in DOMAIN pending : pending'[q] \subseteq pending[q]
    BY <1>8, ResolvesDoes, RecordDoes
  <2>2. \A g \in Flush : flush'[g].left \subseteq Asked
    BY <2>1
  <2>3. inFlight' \subseteq Asked
    BY <2>1
  <2>4. \A q \in DOMAIN pending' : pending'[q] \subseteq Asked
    BY <2>1
  <2>5. QED BY <2>1, <2>2, <2>3, <2>4, SameNoted, KeepsAttributed
<1>9. ASSUME Restart PROVE Attributed'
  <2>1. inFlight' = {} /\ DOMAIN pending' = {} /\ \A g \in Flush : flush'[g].left = {}
    BY <1>0, <1>9, RestartDoes
  <2>2. Asked' = {}
    BY <2>1 DEF Asked, Queued
  <2>3. QED BY <2>2 DEF Attributed
<1>10. ASSUME Seed PROVE Attributed'
  <2>1. /\ flush' = flush /\ UNCHANGED <<local, held, inFlight, excused>> /\ known \subseteq known'
        /\ \A q \in DOMAIN pending' : \A t \in pending'[q] :
             t \in known' \/ (q \in DOMAIN pending /\ t \in pending[q])
    BY <1>0, <1>10, SeedDoes DEF Aside
  <2>2. QED BY <2>1, SameNoted, KeepsAttributed
<1>11. ASSUME UNCHANGED vars PROVE Attributed'
  <2>1. flush' = flush /\ UNCHANGED <<local, held, pending, inFlight, known, excused>>
    BY <1>11 DEF vars
  <2>2. QED BY <2>1, SameNoted, KeepsAttributed
<1>12. QED BY <1>1, <1>2, <1>3, <1>4, <1>5, <1>6, <1>7, <1>8, <1>9, <1>10, <1>11 DEF Next, Synchronous

(* Whatever is queued or in flight, and still does not resolve, has an     *)
(* author on record, however replies, evictions and flushes interleave.    *)
THEOREM BackfillAttribution == Spec => []AskedIsAttributed
<1>1. Init => Attributed
  <2> SUFFICES ASSUME Init PROVE Asked = {}
    BY DEF Attributed
  <2>1. inFlight = {} /\ DOMAIN pending = {} /\ \A g \in Flush : flush[g].left = {}
    BY IdleTyped DEF Init
  <2>2. QED BY <2>1 DEF Asked, Queued
<1>2. Attributed => AskedIsAttributed
  BY DEF Attributed, Asked, AskedIsAttributed
<1>3. QED BY InitBase, NextBase, AttributedStep, <1>1, <1>2, PTL DEF Spec

-----------------------------------------------------------------------------
(* The refs of what we have.                                               *)

Followed(by) ==
  \A t \in Uuid \ Resolved, p \in Peer :
    (\E v \in Uuid : t \in RefOf[v] /\ by[v] = p) => t \in excused \/ Chased(t, p)

Remembered == Followed(local) /\ (seeded => Followed(held))

\* A ref that is chased goes on being chased, unless it resolves or is noted.
Kept ==
  /\ Noted
  /\ \A t \in Uuid \ Resolved', p \in Peer : Chased(t, p) => t \in excused' \/ Chased(t, p)'

(* No queue, hook, request or count is lost but those of refs noted or     *)
(* chased.                                                                 *)
LEMMA KeptWhen ==
  ASSUME TypeOK, Noted,
         inFlight \ Resolved' \subseteq inFlight',
         \A q \in DOMAIN pending : \A t \in pending[q] :
           \/ q \in DOMAIN pending' /\ t \in pending'[q]
           \/ t \in inFlight' \/ t \in excused' \/ Exhausted(attempts, t),
         \A t \in Uuid \ Resolved' : Exhausted(attempts, t) => Exhausted(attempts', t),
         \A p \in Peer : rounds[p] >= MaxRounds => rounds'[p] >= MaxRounds,
         \A h \in hooks : \/ h \in hooks'
                         \/ \A t \in RefOf[h[2]] \ Resolved' : t \in excused' \/ Chased(t, h[1])'
  PROVE  Kept
<1> SUFFICES ASSUME NEW t \in Uuid \ Resolved', NEW p \in Peer, Chased(t, p)
             PROVE  t \in excused' \/ Chased(t, p)'
  BY DEF Kept
<1>1. CASE t \in inFlight \/ t \in Queued \/ Exhausted(attempts, t) \/ rounds[p] >= MaxRounds
  <2>1. t \in Queued => t \in Queued' \/ t \in inFlight' \/ t \in excused' \/ Exhausted(attempts, t)
    BY DEF Queued
  <2>2. QED BY <1>1, <2>1 DEF Chased
<1>2. CASE \E h \in hooks : h[1] = p /\ t \in RefOf[h[2]]
  <2>1. PICK h \in hooks : h[1] = p /\ t \in RefOf[h[2]]
    BY <1>2
  <2>2. CASE h \in hooks'
    BY <2>1, <2>2 DEF Chased
  <2>3. CASE \A x \in RefOf[h[2]] \ Resolved' : x \in excused' \/ Chased(x, h[1])'
    BY <2>1, <2>3
  <2>4. QED BY <2>2, <2>3
<1>3. QED BY <1>1, <1>2 DEF Chased

LEMMA LocalFollowed ==
  ASSUME Kept, Followed(local),
         \A v \in Uuid, p \in Peer : local'[v] = p =>
           local[v] = p \/ \A t \in RefOf[v] \ Resolved' : t \in excused' \/ Chased(t, p)'
  PROVE  Followed(local)'
<1> SUFFICES ASSUME NEW t \in Uuid \ Resolved', NEW p \in Peer,
                    NEW v \in Uuid, t \in RefOf[v], local'[v] = p
             PROVE  t \in excused' \/ Chased(t, p)'
  BY DEF Followed
<1>1. CASE local[v] = p
  <2>1. t \in Resolved => t \in excused'
    BY DEF Kept, Noted
  <2>2. t \notin Resolved => t \in excused \/ Chased(t, p)
    BY <1>1 DEF Followed
  <2>3. QED BY <2>1, <2>2 DEF Kept, Noted
<1>2. QED BY <1>1

LEMMA HeldFollowed ==
  ASSUME Kept, Followed(held),
         \A v \in Uuid, p \in Peer : held'[v] = p =>
           held[v] = p \/ \A t \in RefOf[v] \ Resolved' : t \in excused' \/ Chased(t, p)'
  PROVE  Followed(held)'
<1> SUFFICES ASSUME NEW t \in Uuid \ Resolved', NEW p \in Peer,
                    NEW v \in Uuid, t \in RefOf[v], held'[v] = p
             PROVE  t \in excused' \/ Chased(t, p)'
  BY DEF Followed
<1>1. CASE held[v] = p
  <2>1. t \in Resolved => t \in excused'
    BY DEF Kept, Noted
  <2>2. t \notin Resolved => t \in excused \/ Chased(t, p)
    BY <1>1 DEF Followed
  <2>3. QED BY <2>1, <2>2 DEF Kept, Noted
<1>2. QED BY <1>1

LEMMA Unmoved ==
  ASSUME Remembered, Kept, UNCHANGED <<local, held, seeded>>
  PROVE  Remembered'
  BY LocalFollowed, HeldFollowed DEF Remembered

LEMMA RememberedStep == Base /\ Remembered /\ [Next]_vars => Remembered'
<1> SUFFICES ASSUME Base, Remembered, [Next]_vars PROVE Remembered'
  OBVIOUS
<1>0. TypeOK /\ TypeOK'
  BY NextBase DEF Base
<1>1. ASSUME NEW p \in Peer, NEW u \in Uuid, Ingest(p, u) \/ Show(p, u) PROVE Remembered'
  <2>1. /\ UNCHANGED <<held, attempts, inFlight, pending, rounds, seeded>>
        /\ local[u] = Nobody /\ local' = [local EXCEPT ![u] = p]
        /\ Resolved \subseteq Resolved' /\ hooks \subseteq hooks' /\ excused \subseteq excused'
        /\ <<p, u>> \in hooks' \/ RefOf[u] \ Resolved \subseteq excused'
    BY <1>0, <1>1, MeetDoes DEF Aside
  <2>2. local'[u] = p /\ \A v \in Uuid \ {u} : local'[v] = local[v]
    BY <1>0, <2>1 DEF TypeOK
  <2>3. Noted
    BY <2>1 DEF Noted
  <2>4. Kept
    BY <1>0, <2>1, <2>3, KeptWhen
  <2>5. \A t \in RefOf[u] \ Resolved' : t \in excused' \/ Chased(t, p)'
    <3>1. CASE RefOf[u] \ Resolved \subseteq excused'
      BY <2>1, <3>1
    <3>2. CASE <<p, u>> \in hooks'
      <4>1. <<p, u>>[1] = p /\ <<p, u>>[2] = u
        OBVIOUS
      <4>2. QED BY <3>2, <4>1 DEF Chased
    <3>3. QED BY <2>1, <3>1, <3>2
  <2>6. QED BY <2>1, <2>2, <2>4, <2>5, LocalFollowed, HeldFollowed DEF Remembered
<1>14. ASSUME NEW p \in Peer, NEW u \in Uuid, EnqueueDangling(p, u) \/ HookThrows(p, u) PROVE Remembered'
  <2>1. /\ UNCHANGED <<local, held, attempts, inFlight, rounds, seeded>>
        /\ hooks' = hooks \ {<<p, u>>} /\ excused \subseteq excused'
        /\ DOMAIN pending \subseteq DOMAIN pending'
        /\ \A q \in DOMAIN pending : pending[q] \subseteq pending'[q]
        /\ \A t \in RefOf[u] \ Resolved :
             \/ t \in excused'
             \/ p \in DOMAIN pending' /\ t \in pending'[p]
             \/ t \in inFlight \/ Exhausted(attempts, t) \/ rounds[p] >= MaxRounds
    BY <1>0, <1>14, DanglingDoes, HookDoes DEF Aside
  <2>2. Noted /\ Resolved' = Resolved
    BY <2>1, SameNoted
  <2>3. \A t \in RefOf[u] \ Resolved' : t \in excused' \/ Chased(t, p)'
    BY <2>1, <2>2 DEF Chased, Queued
  <2>4. \A h \in hooks : \/ h \in hooks'
                        \/ \A t \in RefOf[h[2]] \ Resolved' : t \in excused' \/ Chased(t, h[1])'
    <3> SUFFICES ASSUME NEW h \in hooks, h \notin hooks'
                 PROVE  \A t \in RefOf[h[2]] \ Resolved' : t \in excused' \/ Chased(t, h[1])'
      OBVIOUS
    <3>1. h = <<p, u>>
      BY <2>1
    <3>2. h[1] = p /\ h[2] = u
      BY <3>1
    <3>3. QED BY <2>3, <3>2
  <2>5. Kept
    BY <1>0, <2>1, <2>2, <2>4, KeptWhen
  <2>6. QED BY <2>1, <2>5, Unmoved
<1>2. ASSUME NEW p \in Peer, NEW u \in Uuid, ReceiveBundle(p, u) PROVE Remembered'
  <2>1. /\ UNCHANGED <<local, seeded, rounds, hooks>>
        /\ inFlight' = inFlight \ {u} /\ attempts' = [attempts EXCEPT ![u] = 0] /\ u \in Resolved'
        /\ Noted
        /\ \A v \in Uuid : v # u => held'[v] \in {held[v], Nobody}
        /\ \/ held'[u] \in {held[u], Nobody}
           \/ /\ held'[u] = p
              /\ \A t \in RefOf[u] \ Resolved' :
                   \/ p \in DOMAIN pending' /\ t \in pending'[p]
                   \/ t \in inFlight' \/ Exhausted(attempts', t) \/ rounds[p] >= MaxRounds
        /\ DOMAIN pending \subseteq DOMAIN pending'
        /\ \A q \in DOMAIN pending : pending[q] \subseteq pending'[q]
    BY <1>0, <1>2, BundleDoes DEF Aside, Noted
  <2>2. \A t \in Uuid \ Resolved' : attempts'[t] = attempts[t]
    BY <1>0, <2>1 DEF TypeOK
  <2>3. Kept
    BY <1>0, <2>1, <2>2, KeptWhen DEF Exhausted
  <2>4. \/ held'[u] \in {held[u], Nobody}
        \/ held'[u] = p /\ \A t \in RefOf[u] \ Resolved' : Chased(t, p)'
    BY <2>1 DEF Chased, Queued
  <2>5. \A v \in Uuid, q \in Peer : held'[v] = q =>
          held[v] = q \/ \A t \in RefOf[v] \ Resolved' : t \in excused' \/ Chased(t, q)'
    BY <2>1, <2>4, NobodyAssumption
  <2>6. QED BY <2>1, <2>3, <2>5, LocalFollowed, HeldFollowed DEF Remembered
<1>15. ASSUME NEW p \in Peer, NEW u \in Uuid, BundleThrows(p, u) PROVE Remembered'
  <2>1. /\ UNCHANGED <<local, pending, seeded, rounds, hooks>>
        /\ inFlight \ {u} \subseteq inFlight' /\ u \in Resolved' /\ Noted
        /\ \A v \in Uuid : v # u => attempts'[v] = attempts[v]
        /\ \A v \in Uuid : v # u => held'[v] \in {held[v], Nobody}
        /\ \/ held'[u] \in {held[u], Nobody}
           \/ held'[u] = p /\ RefOf[u] \ Resolved' \subseteq excused'
    BY <1>0, <1>15, CutDoes DEF Aside, Noted
  <2>2. Kept
    <3>1. \A t \in Uuid \ Resolved' : Exhausted(attempts, t) => Exhausted(attempts', t)
      BY <2>1 DEF Exhausted
    <3>2. QED BY <1>0, <2>1, <3>1, KeptWhen
  <2>3. \A v \in Uuid, q \in Peer : held'[v] = q =>
          held[v] = q \/ \A t \in RefOf[v] \ Resolved' : t \in excused' \/ Chased(t, q)'
    BY <2>1, NobodyAssumption
  <2>4. QED BY <2>1, <2>2, <2>3, LocalFollowed, HeldFollowed DEF Remembered
<1>3. ASSUME NEW u \in Uuid, Render(u) PROVE Remembered'
  <2>1. /\ UNCHANGED <<local, pending, inFlight, attempts, rounds, seeded, hooks>> /\ Noted
        /\ \A v \in Uuid : held'[v] \in {held[v], Nobody}
    BY <1>0, <1>3, RenderDoes DEF Aside, Noted
  <2>2. Kept
    BY <1>0, <2>1, KeptWhen
  <2>3. QED BY <2>1, <2>2, LocalFollowed, HeldFollowed, NobodyAssumption DEF Remembered
<1>4. ASSUME (\E u \in Uuid : BackoffElapses(u)) \/ WindowSlides \/ MinuteBegins \/ MinuteEnds
      PROVE  Remembered'
  <2>1. UNCHANGED <<local, held, pending, inFlight, attempts, rounds, seeded, excused, hooks>>
    BY <1>0, <1>4, ClockDoes, WatchDoes DEF Aside
  <2>2. QED BY <1>0, <2>1, SameNoted, KeptWhen, Unmoved
<1>5. ASSUME NEW f \in Flush, TimerFires(f) \/ Kick(f) \/ SendFails(f) \/ EndFlush(f) PROVE Remembered'
  <2>1. UNCHANGED <<local, held, pending, inFlight, attempts, rounds, seeded, excused, hooks>>
    BY <1>5, BeginDoes, LetGoDoes
  <2>2. QED BY <1>0, <2>1, SameNoted, KeptWhen, Unmoved
<1>6. ASSUME NEW f \in Flush, NEW p \in Peer, VisitInVain(f, p) PROVE Remembered'
  <2>1. /\ UNCHANGED <<local, held, inFlight, attempts, rounds, seeded, excused, hooks>>
        /\ \A q \in DOMAIN pending' : pending'[q] = pending[q]
        /\ \A q \in DOMAIN pending \ DOMAIN pending' : \A u \in pending[q] : Exhausted(attempts, u)
    BY <1>6, VainDoes
  <2>2. QED BY <1>0, <2>1, SameNoted, KeptWhen, Unmoved
<1>7. ASSUME NEW f \in Flush, NEW p \in Peer, VisitAndSend(f, p) PROVE Remembered'
  <2>1. /\ UNCHANGED <<local, held, pending, inFlight, attempts, seeded, excused, hooks>>
        /\ \A q \in Peer : rounds[q] >= MaxRounds => rounds'[q] >= MaxRounds
    BY <1>7, VisitDoes
  <2>2. QED BY <1>0, <2>1, SameNoted, KeptWhen, Unmoved
<1>8. ASSUME NEW f \in Flush, SendResolves(f) \/ RecordThrows(f) PROVE Remembered'
  <2>1. PICK done \in SUBSET flush[f].batch, kept \in SUBSET flush[f].batch :
          /\ inFlight' = inFlight \union done
          /\ attempts' = [u \in Uuid |-> IF u \in kept THEN attempts[u] + 1 ELSE attempts[u]]
          /\ \A q \in DOMAIN pending : pending[q] \subseteq pending'[q] \union done
    <3>1. CASE SendResolves(f)
      <4>1. /\ inFlight' = inFlight \union flush[f].batch
            /\ attempts' = [u \in Uuid |-> IF u \in flush[f].batch THEN attempts[u] + 1 ELSE attempts[u]]
            /\ \A q \in DOMAIN pending : pending[q] \subseteq pending'[q] \union flush[f].batch
        BY <3>1, ResolvesDoes
      <4>2. flush[f].batch \in SUBSET flush[f].batch
        OBVIOUS
      <4>3. QED BY <4>1, <4>2
    <3>2. CASE RecordThrows(f)
      BY <3>2, RecordDoes
    <3>3. QED BY <1>8, <3>1, <3>2
  <2>2. UNCHANGED <<local, held, rounds, seeded, excused, hooks>> /\ DOMAIN pending' = DOMAIN pending
    BY <1>8, ResolvesDoes, RecordDoes
  <2>3. \A t \in Uuid : Exhausted(attempts, t) => Exhausted(attempts', t)
    <3>1. MaxAttempts \in Nat /\ \A t \in Uuid : attempts[t] \in Nat
      BY <1>0, LimitsAssumption DEF TypeOK
    <3>2. QED BY <2>1, <3>1 DEF Exhausted
  <2>4. QED BY <1>0, <2>1, <2>2, <2>3, SameNoted, KeptWhen, Unmoved
<1>9. ASSUME NEW f \in Flush, ClosePeer(f) PROVE Remembered'
  <2>1. /\ UNCHANGED <<local, held, inFlight, attempts, rounds, seeded, hooks>>
        /\ \A q \in DOMAIN pending' : pending'[q] = pending[q]
        /\ \A q \in DOMAIN pending \ DOMAIN pending' : pending[q] \subseteq excused'
        /\ excused \subseteq excused'
    BY <1>9, CloseDoes
  <2>2. QED BY <1>0, <2>1, SameNoted, KeptWhen, Unmoved
<1>10. ASSUME Restart PROVE Remembered'
  <2>1. /\ seeded' = FALSE /\ UNCHANGED <<local, held>> /\ excused \subseteq excused'
        /\ \A u \in LocalUuids : RefOf[u] \ Resolved \subseteq excused'
    BY <1>0, <1>10, RestartDoes
  <2>2. Resolved' = Resolved
    BY <2>1, SameNoted
  <2>3. Followed(local)'
    BY <2>1, <2>2, NobodyAssumption DEF Followed, LocalUuids
  <2>4. QED BY <2>1, <2>3 DEF Remembered
<1>11. ASSUME Seed PROVE Remembered'
  <2>1. /\ UNCHANGED <<local, held, attempts, inFlight, excused, rounds, hooks>>
        /\ DOMAIN pending \subseteq DOMAIN pending'
        /\ \A q \in DOMAIN pending : pending[q] \subseteq pending'[q]
        /\ \A u \in Uuid, p \in Peer : held[u] = p =>
             \A t \in RefOf[u] \ Resolved :
               \/ p \in DOMAIN pending' /\ t \in pending'[p]
               \/ t \in inFlight \/ Exhausted(attempts, t) \/ rounds[p] >= MaxRounds
    BY <1>0, <1>11, SeedDoes DEF Aside
  <2>2. Kept /\ Resolved' = Resolved
    BY <1>0, <2>1, SameNoted, KeptWhen
  <2>3. \A u \in Uuid, p \in Peer : held[u] = p => \A t \in RefOf[u] \ Resolved : Chased(t, p)'
    BY <2>1 DEF Chased, Queued
  <2>4. Followed(held)'
    BY <2>1, <2>2, <2>3 DEF Followed
  <2>5. QED BY <2>1, <2>2, <2>4, LocalFollowed DEF Remembered
<1>12. ASSUME UNCHANGED vars PROVE Remembered'
  <2>1. UNCHANGED <<local, held, pending, inFlight, attempts, rounds, seeded, excused, hooks>>
    BY <1>12 DEF vars
  <2>2. QED BY <1>0, <2>1, SameNoted, KeptWhen, Unmoved
<1>16. QED BY <1>1, <1>2, <1>3, <1>4, <1>5, <1>6, <1>7, <1>8, <1>9, <1>10, <1>11, <1>12, <1>14, <1>15
          DEF Next, Synchronous

(* A ref that dangles from something we have is chased, or about to be by  *)
(* a hook, or given up, or was lost in one of the ways the code loses      *)
(* them, which NothingElseForgotten names.                                 *)
THEOREM BackfillForgetsNothingElse == Spec => []NothingElseForgotten
<1>1. Init => Remembered
  <2> SUFFICES ASSUME Init PROVE Followed(local) /\ Followed(held)
    BY DEF Remembered
  <2>1. \A v \in Uuid : local[v] \notin Peer /\ held[v] \notin Peer
    BY NobodyAssumption DEF Init
  <2>2. QED BY <2>1 DEF Followed
<1>2. Remembered => NothingElseForgotten
  <2> SUFFICES ASSUME Remembered, seeded, NEW d \in Dangling
               PROVE  d[1] \in excused \/ Chased(d[1], d[2])
    BY DEF NothingElseForgotten
  <2>1. /\ d[1] \in Uuid \ Resolved /\ d[2] \in Peer
        /\ \E u \in Uuid : d[1] \in RefOf[u] /\ d[2] \in {local[u], held[u]}
    BY DEF Dangling
  <2>2. QED BY <2>1 DEF Remembered, Followed
<1>3. QED BY InitBase, NextBase, RememberedStep, <1>1, <1>2, PTL DEF Spec
=============================================================================
