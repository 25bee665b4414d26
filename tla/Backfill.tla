------------------------------ MODULE Backfill ------------------------------
(***************************************************************************)
(* The thread backfiller: daemon/src/backfill.ts, its wiring in            *)
(* backfill-ingest.ts, and the held envelopes of store.ts it fills.        *)
(*                                                                         *)
(* A message or a held envelope refers to others by uuid.  A reference     *)
(* that does not resolve here is queued for the peer that showed it, and   *)
(* a flush asks each peer for its queue, in requests of limited size and   *)
(* number; bundles come back, or never do, and may dangle in turn.         *)
(*                                                                         *)
(* JavaScript runs one thread: a flush runs on until it awaits a send, and *)
(* everything else happens only at those awaits.  `thread' is the flush    *)
(* that is running, and every other action waits until it awaits or ends.  *)
(* Nothing serializes flushes: the timer and every backfill control DM     *)
(* start one, whatever others are awaiting.                                *)
(*                                                                         *)
(* A bundle of several items is several bundles of one item, none of them  *)
(* followed by a flush but the last.  The clock is abstracted to what it   *)
(* decides: a backoff elapses, a request leaves the rate window.  To say   *)
(* what a minute may hold, minutes are watched, one at a time and begun at *)
(* any moment: no stamp made in one leaves the window before it is over.   *)
(***************************************************************************)
EXTENDS Naturals, FiniteSets, FiniteSetsExt, Functions

CONSTANTS
  Peer, Uuid,
  Nobody,       \* no peer
  RefOf,        \* the uuids each message or envelope refers to
  AuthorOf,     \* who wrote it, and whose address verifies its signature
  Sends,        \* <<p, u>>: p may send us message u
  Serves,       \* <<p, u>>: p may send us a bundle with the envelope of u
  MaxAttempts, MaxRounds, MaxRequestsPerMinute, MaxRefsPerRequest,
  HeldCap,      \* HELD_ENVELOPE_CAP
  MaxFlushes,   \* bound: flushes under way at once
  MaxFaults,    \* bound: restarts of the daemon, and store writes that throw
  MaxChurn,     \* bound: held envelopes evicted or dropped
  WatchMinutes  \* whether minutes are watched

ASSUME NobodyAssumption == Nobody \notin Peer
ASSUME UuidAssumption == IsFiniteSet(Uuid)
ASSUME RefOfAssumption == RefOf \in [Uuid -> SUBSET Uuid] /\ \A u \in Uuid : u \notin RefOf[u]
ASSUME AuthorOfAssumption == AuthorOf \in [Uuid -> Peer]
ASSUME TrafficAssumption == Sends \subseteq Peer \X Uuid /\ Serves \subseteq Peer \X Uuid
ASSUME LimitsAssumption ==
  /\ {MaxAttempts, MaxRequestsPerMinute, MaxRefsPerRequest, MaxRounds} \subseteq Nat \ {0}
  /\ {HeldCap, MaxFaults, MaxChurn} \subseteq Nat
  /\ WatchMinutes \in BOOLEAN

(* What a flush keeps of a set removed from `pending' is exact for two     *)
(* flushes; with three, two of them could share such a set.                *)
ASSUME FlushesAssumption == MaxFlushes \in {1, 2}

VARIABLES
  local,     \* who sent us each message, Nobody for a message we lack
  held,      \* who sent us each held envelope, Nobody where there is none
  wrong,     \* held envelopes stored under an author that is not theirs
  attempts,  \* persisted: requests for each uuid since it last resolved
  waiting,   \* persisted: uuids inside their backoff window
  pending,   \* Map from a peer to the Set of uuids queued for it
  inFlight,  \* uuids requested and not resolved
  known,     \* uuids with an entry in authorByUuid
  rounds,    \* flushes that have tried each peer, up to MaxRounds
  recent,    \* sentTimestamps: requests whose stamp is within the last minute
  timer,     \* whether the flush timer is armed
  hooks,     \* handlers between ingestMessage and enqueueDangling, as <<peer, uuid>>
  flush,     \* the state of each flush
  thread,    \* the flush that is running, 0 when none is
  faults,
  seeded,    \* whether seedBackfillQueue has run since the last restart
  churn,
  excused,   \* ghost: uuids the code loses sight of, see NothingElseForgotten
  watching,  \* ghost: whether the watched minute is on
  sent,      \* ghost: the requests recorded in it, whatever restarts
  fresh,     \* ghost: those of `recent' whose stamp is of this minute
  restarted  \* ghost: the restarts in it

persisted == <<local, held, wrong, attempts, waiting>>
memory == <<pending, inFlight, known, rounds, recent, timer>>
bounds == <<faults, seeded, churn>>
minute == <<watching, sent, fresh, restarted>>
vars == <<local, held, wrong, attempts, waiting, pending, inFlight, known, rounds, recent, timer,
          hooks, flush, thread, faults, seeded, churn, excused, watching, sent, fresh, restarted>>

Flush == 1..MaxFlushes
Batches == {b \in SUBSET Uuid : Cardinality(b) <= MaxRefsPerRequest}

(* `peer' is the entry in hand; its Set is pending[peer] as long as the    *)
(* entry is `attached', and `own' once another flush has removed it.  A    *)
(* flush is `young' when it began in the watched minute.                   *)
IdleFlush ==
  [at |-> "idle", young |-> FALSE, budget |-> 0, seen |-> {}, peer |-> Nobody,
   attached |-> TRUE, own |-> {}, left |-> {}, batch |-> {}]

Init ==
  /\ local = [u \in Uuid |-> Nobody]
  /\ held = [u \in Uuid |-> Nobody]
  /\ wrong = {}
  /\ attempts = [u \in Uuid |-> 0]
  /\ waiting = {}
  /\ pending = [p \in {} |-> {}]
  /\ inFlight = {}
  /\ known = {}
  /\ rounds = [p \in Peer |-> 0]
  /\ recent = 0
  /\ timer = FALSE
  /\ hooks = {}
  /\ flush = [f \in Flush |-> IdleFlush]
  /\ thread = 0
  /\ faults = 0
  /\ seeded = TRUE
  /\ churn = 0
  /\ excused = {}
  /\ watching = FALSE /\ sent = 0 /\ fresh = 0 /\ restarted = 0

HeldUuids == {u \in Uuid : held[u] # Nobody}
LocalUuids == {u \in Uuid : local[u] # Nobody}

\* resolvesUuid.
Resolved == HeldUuids \union LocalUuids

Queued == UNION {pending[p] : p \in DOMAIN pending}

\* Bug: one request more than maxAttempts.
ExhaustedLate(tries, u) == tries[u] > MaxAttempts

Exhausted(tries, u) == tries[u] >= MaxAttempts

isEligible(u) == ~Exhausted(attempts, u) /\ u \notin waiting

(***************************************************************************)
(* Backfiller.enqueue, for all the uuids of want[p] and every peer p, in   *)
(* the state the call meets: `flying', `names' and `tries' are inFlight,   *)
(* authorByUuid and attempts then.                                         *)
(***************************************************************************)
Accepted(want, p, flying, tries) ==
  IF rounds[p] >= MaxRounds THEN {}
  ELSE {u \in want[p] : u \notin flying /\ ~Exhausted(tries, u)}

QueueOf(p) == IF p \in DOMAIN pending THEN pending[p] ELSE {}

\* Bug: the author is recorded with the first ref of a peer only.
EnqueueUnattributed(want, flying, names, tries) ==
  LET new == [p \in Peer |-> Accepted(want, p, flying, tries)]
      asked == {p \in Peer : new[p] # {}}
  IN  /\ pending' = [p \in DOMAIN pending \union asked |-> QueueOf(p) \union new[p]]
      /\ known' = names \union UNION {new[p] : p \in Peer \ DOMAIN pending}
      /\ timer' = (timer \/ asked # {})

Enqueue(want, flying, names, tries) ==
  LET new == [p \in Peer |-> Accepted(want, p, flying, tries)]
      asked == {p \in Peer : new[p] # {}}
  IN  /\ pending' = [p \in DOMAIN pending \union asked |-> QueueOf(p) \union new[p]]
      /\ known' = names \union UNION {new[p] : p \in Peer}
      /\ timer' = (timer \/ \E p \in asked : ~(new[p] \subseteq QueueOf(p)))

Only(p, uuids) == [q \in Peer |-> IF q = p THEN uuids ELSE {}]

----------------------------------------------------------------------------
\* What arrives.

Fault == faults < MaxFaults /\ faults' = faults + 1

Meet(p, u) ==
  /\ thread = 0
  /\ <<p, u>> \in Sends /\ local[u] = Nobody
  /\ local' = [local EXCEPT ![u] = p]

\* A fresh message of p: the hook has the store take it, then awaits.
Ingest(p, u) ==
  /\ Meet(p, u)
  /\ hooks' = hooks \union {<<p, u>>}
  /\ UNCHANGED <<held, wrong, attempts, waiting, memory, flush, thread, bounds, excused, minute>>

\* A route that shows the message takes it first: it is fresh to no hook any more.
Show(p, u) ==
  /\ Meet(p, u)
  /\ excused' = excused \union (RefOf[u] \ Resolved)
  /\ UNCHANGED <<held, wrong, attempts, waiting, memory, hooks, flush, thread, bounds, minute>>

\* enqueueDangling: the references that do not resolve by now are queued.
EnqueueDangling(p, u) ==
  /\ thread = 0
  /\ <<p, u>> \in hooks
  /\ hooks' = hooks \ {<<p, u>>}
  /\ Enqueue(Only(p, RefOf[u] \ Resolved), inFlight, known, attempts)
  /\ UNCHANGED <<persisted, inFlight, rounds, recent, flush, thread, bounds, excused, minute>>

\* One of the awaits throws, and nothing is queued.
HookThrows(p, u) ==
  /\ thread = 0
  /\ <<p, u>> \in hooks
  /\ hooks' = hooks \ {<<p, u>>}
  /\ excused' = excused \union (RefOf[u] \ Resolved)
  /\ UNCHANGED <<persisted, memory, flush, thread, bounds, minute>>

(* The author processBundle stores the envelope under: the one recorded    *)
(* with the request, else the one a held envelope names, else the sender.  *)
AuthorFound(p, u) ==
  \/ u \in known
  \/ \E h \in HeldUuids : u \in RefOf[h]
  \/ AuthorOf[u] = p

\* addHeldEnvelope: what is held afterwards, the oldest entry evicted at the cap.
HeldAfter(p, u, evicted) ==
  [v \in Uuid |-> IF v \in evicted THEN Nobody ELSE IF v = u THEN p ELSE held[v]]

\* A uuid that does not resolve is held, and one envelope evicted at the cap.
Hold(p, u, evicted) ==
  LET stored == u \notin Resolved
      full == stored /\ Cardinality(HeldUuids) >= HeldCap
  IN  /\ Cardinality(evicted) = (IF full THEN 1 ELSE 0)
      /\ churn + Cardinality(evicted) <= MaxChurn
      /\ churn' = churn + Cardinality(evicted)
      /\ held' = IF stored THEN HeldAfter(p, u, evicted) ELSE held
      /\ wrong' = IF stored /\ ~AuthorFound(p, u) THEN (wrong \union {u}) \ evicted
                  ELSE wrong \ evicted

\* The references of an envelope that is stored, as they dangle afterwards.
Dangles(u, evicted) == IF u \in Resolved THEN {} ELSE (RefOf[u] \ (Resolved \ evicted)) \ {u}

(* A bundle of p with envelope u, asked for or not: stored unless the uuid *)
(* resolves already, resolved for the backfiller either way, its own       *)
(* references queued when it was stored.                                   *)
ReceiveBundle(p, u) ==
  /\ thread = 0
  /\ <<p, u>> \in Serves
  /\ LET tries == [attempts EXCEPT ![u] = 0]
         flying == inFlight \ {u}
     IN  \E evicted \in SUBSET HeldUuids :
           /\ Hold(p, u, evicted)
           /\ excused' = excused \union evicted
           /\ inFlight' = flying
           /\ attempts' = tries
           /\ waiting' = waiting \ {u}
           /\ Enqueue(Only(p, Dangles(u, evicted)), flying, known \ {u}, tries)
  /\ UNCHANGED <<local, rounds, recent, hooks, flush, thread, faults, seeded, minute>>

(* processBundle cut short by a store write that throws once the envelope  *)
(* is held: before onResolved, or in it, and then the attempts are cleared *)
(* or not.  Nothing is queued.                                             *)
BundleThrows(p, u) ==
  /\ thread = 0
  /\ <<p, u>> \in Serves
  /\ Fault
  /\ \E evicted \in SUBSET HeldUuids :
       /\ Hold(p, u, evicted)
       /\ excused' = excused \union evicted \union Dangles(u, evicted)
  /\ \/ UNCHANGED <<inFlight, known, attempts, waiting>>
     \/ /\ inFlight' = inFlight \ {u} /\ known' = known \ {u}
        /\ \/ UNCHANGED <<attempts, waiting>>
           \/ attempts' = [attempts EXCEPT ![u] = 0] /\ waiting' = waiting \ {u}
  /\ UNCHANGED <<local, pending, rounds, recent, timer, hooks, flush, thread, seeded, minute>>

(* heldStatus: rendering an envelope whose signature does not verify under *)
(* the author it is stored with drops it.                                  *)
Render(u) ==
  /\ thread = 0
  /\ u \in wrong /\ held[u] # Nobody
  /\ churn < MaxChurn
  /\ churn' = churn + 1
  /\ held' = [held EXCEPT ![u] = Nobody]
  /\ wrong' = wrong \ {u}
  /\ excused' = excused \union {u}
  /\ UNCHANGED <<local, attempts, waiting, memory, hooks, flush, thread, faults, seeded, minute>>

----------------------------------------------------------------------------
\* Backfiller.flush, from await to await.

Running(f, at) == thread = f /\ flush[f].at = at

\* Bug: the requests of earlier flushes are not counted.
BudgetUncounted == MaxRequestsPerMinute

Budget == IF recent >= MaxRequestsPerMinute THEN 0 ELSE MaxRequestsPerMinute - recent

BeginFlush(f) ==
  /\ thread = 0
  /\ flush[f].at = "idle" /\ \A g \in 1..(f - 1) : flush[g].at # "idle"
  /\ flush' = [flush EXCEPT ![f] = [IdleFlush EXCEPT !.at = "visit", !.young = watching, !.budget = Budget]]
  /\ thread' = f

TimerFires(f) ==
  /\ timer
  /\ BeginFlush(f)
  /\ timer' = FALSE
  /\ UNCHANGED <<persisted, pending, inFlight, known, rounds, recent, hooks, bounds, excused, minute>>

\* flushBackfiller, after a backfill control DM or a bundle.
Kick(f) ==
  /\ BeginFlush(f)
  /\ UNCHANGED <<persisted, memory, hooks, bounds, excused, minute>>

\* pending.delete(p): a flush that holds the entry keeps its Set.
Detached(p, flushes) ==
  [g \in Flush |->
     IF flushes[g].peer = p /\ flushes[g].attached
     THEN [flushes[g] EXCEPT !.attached = FALSE, !.own = pending[p]] ELSE flushes[g]]

Delete(p) == pending' = Restrict(pending, DOMAIN pending \ {p})

(* Passing an entry by.  A Map iterator comes again to an entry that was   *)
(* deleted and added anew, so `seen' is forgotten with the entry.          *)
Pass(p, flushes, f) ==
  [g \in Flush |-> IF g = f THEN [flushes[g] EXCEPT !.at = "visit", !.seen = @ \union {p}, !.peer = Nobody]
                   ELSE flushes[g]]

Forget(p, flushes) == [g \in Flush |-> [flushes[g] EXCEPT !.seen = @ \ {p}]]

Candidates(f) == IF flush[f].budget = 0 THEN {} ELSE DOMAIN pending \ flush[f].seen

EligibleOf(p) == {u \in pending[p] : u \notin inFlight /\ isEligible(u)}

\* Bug: everything eligible goes into one request.
NextBatchWhole(left) == {left}

\* The first batch of the refs left; the order of a Set is left open.
NextBatch(left) ==
  {b \in SUBSET left : Cardinality(b) = Min({MaxRefsPerRequest, Cardinality(left)})}

\* Nothing to ask p for now; a queue of given-up refs is dropped.
VisitInVain(f, p) ==
  /\ Running(f, "visit") /\ p \in Candidates(f)
  /\ EligibleOf(p) = {}
  /\ IF \A u \in pending[p] : Exhausted(attempts, u)
     THEN Delete(p) /\ flush' = Forget(p, Detached(p, flush))
     ELSE flush' = Pass(p, flush, f) /\ UNCHANGED pending
  /\ UNCHANGED <<persisted, inFlight, known, rounds, recent, timer, hooks, thread, bounds, excused, minute>>

\* One round more for p, and the first batch goes out: the flush awaits its send.
VisitAndSend(f, p) ==
  /\ Running(f, "visit") /\ p \in Candidates(f)
  /\ EligibleOf(p) # {}
  /\ rounds' = [rounds EXCEPT ![p] = Min({@ + 1, MaxRounds})]
  /\ \E b \in NextBatch(EligibleOf(p)) :
       flush' = [flush EXCEPT ![f] = [@ EXCEPT !.at = "send", !.peer = p, !.attached = TRUE,
                                               !.own = {}, !.left = EligibleOf(p), !.batch = b]]
  /\ thread' = 0
  /\ UNCHANGED <<persisted, pending, inFlight, known, recent, timer, hooks, bounds, excused, minute>>

Sending(f) == thread = 0 /\ flush[f].at = "send"

(* The send resolves: the batch leaves the queue and is in flight, each    *)
(* ref with one attempt more; then the next batch or the end of this peer. *)
(* The request is stamped with the moment the flush began: one that began  *)
(* before the watched minute may see its stamp leave the window at once.   *)
SendResolves(f) ==
  /\ Sending(f)
  /\ LET fl == flush[f]
         left == fl.left \ fl.batch
         spent == [fl EXCEPT !.own = @ \ fl.batch, !.left = left, !.budget = @ - 1]
     IN  /\ pending' = IF fl.attached THEN [pending EXCEPT ![fl.peer] = @ \ fl.batch] ELSE pending
         /\ inFlight' = inFlight \union fl.batch
         /\ attempts' = [u \in Uuid |-> IF u \in fl.batch THEN attempts[u] + 1 ELSE attempts[u]]
         /\ waiting' = waiting \union fl.batch
         /\ recent' = recent + 1
         /\ sent' = IF watching THEN sent + 1 ELSE sent
         /\ fresh' = IF fl.young THEN fresh + 1 ELSE fresh
         /\ IF left # {} /\ fl.budget > 1
            THEN /\ \E b \in NextBatch(left) : flush' = [flush EXCEPT ![f] = [spent EXCEPT !.batch = b]]
                 /\ UNCHANGED thread
            ELSE /\ flush' = [flush EXCEPT ![f] = [spent EXCEPT !.at = "close", !.left = {}, !.batch = {}]]
                 /\ thread' = f
  /\ UNCHANGED <<local, held, wrong, known, rounds, timer, hooks, bounds, excused, watching, restarted>>

(* The request went out, and recording an attempt throws: what was dealt   *)
(* with so far has left the queue, the request counts nowhere, and the     *)
(* flush leaves this peer as if the send had failed.                       *)
RecordThrows(f) ==
  /\ Sending(f)
  /\ Fault
  /\ LET fl == flush[f]
     IN  \E done \in (SUBSET fl.batch) \ {{}}, last \in fl.batch :
           /\ last \in done
           /\ pending' = IF fl.attached THEN [pending EXCEPT ![fl.peer] = @ \ done] ELSE pending
           /\ inFlight' = inFlight \union done
           /\ \E kept \in {done, done \ {last}} :
                /\ attempts' = [u \in Uuid |-> IF u \in kept THEN attempts[u] + 1 ELSE attempts[u]]
                /\ waiting' = waiting \union kept
           /\ flush' = [flush EXCEPT ![f] = [fl EXCEPT !.at = "close", !.own = @ \ done, !.left = {}, !.batch = {}]]
           /\ thread' = f
  /\ UNCHANGED <<local, held, wrong, known, rounds, recent, timer, hooks, seeded, churn, excused, minute>>

\* Bug: the refs leave the queue before the send is known to have succeeded.
SendFailsEmptied(f) ==
  /\ Sending(f)
  /\ pending' = [p \in DOMAIN pending |->
                  IF p = flush[f].peer /\ flush[f].attached THEN pending[p] \ flush[f].batch ELSE pending[p]]
  /\ flush' = [flush EXCEPT ![f] = [@ EXCEPT !.at = "close", !.left = {}, !.batch = {}]]
  /\ thread' = f
  /\ UNCHANGED <<persisted, inFlight, known, rounds, recent, timer, hooks, bounds, excused, minute>>

\* The send is rejected: the refs stay queued and the flush leaves this peer.
SendFails(f) ==
  /\ Sending(f)
  /\ flush' = [flush EXCEPT ![f] = [@ EXCEPT !.at = "close", !.left = {}, !.batch = {}]]
  /\ thread' = f
  /\ UNCHANGED <<persisted, memory, hooks, bounds, excused, minute>>

(* The flush is done with its Set, and removes the entry of that peer when *)
(* the Set is empty: another entry, when its own was removed meanwhile.    *)
ClosePeer(f) ==
  /\ Running(f, "close")
  /\ LET fl == flush[f]
         set == IF fl.attached THEN pending[fl.peer] ELSE fl.own
         done == [Pass(fl.peer, flush, f) EXCEPT ![f].attached = TRUE, ![f].own = {}]
     IN  IF set = {} /\ fl.peer \in DOMAIN pending
         THEN /\ Delete(fl.peer)
              /\ flush' = Forget(fl.peer, Detached(fl.peer, done))
              /\ excused' = excused \union pending[fl.peer]
         ELSE flush' = done /\ UNCHANGED <<pending, excused>>
  /\ UNCHANGED <<persisted, inFlight, known, rounds, recent, timer, hooks, thread, bounds, minute>>

\* Bug: the flush ends without arming the timer for what it leaves behind.
EndFlushUnarmed(f) ==
  /\ Running(f, "visit") /\ Candidates(f) = {}
  /\ flush' = [flush EXCEPT ![f] = IdleFlush]
  /\ thread' = 0
  /\ UNCHANGED <<persisted, memory, hooks, bounds, excused, minute>>

EndFlush(f) ==
  /\ Running(f, "visit") /\ Candidates(f) = {}
  /\ flush' = [flush EXCEPT ![f] = IdleFlush]
  /\ thread' = 0
  /\ timer' = (timer \/ DOMAIN pending # {})
  /\ UNCHANGED <<persisted, pending, inFlight, known, rounds, recent, hooks, bounds, excused, minute>>

----------------------------------------------------------------------------
\* The clock, and restarts.

BackoffElapses(u) ==
  /\ thread = 0 /\ u \in waiting
  /\ waiting' = waiting \ {u}
  /\ UNCHANGED <<local, held, wrong, attempts, memory, hooks, flush, thread, bounds, excused, minute>>

WindowSlides ==
  /\ thread = 0 /\ recent > fresh
  /\ recent' = recent - 1
  /\ UNCHANGED <<persisted, pending, inFlight, known, rounds, timer, hooks, flush, thread, bounds, excused, minute>>

Watch(on) ==
  /\ thread = 0
  /\ watching' = on /\ sent' = 0 /\ fresh' = 0 /\ restarted' = 0
  /\ flush' = [f \in Flush |-> [flush[f] EXCEPT !.young = FALSE]]
  /\ UNCHANGED <<persisted, memory, hooks, thread, faults, seeded, churn, excused>>

MinuteBegins == WatchMinutes /\ ~watching /\ Watch(TRUE)
MinuteEnds == watching /\ Watch(FALSE)

(* The daemon dies and starts again, its memory gone.  The startup sweep   *)
(* finds every stored message no longer fresh, and queues nothing for it.  *)
(* The requests of the last minute are forgotten: they stay sent.          *)
Restart ==
  /\ Fault
  /\ seeded' = FALSE
  /\ pending' = Restrict(pending, {})
  /\ inFlight' = {}
  /\ known' = {}
  /\ rounds' = [p \in Peer |-> 0]
  /\ recent' = 0 /\ fresh' = 0
  /\ timer' = FALSE
  /\ hooks' = {}
  /\ flush' = [f \in Flush |-> IdleFlush]
  /\ thread' = 0
  /\ excused' = excused \union UNION {RefOf[u] \ Resolved : u \in LocalUuids}
  /\ restarted' = IF watching THEN restarted + 1 ELSE restarted
  /\ UNCHANGED <<persisted, churn, watching, sent>>

(* seedBackfillQueue, once the transport is up and messages may have come  *)
(* in: what dangles from the held envelopes, asked of whoever sent them.   *)
Seed ==
  /\ thread = 0 /\ ~seeded
  /\ seeded' = TRUE
  /\ Enqueue([p \in Peer |-> UNION {RefOf[u] \ Resolved : u \in {v \in Uuid : held[v] = p}}],
             inFlight, known, attempts)
  /\ UNCHANGED <<persisted, inFlight, rounds, recent, hooks, flush, thread, faults, churn, excused, minute>>

----------------------------------------------------------------------------
Synchronous(f) ==
  \/ \E p \in Peer : VisitInVain(f, p) \/ VisitAndSend(f, p)
  \/ ClosePeer(f) \/ EndFlush(f)

Next ==
  \/ \E p \in Peer, u \in Uuid :
       \/ Ingest(p, u) \/ Show(p, u) \/ EnqueueDangling(p, u) \/ HookThrows(p, u)
       \/ ReceiveBundle(p, u) \/ BundleThrows(p, u)
  \/ \E u \in Uuid : Render(u) \/ BackoffElapses(u)
  \/ \E f \in Flush : TimerFires(f) \/ Kick(f) \/ Synchronous(f)
                       \/ SendResolves(f) \/ SendFails(f) \/ RecordThrows(f)
  \/ WindowSlides \/ MinuteBegins \/ MinuteEnds
  \/ Restart
  \/ Seed

Spec == Init /\ [][Next]_vars

(* Code that runs goes on; timers fire, time passes and a send that is     *)
(* tried again and again gets through, however many messages come in       *)
(* between; a watched minute ends.  Nobody need ever answer.               *)
Fairness ==
  /\ WF_vars(\E f \in Flush : Synchronous(f))
  /\ SF_vars(\E f \in Flush : TimerFires(f))
  /\ \A f \in Flush : SF_vars(SendResolves(f))
  /\ \A u \in Uuid : SF_vars(BackoffElapses(u))
  /\ SF_vars(WindowSlides)
  /\ SF_vars(MinuteEnds)

FairSpec == Spec /\ Fairness

----------------------------------------------------------------------------
TypeOK ==
  /\ local \in [Uuid -> Peer \union {Nobody}]
  /\ held \in [Uuid -> Peer \union {Nobody}]
  /\ wrong \subseteq HeldUuids
  /\ attempts \in [Uuid -> Nat]
  /\ waiting \subseteq Uuid
  /\ DOMAIN pending \subseteq Peer /\ \A p \in DOMAIN pending : pending[p] \subseteq Uuid
  /\ inFlight \subseteq Uuid /\ known \subseteq Uuid /\ excused \subseteq Uuid
  /\ rounds \in [Peer -> 0..MaxRounds]
  /\ recent \in Nat
  /\ timer \in BOOLEAN
  /\ flush \in [Flush -> [at : {"idle", "visit", "send", "close"}, young : BOOLEAN,
                          budget : 0..MaxRequestsPerMinute, seen : SUBSET Peer,
                          peer : Peer \union {Nobody}, attached : BOOLEAN,
                          own : SUBSET Uuid, left : SUBSET Uuid, batch : Batches]]
  /\ thread \in {0} \union Flush
  /\ hooks \subseteq Peer \X Uuid
  /\ faults \in 0..MaxFaults /\ seeded \in BOOLEAN /\ churn \in 0..MaxChurn
  /\ watching \in BOOLEAN /\ {sent, fresh, restarted} \subseteq Nat

(* The requests recorded in a minute, counted when they go out and across  *)
(* restarts.  The cap of the code is on stamps, kept in memory and read    *)
(* when a flush begins.  Flushes that overlap multiply it; flushes under   *)
(* way when the minute began add their own, whose stamps are older and may *)
(* leave the window early; and each restart begins anew.  What is counted  *)
(* is recorded requests: not one whose recording throws, nor one that has  *)
(* not resolved when the daemon dies.                                      *)
RateWithinFlushes == sent <= (2 + restarted) * MaxFlushes * MaxRequestsPerMinute

(* A ref is given up after MaxAttempts requests, counted across restarts;  *)
(* a flush that overlaps the last one may add its own.  What is counted is *)
(* recorded attempts: a request that went out before a crash, or before a  *)
(* store write that threw, is not among them.                              *)
AttemptsWithinFlushes == \A u \in Uuid : attempts[u] <= MaxAttempts + MaxFlushes - 1

\* The refs of everything we have that resolve to nothing, and who showed them.
Dangling ==
  {d \in Uuid \X Peer :
     d[1] \notin Resolved /\ \E u \in Uuid : d[1] \in RefOf[u] /\ d[2] \in {local[u], held[u]}}

\* The backfiller works on the ref, or a hook is about to queue it, or the ref or its
\* peer has been given up.
Chased(t, p) ==
  \/ t \in inFlight \/ t \in Queued \/ Exhausted(attempts, t) \/ rounds[p] >= MaxRounds
  \/ \E h \in hooks : h[1] = p /\ t \in RefOf[h[2]]

(* The code loses sight of a dangling ref in these ways only: its envelope *)
(* was held and evicted, or held and dropped when rendered; the daemon     *)
(* restarted and a local message (not a held envelope) shows it; a flush   *)
(* removed a queue that was not the one it had emptied; a route was the    *)
(* first to ingest the message that shows it; the hook threw between       *)
(* ingesting that message and queueing; or a store write threw when the    *)
(* envelope that shows it was held.                                        *)
NothingElseForgotten == seeded => \A d \in Dangling : d[1] \in excused \/ Chased(d[1], d[2])

(* An answer to what we asked for is stored under its author: whatever is  *)
(* queued or in flight still has the attribution it was queued with.       *)
AskedIsAttributed == (inFlight \union Queued) \ (Resolved \union excused) \subseteq known

(* The queue drains: a queued ref is requested, resolved, given up or      *)
(* forgotten in one of those ways, whatever sends fail meanwhile, as long  *)
(* as the transport takes a request now and then, the daemon stays up and  *)
(* its store can be written.                                               *)
QueuedIsAsked ==
  \A u \in Uuid :
     u \in Queued ~> \/ u \in inFlight \/ u \in Resolved \/ Exhausted(attempts, u) \/ u \in excused
                      \/ faults > 0

=============================================================================
