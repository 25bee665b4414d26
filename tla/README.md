# Headwater (deltanet): a verification development

Headwater is a social network on Delta Chat. A daemon (`src/daemon`, TypeScript
on Node) runs a Delta Chat core, keeps a store of its own beside it, and serves a
Mastodon-compatible API to a Svelte client (`src/frontend`). A desktop shell
(`src/desktop`) can own the daemon. Posts, replies, reactions, follow requests and
requests for missing parts of a thread are all Delta Chat messages: they arrive more
than once, late, in several orders, or never.

This directory holds TLA+ models of the parts of the daemon where that is hard, TLC
configurations that check them on small instances, and TLAPS proofs of what matters
most for instances of any size. `PROJECT.json` is the index: the code each definition
translates (`map`), the runs, a mutation of the code each property catches
(`mutants`), the disagreements found (`findings`), the hazards of the code, and the
theorems.

    tlc -workers 2 -config MCIngest.cfg MCIngest      one run
    tlapm RestoreJournalProofs.tla                    one module's proofs

## 1. Inventory

All paths are under `src/`.

| Component | State | Operations | What is hard | What makes it correct |
|---|---|---|---|---|
| **Interprocess lock** `daemon/src/interprocess-lock.ts` | a queue directory: tickets (hard links to owner records), done markers; in memory the registry of lifetime locks | acquire, release, exit handler, reclaim of dead owners | processes at any two steps, kill between open and write of a marker, recycled pids | one holder; a dead owner is reclaimed; an attempt ends |
| **Store file** `daemon/src/store.ts` (1130-1330), `durable-file.ts` | primary and recovery copy with a generation; the cached data | load, save, readSnapshot, replaceSnapshot (also with nothing) | crash, power loss and failed calls between any two file operations, a rotten copy | readable after any one fault; nothing observed is lost; the cache is what the disk says |
| **Identity restore** `restore-journal.ts`, `restore-lifecycle.ts`, `daemon.ts` 795-854, `server.ts` `POST /restore` | store, signing key, credentials, journal | begin, install, persist credentials, rollback, finish, replay at start | crash or exception at each of a dozen writes, and again in the recovery | the three files change together or not at all; recovery never gets stuck |
| **Ingest hook and index** `ingest.ts`, `store.ts` 950-1110, `daemon.ts` 520-620 | indexes, reactions, notifications with dedupe keys, pending follow requests | index, derive, follow-back actions, startup sweep, migration | one message delivered many times and by several routes; awaits between index, derive and act; replay in another order | each effect once; a sweep restores what was missed |
| **Thread backfiller** `backfill.ts`, `backfill-ingest.ts`, `heldenvelopes.ts` | queue per peer, in flight, attribution, rounds, timer; attempts and held envelopes in the store | enqueue, flush, onResolved, seed | overlapping flushes, answers before, during and long after, restart | limits hold, nothing is forgotten, answers keep their author |
| **Delta Chat transport** `transport/deltachat.ts` | cache of mids, ids of the feed and other chats | events, `loadMessages`, sweep, chat creation, sending | awaits inside check-then-create | each message reaches the hook, chats are created once |
| **Thread channels and follow-back** `thread-subscribe.ts`, `thread-collect.ts`, `protocol.ts` | hosted and joined threads, pending follows, what was republished | request, grant, join, republish, bundle | `createBroadcast` awaited between check and record | a reply is republished once and misses no subscriber; who left stays away |
| **Post keys and aliases** `store.ts` 1343-1451, `mapping.ts`, `mentions.ts` | the alias table | learnAlias, applyAlias | copies of one post met in any order | one key per post in the end |
| **Daemon lifecycle** `daemon.ts`, `main.ts`, `signup.ts` | transport, core process, app, operation in progress | start, close with deadlines, sign-up, restore, core watch | operations racing shutdown, late answers after a deadline | the store is not touched once its lock is gone |
| **HTTP API and export barrier** `server.ts` | the mutation barrier | routes; backup in two attempts | a mutation during the tar of the core | tar and snapshot are of one moment |
| **Authentication** `auth.ts` | enrollment codes, authorization codes, sessions, stream tickets | issue, redeem, rotate, bind an account | single use, caps, expiry, rebinding | nothing is redeemed twice or after a reset |
| **Streaming hub** `streaming.ts` | sockets, a FIFO of 1000 streamed ids | register, publish, close | an id falls out of the FIFO | an update is streamed once |
| **Envelopes, attestation, wire, backup container, media, limits, entities** | none, or one counter | pure functions over bytes and text | formats | the code's own vector tests |
| **Desktop shell** `desktop/src` | the utility process's phase, enrollment revisions | start, ready, failed, close; request and answer of a code | timeouts racing exit and answers | each promise settles once |
| **Frontend** `frontend/src/lib/pleroma` | session, reconnecting stream | connect, back off, refresh | reconnection | no duplicate subscription |

How they interact: the process takes the *lock* before it opens the *store*; a start
replays the *restore journal* (which writes the store) before anything else reads it;
the *transport* hands every message to the *ingest hook*, which writes the store and,
for a fresh message with dangling references, calls `enqueue` of the *backfiller*;
backfill requests and bundles are control messages that come back through the same
hook; the *HTTP API* calls the hook for what it shows, records follow requests, and
drives restore and backup; the *lifecycle* owns all of them and takes them down.
Sign-up and restore bind the account the *authentication* store is of, which guards the
routes and the sockets of the *streaming hub*; each new enrollment code goes to the
*desktop shell*, which registers its window with it.

The hazards of this code, each at its line, with the properties that would catch it,
are `hazards` in `PROJECT.json`; where no property covers one, its note says why.

## 2. Plan

The order was: first what can lose or corrupt data for good (lock, store, restore), then
what every message goes through (ingest, backfill), then what runs beside it (thread
channels, the daemon's own life, sessions, backups, the desktop's enrollment), and the
proofs along with each.

| Modules | Questions |
|---|---|
| `InterprocessLock` + proofs | exclusion under crashes; termination; reclaim |
| `StoreDurability` + proofs | crash consistency of the two copies |
| `AtomicRestore`, `RestoreJournal` + proofs | the journal implements an atomic restore |
| `Backfill` + proofs | limits, attribution, forgetting, progress |
| `Ingest` + proofs | idempotent effects, sweep, requests and grants |
| `ThreadChannels` + proofs | a reply is republished once; who misses one and why; unsubscribing |
| `DaemonLifecycle` + proofs | nobody works once the lock is given up; one account on disk, in memory and in the core; shutdown ends |
| `Sessions` + `ServerProofs` | single use, one account, ended for good, across failed writes and restarts |
| `BackupExport` + `ServerProofs` | a backup is of one moment, without a lock |
| `DesktopEnrollment` + `ServerProofs` | a client made is a client handed out |

`ServerProofs` holds the proofs of the three protocols of `server.ts` and `auth.ts`, which
share no state. It extends their modules together, which is why the definitions of two of
them carry a prefix (`BackupInit`, `EnrollInit`).

Still open, in order of what they would add: the store as the restore sees it, as a one-value
register that `StoreDurability` implements; `PostKeys`, the key a post reaches whatever the
order of its copies, against connected components; the desktop's supervisor; the bounded list of streamed ids.

Three lower modules stand for parts of the higher ones. `RestoreJournal` writes the store
in one step because `StoreDurability` checks that step in detail; `DaemonLifecycle` writes
the accounts and the journal in one step because `RestoreJournal` does; `Sessions` takes a
sign-up or restore as `Configure`, `Publish`, `Rollback` because `DaemonLifecycle` has their
interleavings. Modules are composed by what each promises the next, and not by a product
of their states, which TLC could not go through.

## 3. The modules

### InterprocessLock

*Code.* One process is one incarnation (`PROCESS_INCARNATION`) with a pid; several
incarnations may share a pid one after the other (`p1` and `p3` of the instance: a
restarted container). `queue[n]` is the owner of ticket *n*; because a ticket is a
hard link to a complete record it appears whole. `created` and `complete` are the done
markers, kept apart because a marker is opened with `wx` and filled by a second call
(151-153). `pc`, `latest`, `my`, `scan`, `target` and `then` are where a process is in
`readTickets`, `linkNextTicket`, the inspection loop and `markDone`. Actions are the
file-system calls; `Fault` is each of them failing, `Kill` the process dying anywhere,
`Exit` the exit handler. `Lifetime` chooses between `acquireInterprocessLock` and
`acquireProcessLifetimeInterprocessLock`.

*Run `lock`* (three incarnations, two pids, three tickets: 124,466 states).
Three contenders are the fewest for a scan to meet both an earlier and a later one
while a third reclaims; three tickets let the one pid own tickets in two lives.
`MutualExclusion`: one holder whatever dies. `LosesOnlyToEarlier`: an attempt gives way
only to an earlier ticket that is or was unfinished when looked at. `AttemptEnds`: an
attempt comes to a verdict. Fairness is `WF(Step(p))` for each process and nothing
else: the lock's code is synchronous and never waits, so a process that is inside it
goes on until it returns, throws or dies.

*Proved* (`InterprocessLockProofs`, any processes, pids, number of tickets, either
variant): `LockInvariant`, `LockTypes`, `LockExcludes`, `LockLosesToEarlier`. Exclusion is not inductive: it
needs why a holder is alone. `HoldsFirst` says that a holder's ticket has no marker and
that every earlier one has a complete marker; two holders would each be before the
other. To keep it, `ScannedComplete` says the same of the part of the queue an attempt
has passed; `TargetUnheld` that nobody marks a held ticket: the target of a marking is
either the ticket of a dead incarnation or one's own and not held; `PidsDistinct` and
`OwnersStarted` that a pid not in use, or one's own pid under another incarnation,
means the owner is dead, and dead is for good.
`LosesOnlyToEarlier`, a property of steps, follows from the same invariant: of the three
steps that give an attempt up, two have just looked at an earlier ticket, and the third, an
attempt that finds its own ticket done, cannot happen, as nobody marks the ticket of an
attempt. `AttemptEnds` is only model-checked.

*Left out:* the repeated release of a plain lock whose release failed; concurrent
reclaimers of one ticket that make each other fail (an attempt may fail for it, which
`Fault` covers). One pid namespace is assumed, as the code does. Consequences visible
in the model and accepted by the code: a pid recycled by an unrelated process makes an
attempt report busy, and a failed abandonment leaves a ticket undone until its process
exits.

### StoreDurability

*Code.* `files` is what a read returns, `disk` what a power loss leaves; they differ
from a rename to the `fsync` of the directory. An operation first runs
`committedStoreLocked` (`Enter`: choose the newer copy, refuse if there is no winner),
quarantines and heals the other copy, and then either returns, or prepares the next
generation and writes recovery copy and primary copy, each by rename and sync. `data`
is the cache and its fate follows each operation's `catch`: `save` and `replaceSnapshot`
drop it. The contents of the store are one value, numbered in the order they were
handed to it. A rename or a sync may throw (`Throw`), the process may die (`Kill`), the
power may fail with each unsynced rename kept or lost on its own (`PowerLoss`), a copy
may rot (`Rot`). `OtherInstanceCommits` is another `Store` object of the process, as
journal recovery opens.

*Run `store`* (four values, 110,813 states; crashes and restarts are not bounded).
Four values are enough for both copies to be of different age, one of them
failed, and another committed on top. `AlwaysReadable`: between operations there is a
copy to select. `CacheIsCurrent`: a cached store is what a load would return, or the
disk is at a higher generation, which the next save notices. `NothingSeenIsLost`: what
a load returns or a commit acknowledges is the last observed value or one handed over
since.

*Proved* (`StoreDurabilityProofs`, any number of commits): all four. The invariant speaks
of cells, a cell being what a copy reads as now or would after a power loss. While faults
come one at a time, `Guarded`: beside a corrupt cell both cells of the other copy are
good; `Coherent`: two cells of one generation are equal; `Ahead`: what an operation writes
is of a generation no cell exceeds; `Winners`: whichever cell a power loss leaves of each
copy, the one a load selects has a value that may still be returned; `Survivors`: before
the first fault so has every copy alone, which is what lets one of them rot. `Firm`
connects operations: what the files say is not behind the disk and one copy is synced, so
an operation that begins after another was abandoned may trust what it selects although
the disk still has something older. Only while an operation is within a rename and its
sync may this fail, and then the operation's own stopping is the second fault.

*The assumption.* Two copies survive one fault at a time. `faults` counts operations
that ended with an unsynced rename and copies that rotted, and goes back to zero when
both copies are whole and synced again. With a second fault before that the properties
promise nothing, rightly: two operations that end unsynced and then a power loss can
lose an observed value, and an interrupted first commit whose only copy then rots
leaves a store that refuses. `removing` stands for the restore journal that
re-runs an interrupted removal: nothing is read until it has finished.

### AtomicRestore and RestoreJournal

*Code.* `roots` are the three files, `journal` the journal file, `mem` the journal as
the running process has it, `sidecar` what the backup carries, `pc` the next step. The
actions follow `beginSidecarRestore`, its `install`, `persistCredentials`, `rollback`
and `finish`, the handler of `POST /restore` and the prepared restore around them, and
`recoverInterruptedSidecarRestore` at start. Each file operation can take effect and
return, take effect and throw, or throw and do nothing (`Goes`, `Throw`); the process
can die at any step. `Edit` is a store mutation, by the published node or by the
restored core's ingestion, which starts before the commit (section 5). Each store write is one step here because `StoreDurability` checks
it in detail.

*Abstract.* `AtomicRestore` has the three roots, replaced as a whole by `Restore` or
not at all, edits of the store and the creation of a key. The refinement mapping is
`EffectiveOf`: with an uncommitted journal the node *is* what it was before, with a
committed one it is the donor's, or a newer store written since. This is what a later
start would make of the files, so a half-done installation is invisible.

*Run `restore`* (two backups, one with and one without store and key; two restores, two
edits, three failures: 161,602 states). Two restores let the second start from
what the first left or rolled back; two edits before and after a commit make the
committed store older than the file; three failures are a failed step, a failed
rollback and a crash in the recovery. `RestoresAtomically`: the refinement.
`NeverRefuses`: recovery, which would refuse again at every start, never meets
credentials or a store it refuses.

*Proved* (`RestoreJournalProofs`, any backups and bounds): `RestoreInvariant`,
`RestoreTypes`, `RestoreNeverRefuses`, `RestoreIsAtomic`. The invariant says, per step,
how the three accounts of the restore agree: `MemoryInv` that the journal in memory is
the file's or one phase ahead; `AccountInv` that credentials are touched only once the
journal says both values; `InstalledInv` and `PutBackInv` what an installation, a
rollback or a replay has put in place so far; `CommittedInv` that once committed the
store is the donor's or newer, and the account the donor's. Atomicity then follows step
by step: only the write of the committed journal, or an edit, changes `Effective`, and
the write changes it to what the backup carries over what was there.

*Left out:* sign-up in the same process after a rollback that failed (its account
is undone by the next start's replay); a signing key created while a committed journal
is left over, which that replay removes; credentials changed by an outside writer,
which every later start would refuse. The import of the Delta Chat core is not
undone by the journal, in the code or here.

### Backfill

*Code.* `local` and `held` say who sent each message and held envelope; `attempts` and
`waiting` are the persisted records of requests (a count, and whether the backoff window
is open); `hooks` are the message handlers between `ingestMessage` and `enqueueDangling`,
where they await (`daemon.ts` 547-577); `pending`, `inFlight`, `known` (`authorByUuid`),
`rounds`, `recent` (the rate window) and `timer` are the backfiller's fields. `flush[f]` is
one call of `flush`: where it is, its copy of the budget, the peers seen by its Map iterator, the peer's Set
it has in hand (its own once the entry was deleted), what is left, and the batch being
sent. JavaScript is single-threaded: `thread` names the flush that is running, and all
other actions wait until it awaits a send or ends. A message is ingested by the hook
(`Ingest`), which queues its references later (`EnqueueDangling`) or throws before it
does (`HookThrows`), or first by a route that shows it (`Show`), and then nobody queues
them. A store write may throw while a bundle is processed (`BundleThrows`) or when a
request is recorded (`RecordThrows`).

*The watched minute.* The rate window is in memory, and a request is stamped with the time
its flush began. To say what really went out, a ghost counts the requests recorded in a
minute across restarts (`sent`); the minute begins at any moment. A flush is `young` when it
began in it; the stamps of young flushes (`fresh`) cannot leave the window before the
minute ends, those of older ones may at once.

*Runs.* A thread of three messages between us and two peers: the messages of both dangle
into a chain that one of them can serve, whoever wrote it, so attribution, chains and
unasked-for answers all occur.
- `backfill`: two flushes at once, one restart or failed store write, one eviction or drop,
  one attempt per reference, two rounds per peer, two requests a minute of one reference
  each (2,936,949 states). Two flushes are needed for what goes wrong between them. With
  one fault at a time each way to lose a reference shows alone; none needs another to
  happen before it. `AttemptsWithinFlushes`: more attempts than the limit only by flushes that overlap,
  by one less than their number. It is the recorded attempts that are counted: a request
  that went out before a crash, or a failed write, is not among them.
  `NothingElseForgotten`: a dangling reference is queued, in flight, about to be queued by a
  hook, or given up, except in the seven ways the ghost `excused` records: eviction, a
  dropped envelope, a restart, a queue deleted under a flush, a route that ingests first, a
  hook that throws, a write that throws when the envelope was held. `AskedIsAttributed`:
  what is queued or in flight has its author recorded, or an answer would be held under a
  wrong one.
- `backfill_live`: one flush, one fault, minutes watched (36,690 states).
  `RateWithinFlushes`: a minute sees at most `(2 + restarts in it) * flushes * cap`
  requests: the flushes begun in it share one cap each, those under way when it began
  another, and a restart forgets the window. One flush and a cap of one make two requests
  without a restart and three with one, all of which occur; the factor for overlapping
  flushes is proved. It is recorded requests that are counted: one whose recording throws, or
  whose send had not resolved when the daemon died, is counted neither by the code nor here.
  `QueuedIsAsked`: the queue drains, as long as the daemon stays up and its store can be
  written.
  Fairness: weak for the running flush (code goes on); strong for the timer, a backoff
  that elapses, the rate window, the end of a watched minute and the success of a send,
  because messages that arrive in between interrupt each of them without cancelling it.
  That a send succeeds when tried often enough is an assumption about the transport; that
  anybody answers is not assumed.

Two flushes are exact: with three, two of them could share a Set taken out of the map,
which `flush` does not express (`FlushesAssumption`).

*Proved* (`BackfillProofs`, any finite set of references, any peers, any limits, one flush
or two): all five safety properties. The liveness of the queue stays with TLC. What
everything rests on is `Base`: the types, and `Entries`, which says how a flush and the map
it iterates over belong together: a flush that counts as attached has its peer's entry in
the map, and its batch is part of what it has left. On it stand four more.
- `Spending`: in a watched minute the stamps of young flushes, plus what those still have in
  their budgets, are within the cap for each flush; what else was sent, plus the budgets of
  the older ones, is within the same again, and once more for every restart. Counting the
  budgets is what makes it inductive, for a flush that resumes after an await no longer
  looks at the window; keeping young and old apart is needed because an old flush's stamp
  leaves room for a new one.
- `Trying`: the requests of a reference, plus the flushes that still mean to send it, exceed
  `MaxAttempts` by at most the other flush: a flush looks at the count when it takes a
  reference, not when it sends.
- `Attributed`: not only what is queued or in flight has an author on record, but also
  what a flush still holds, which comes to be in flight later.
- `Remembered`: what dangles from a message is chased, or held by a hook, from the moment it is
  indexed, seeded or not; what dangles from a held envelope once the queue was seeded. It is
  kept by `Kept`: no step takes a reference from the queue, from flight or from its count unless the reference
  resolves or `excused` has it, which the lemmas show flush step by flush step.

`Uuid` is assumed finite (`UuidAssumption`), since a batch is cut by its size.

*Left out:* serving requests (`buildServeBundles`), sizes of bundles, the seeding limit of 200, which no
small instance reaches.
Bundles whose author is not their sender are covered by `known` and `AuthorFound`.

### Ingest

*Code.* `history` is the core's messages of each chat, in the order they reached it; `ingested`, `own`,
`reactions`, `notified`, `notes` and `pending` are the store; `midCache` and
`transport` are memory. A handler (`tasks`) goes loading → indexed → derived, then
granting, or joining and settling, with an await between any two. Routes run the first
two steps only. The sweep collects chats in any order, indexes everything, then
derives everything, one message a step, and handlers run between. `Restart` drops
memory; with a newer schema, `Migrate` drops what can be derived again and keeps the
dedupe keys, notifications and pending requests (`store.ts` 671-710). `Ask` and
`Record` are the two halves of `POST follow`, which sends first and records after.

*Run `ingest`* (two handlers, interchangeable; one peer; one restart, possibly a
migration; one request of ours; one failed lookup; 1,771,311 states). The four casts
bring together a post of ours, a reaction, its retraction; the post and a reply; a
request and a grant; two grants. They are separate because what one peer says of one
post does not touch requests, and checked together because the actions are the same.
- `GrantedOnce`: a request is answered once, plus once per migration, as the code
  says. Freshness is decided in the indexing step, and two handlers of one message
  index one after the other.
- `NotifiedOnce`: one notification per event, also across a migration.
- `SweepNotifies`: after a sweep, everything it collected about our posts is notified,
  even when a chat with the reaction was swept before the one with the post: this is
  what two passes are for.
- `SweepRestoresTallies`: after a sweep crossed by no reaction handler, each tally is
  the last word of its author.
- `JoinsOnceIfAsked`: a feed is joined only on a grant of someone we asked, once.

*Proved* (`IngestProofs`, any messages, chats, peers, handlers, restarts, migrations and
failed lookups): all six. Four invariants carry them. `Answers`: at most one handler holds
the right to act on a message, which indexing gave it, and while it holds it the message
has been acted on no more often than there were migrations; a message that is not indexed
has not been acted on since the last one. `Notes`: a notification has its dedupe key.
`Passes`: what the index pass has been over is indexed, unless its mid is lost for good,
and what the derive pass has been over has its notifications; this needs that a mid that
was found is not lost again (`Sure`), or the second pass would meet a post the first had
skipped. `Chronicle` and `Tallies`: the list has the messages of a chat in their order, so
the last reaction in the part of it that was derived is the last word so far, and the
tally agrees with it; it rests on `ReactionsAssumption`, that what one author says of one
post is in one chat.

Only safety is checked and no fairness is assumed: nothing here retries, so what an
effect lost is lost until the next start.

*Left out:* aliases and copies of one post, body mentions, locked accounts, key pins,
streaming, unfollowing, exceptions of the store, several emoji, boosts apart from
replies. One route at a time asks one peer.

### ThreadChannels

*Code.* One thread whose root the host holds. `tasks` are the request handlers under way
(`handleThreadInviteRequest`), each where it awaits: the root's message, `createBroadcast`,
`chatInvite` and the grant, the bundles. `hosted` and `republished` are the host's store,
`offering` the replies the ingest hook or a posting route hands to
`republishReplyToThread`, which need not happen (`IngestReply`: who ingests a message first
uses up its freshness, and a route that shows it, the sweep, a handler without a transport
or one that throws passes nothing on), `posting` its awaited `postToChat`. `pending` and
`subscription` are the subscriber's store, `route` its `POST` or `DELETE .../subscribe`,
`joining` the awaited `follow()`. `requests`, `grants`, `bundles` and `posts` were sent
and stay there: a delivery removes nothing, so it may be repeated, late or never happen.
`member` is the host core's own view of a handshake, which may run behind or ahead of
the subscriber's `follow()`.

*Run `threads`* (one subscriber asking twice, a reply as a feed message with its DM copy
or written by the host itself, two handlers, two deliveries of requests, one restart:
1,797,328 states).
The subscriber that asks twice is what makes two channels: two handlers both find none,
both await `createBroadcast`, and the later one's is recorded while a grant of the other
may be joined. Two handlers are enough for that; more repeat it. Subscribers do not
touch each other's state, and neither do replies, so one of each shows what a member can
get or miss; the theorems have any number.
- `RepublishedOnce`: a reply is posted once, though it comes in several messages and by
  two callers: it is marked before the post is awaited.
- `NothingElseMissed`: what the host ingested from a feed or wrote itself reached the
  subscriber of the channel it posts to, in the thread so far or in the channel, unless it
  was posted before the core admitted the subscriber, its post failed or was cut off
  (`lost`: it is marked all the same, and never posted again), the message was not passed on
  by whoever ingested it first, after the subscriber's grant (`overlooked`), or one of the
  subscriber's requests was not fully served (`cut`). A member of the *other* channel of two is not
  covered, and gets nothing.
- `UnsubscribedStaysSo`: who unsubscribed with no join or request under way is not
  subscribed again by old grants that arrive again.

*Proved* (`ThreadChannelsProofs`, any subscribers, replies, messages, handlers, bounds):
`ThreadTypes`, `ThreadRepublishesOnce`, `ThreadStaysUnsubscribed`, `ThreadMissesNothing`. Types need counting:
a channel's number is in range because each is created by a delivery of its own, which
`Counted` says with the handlers that may still create one. `Once` says that an
awaited post is of a marked reply not yet posted, and the only one of it; `Settled` that
who left in peace has no request noted or on its way, and no join under way.
`NothingElseMissed` rests on `Follows`: nothing is granted before there is a channel
(`Unopened`), nobody is subscribed but by a grant (`Granted`), a marked reply is posted or
known to be lost (`Accounted`), and, what connects the two routes, every grantee was or is
being sent the replies the host met before it had a channel to post them to (`Told`).

*Left out:* which posts a bundle leaves out for size or privacy, signatures (the replies
are those that pass), threads whose root may not be served.

### DaemonLifecycle

*Code.* `accounts` and `core` are the address on disk and that of the core's data
directory; `lock`, `boot`, `creds`, `transport`, `provisional`, `closing` are fields of
`startDaemon`; `bound` is what `auth.bindAccount` was last given; `helper` the native
process of each transport; `op` the sign-up or restore under way, at most one because
`server.ts` admits one. The actions of an attempt are the stretches between its awaits;
each writes to disk whatever `closing` says, and looks at `closing` where the code does.
`stage` is how far `close` has come; `awaited`, `settled` and `owned` are its locals.

*Run `lifecycle`* (three attempts over three processes, one helper that exits by itself:
139,622 states). Three attempts are a failed one, its retry and one cut off by a
shutdown; with three processes an attempt can fail in one, be retried in the next and be
read by the third.
- `LockOutlivesWork`: when close has given the lock up, no sign-up is left that could write
  and no helper runs, but that of a restore (see `lifecycle_lock`) and one its own attempt
  or start failed to close (`stranded`): `bindAccount` threw in the clean-up before
  `opened.close()`, or that close rejected with the helper still running. Such an operation
  has settled, and close has nothing to wait for.
- `AccountIsOne`: a node that serves has one account on disk and in the authentication
  state, and the core is that account's, or was configured by an attempt that had failed.
- `ShutdownEnds`: fairness is `WF(CloseStep)`, and of nothing else: every stage of close
  is raced against a timer, so it goes on of itself. Operations, helpers and clients may
  hang for good.

*Run `lifecycle_lock`* is the finding of section 5.

*Proved* (`DaemonLifecycleProofs`, any number of attempts, restarts and exits):
`LifecycleInvariant`, `LifecycleTypes`, `LifecycleLockOutlivesWork`,
`LifecycleAccountIsOne`. The lock's condition is about `settled`, a flag that sums up a
history, so the invariant says what it stands for: `Owners` that while all is settled a
running helper is the published transport, a provisional one, one close has taken over,
the attempt's under way, the start's, or stranded; `Stages` that a sign-up that outlives the wait
has made `settled` false. `Accounts` says where an address on disk can come from: the
attempt under way, the one published, or one abandoned.

*Left out:* errors of the HTTP listener, desktop messages, the publication of runtime
files; the files of a restore, which are `RestoreJournal`.

### Sessions

*Code.* `data` and `disk` are `AuthData` in memory and in the file; everything random
(codes, clients, tokens, tickets) is the next unused number, so that age is order.
Operations of `auth.ts` are synchronous and save the whole file before they assign the copy
in memory; a save may throw before its rename or after it (`SaveFails`), and then memory
is as before and the file one or the other. `Configure`, `Publish` and `Rollback` are the
binding by sign-up and restore. `upgrading` and `streams` are sockets before and after
`onOpen`.

*Run `sessions`* (nine ids, two accounts, one failing write, one expiry, one restart; two
clients and one authorization code at most: 1,629,317 states). A chain from
an enrollment code to an open socket takes five ids, a binding or a revocation one each.
- `SingleUse`: a code makes one client or one session, a ticket one socket, also when the
  write of the use failed after its rename, or before, and the request is repeated.
- `OfOneAccount`: what is usable, in memory or in the file, was registered under the
  account that is bound.
- `EndedStaysEnded`: a revoked session does not come back from the file.
- `StreamsHaveSessions`: a socket is closed with its session, unless it was being
  upgraded at that moment (`raced`) or the session expired.

*Proved* (part one of `ServerProofs`, any accounts and bounds): all four, and the types. Memory and
file may differ, and a restart takes the file: the invariant therefore says of both
versions that they are `Good`: nothing is younger than the youngest id, ids are of one
thing, what was spent is not there, nobody is of another account, nobody ended is there.
The lemmas say what operations do to a good version: take away, add one fresh thing,
spend one.

*Left out:* `revokeAccessToken`, which nothing calls, and the signing of blob paths.

### BackupExport

*Code.* `under` and `mutationRevision` are the mutation barrier of `store.ts`, `exporting` the flag
of the route, `at`, `attempt`, `before` the locals of the handler, `stuck` a ghost: the exports
that ended without resetting the flag, because `mkdtempSync` threw, or `rmSync` in the
clean-up, or the answer's stream was cancelled before its first read. A change holds the
barrier and changes core and store in either order; `ChangeCore` and `Show` also happen
outside, as the core receives messages by itself and a GET route ingests what it shows.

*Run `export`* (two changes, two exports: 892,213 states). Two changes let one end and
another begin during one tar, so that a count of holders alone shows nothing.
- `BackupIsOneMoment`: the pair of tar and store was there at one moment with nothing
  under way. What the core received by itself and no route has shown is part of such a
  moment.
- `ExportEnds`: fairness is weak per export: an RPC resolves or rejects with its helper, a
  client reads on or goes. Two attempts are all there are, whatever changes meanwhile. The
  flag comes to be reset, and the next export may begin, unless one of the exports is
  `stuck`; the type invariant adds that nothing else holds the flag.

*Proved* (part two of `ServerProofs`, any changes, any number of exports): `ExportInvariant`,
`ExportTypesHold`, `ExportIsOneMoment`. `Still` says what a counter that has not moved
means: an equal revision that nothing is under way, an equal generation that the store is
what it was, both that tar and store were once together. `mutationRevision` is twice the
changes that ended plus those under way, which is why it cannot come back to a value.

### DesktopEnrollment

*Code.* The daemon's part is `POST /api/v1/apps` with its idempotency keys
(`transactions`), and what announces a new code; `events` and `posts` are the messages and
requests between the processes. The main process has the broker (`revision`, `current`)
and the variables of `main.ts` 230-275; `calls` are the registrations begun, each with what
it saw when it began. `held` is what the window was given.

*Run `desktop`* (three codes, four registrations: 1,392,349 states). Each code can be
asked for once and announced over, with two retries left.
- `NoClientLost`: a client the daemon made under the last code is held, answered, or
  obtained by the next request of the window, which carries the same key, until the window
  acknowledges. The exceptions are an expired code, and `dropped` (section 5).
- `HandsOutCurrent`: the window is given no client of an older code than the last
  published.

*Proved* (part three of `ServerProofs`, any codes and registrations): `EnrollInvariant`,
`EnrollTypes`, `EnrollLosesNone`, `EnrollHandsOutCurrent`. `NoClientLost` connects the daemon's
table to the main process's variables through two queues, so the invariant says what each
queue holds. `Numbered`: the codes under way are those between the broker's revision and the
daemon's last, in order, so that a code is never published twice. `Made`: a code makes one
client, and what is valid has made none. `Asking` and `Registering`: at most one registration
asks by the current code, it is the active one, and the transaction, if there is one, has its
key. `Posted`: a request by the daemon's valid code, whichever call it is of and whether or not
that call is still waiting, carries the key the main process would use again, unless a late
refusal dropped that key. `Answered`: an answer is a client made by this call's key and code,
or a refusal, and then that key and code never made one. `Offered`: the client kept is of the
revision published. The proof shows where the exception is needed: `Denied`, of a call whose
code is older than the transaction's, is the only step that takes the key of a client away.

Only safety is stated: a window that never asks again gets nothing.

*Left out:* the supervisor of the daemon's process, windows and menus.

## 4. Theorems, and what stays with TLC

| Theorem | States |
|---|---|
| `LockInvariant`, `LockTypes` | the inductive invariant and types of the lock |
| `LockExcludes`, `LockLosesToEarlier` | `Spec => []MutualExclusion`, `LosesOnlyToEarlier` |
| `StoreInvariant`, `StoreTypes` | the inductive invariant and types of the store file |
| `StoreAlwaysReadable`, `StoreCacheIsCurrent`, `StoreLosesNothingSeen` | `Spec => []AlwaysReadable`, `[]CacheIsCurrent`, `NothingSeenIsLost` |
| `RestoreInvariant`, `RestoreTypes` | the inductive invariant and types of the restore |
| `RestoreNeverRefuses` | `Spec => []NeverRefuses` |
| `RestoreIsAtomic` | `Spec => RestoresAtomically` (refinement of `AtomicRestore`) |
| `BackfillTypes`, `BackfillRate`, `BackfillAttempts` | `Spec => []TypeOK`, `[]RateWithinFlushes`, `[]AttemptsWithinFlushes` |
| `BackfillAttribution`, `BackfillForgetsNothingElse` | `Spec => []AskedIsAttributed`, `[]NothingElseForgotten` |
| `IngestInvariant`, `IngestTypes` | the inductive invariant and types of the ingest hook |
| `IngestGrantsOnce`, `IngestNotifiesOnce`, `IngestJoinsIfAsked` | `Spec => []GrantedOnce`, `[]NotifiedOnce`, `[]JoinsOnceIfAsked` |
| `IngestSweepNotifies`, `IngestSweepRestores` | `Spec => []SweepNotifies`, `[]SweepRestoresTallies` |
| `ThreadTypes`, `ThreadRepublishesOnce`, `ThreadStaysUnsubscribed` | `Spec => []TypeOK`, `[]RepublishedOnce`, `[]UnsubscribedStaysSo` |
| `ThreadMissesNothing` | `Spec => []NothingElseMissed` |
| `LifecycleInvariant`, `LifecycleTypes` | the inductive invariant and types of the daemon's life |
| `LifecycleLockOutlivesWork`, `LifecycleAccountIsOne` | `Spec => []LockOutlivesWork`, `[]AccountIsOne` |
| `SessionsInvariant`, `SessionsTypes` | the inductive invariant and types of the authentication store |
| `SessionsSingleUse`, `SessionsOfOneAccount`, `SessionsEndForGood`, `SessionsGuardStreams` | `Spec => []SingleUse`, `[]OfOneAccount`, `[]EndedStaysEnded`, `[]StreamsHaveSessions` |
| `ExportInvariant`, `ExportTypesHold`, `ExportIsOneMoment` | the inductive invariant, types, `BackupSpec => []BackupIsOneMoment` |
| `EnrollInvariant`, `EnrollTypes` | the inductive invariant and types of the enrollment |
| `EnrollLosesNone`, `EnrollHandsOutCurrent` | `EnrollSpec => []NoClientLost`, `HandsOutCurrent` |

They assume only the named `ASSUME`s of their modules: a pid per process; a backup's
parts are from the constants' sets; `None` and `NoAccount` are none of the values they
stand beside, nor are the marks of a missing or corrupt file; there is a subscriber and a
message; what one author says of one post is in one chat; there are finitely many references, and one
flush or two; bounds are natural numbers. TLC evaluates these in
the runs. The inductive invariants are those of the `Proofs` modules; why each is needed is
said with its module in section 3.

Every safety property of a passing run is proved. Only model-checked is liveness
(`AttemptEnds`, `QueuedIsAsked`, `ShutdownEnds`, `ExportEnds`), which is outside the prover's
reach, as are recursive definitions over data. `LockHeldByOwner` is violated (section 5).

## 5. What the models found

One finding has a run. `lifecycle_lock`: a restore is admitted while the daemon closes,
because its handler is tracked only from the import on: it spawns a helper nobody waits
for, and the lock is given up under it. `DEVLOG.md` says the lock is never released
while a helper or operation may own the data path. `LockOutlivesWork` says what else can
happen: no sign-up outlives the lock, but the helper of a failed clean-up may (below).

The others are stated here, at their lines. A property named with one allows for it in its
statement, so that its run shows there is nothing beside it.

- `interprocess-lock.ts` 82, 151, 153: a process killed between the open and the write of a
  done marker leaves an empty marker, which every later contender rejects as malformed;
  nobody reclaims it, though a comment says a later process will.
- `backfill.ts` 209-210, 300: `pending.delete(peer)` deletes the Set the peer has now, not the
  one the flush emptied: references queued meanwhile leave the queue unsent.
  (`NothingElseForgotten`)
- `daemon.ts` 576, 743-745, `backfill-ingest.ts` 237-239: after a restart only held envelopes
  are seeded; what a local message refers to is chased by nobody. (`NothingElseForgotten`)
- `daemon.ts` 547-577: the awaits between `ingestMessage` and `enqueueDangling` may throw, and
  the message is not fresh again; `server.ts` 600-616: nor is one that a route shows before
  its event is handled. Nobody queues its references. (`NothingElseForgotten`)
- `backfill-ingest.ts` 146-156: a store write that throws once an envelope is held leaves its
  references unqueued, and the repeated bundle is not `stored`. (`NothingElseForgotten`)
- `backfill.ts` 225, 256, 291: the rate window is lost by a restart, and a request is stamped
  with the time its flush began and leaves the window early. (`RateWithinFlushes`)
- `backfill.ts` 289-298: when recording an attempt throws, the request has gone out and the
  catch, which says the refs are left queued, finds some out of the queue and in flight. The
  rate window does not see the request (`RateWithinFlushes` counts what is recorded).
- `backfill.ts` 51-53, 310: a request that is never answered keeps its reference in flight for
  the life of the process: the documented backoff and give-up never happen.
- `ingest.ts` 330-336, against `meta/issues/follow-back-invite-request.md` 26-27: the derive
  pass of a start clears a pending follow request because of a grant older than the
  request; the real grant is then ignored. (`JoinsOnceIfAsked`)
- `daemon.ts` 815, against `meta/issues/atomic-store-persistence.md` 72-73: ingestion runs
  before a restore is committed and published; a rollback takes back what it wrote.
  (`RestoresAtomically` holds all the same: these edits were never part of the published
  node.)
- `thread-subscribe.ts` 103-108: the channel is created lazily, and two concurrent requests
  create two. Members of the first get no posts. (`NothingElseMissed`)
- `thread-subscribe.ts` 70-130: a request has no freshness gate, unlike `daemon.ts` 549-556:
  each repeated delivery grants and sends the thread again.
- `daemon.ts` 629, `server.ts` 600-616: a reply first ingested by a route, by the index pass of
  the sweep, without a transport or by a handler that throws is never republished, though
  `thread-subscribe.ts` means to republish every signed reply. (`NothingElseMissed`)
- `thread-subscribe.ts` 172: replies that come only as DM copies are not republished, against
  `meta/issues/thread-subscribe.md` 43-46. (`NothingElseMissed` leaves them out.)
- `server.ts` 2956-2967: a `DELETE .../subscribe` crossed by a join, or by a request of the same
  user, leaves the user subscribed. (`UnsubscribedStaysSo`)
- `daemon.ts` 758-790: an attempt that fails after the core was configured leaves it so. A
  sign-up that is tried again writes new credentials beside a core configured for the
  abandoned address; a restore that is tried again fails for good. (`AccountIsOne`)
- `daemon.ts` 784-787: `auth.bindAccount` throwing in the sign-up's catch skips `opened.close()`,
  when the transport has left `provisionalTransports` already; and `deltachat.ts` 64-85:
  `close` rejects when the helper has not exited after its SIGKILL. The helper runs on with no
  owner, and the lock is given up under it. (`LockOutlivesWork`)
- `daemon.ts` 826-842: a restore whose commit fails after `bindAccount` leaves the node without
  an enrollment code until its restart.
- `server.ts` 1125-1134, 236-243: `mkdtempSync` throws after the export's flag is set and outside
  the `try`; `cleanup` removes the scratch directory before it resets the flag, and cannot run
  twice; a stream cancelled before its first read never runs it. Every later export is refused
  until the restart. (`ExportEnds`)
- `server.ts` 1554: a socket that is still being upgraded when its session is revoked is not
  closed. (`StreamsHaveSessions`)
- `desktop/src/main.ts` 255-257: a refusal of an older code that arrives late drops the
  idempotency key of a newer registration: if that one's answer is lost, so is its client.
  (`NoClientLost`)
- `deltachat.ts` 725-726 holds double delivery to be harmless: a reaction delivered again
  after its retraction is applied again, and stays until the next start. So does a
  retraction that lands during the derive pass of the sweep.
- A request whose freshness the index pass consumed, or a handler that ran before the
  transport was assigned, is never granted (`ingest.ts` 353-355 accepts it).
- `POST follow` sends before it records: a grant that is faster is ignored.
- Two replies by one author to one post notify once: the dedupe key has the parent and
  not the reply.
- Overlapping flushes exceed the documented requests per minute, as do flushes under way when
  a minute begins, by at most a factor of twice their number; a failed send uses up a round.
- A bundle that nobody asked for is held under its sender unless something held names
  another author.

## 6. Not modelled

- **Post keys and mapping**: learnAlias and applyAlias are synchronous functions on the
  store's contents, which the models keep opaque or keyed already.
- **Byte formats and pure functions** (backup container, envelopes, canonical bytes and
  signatures, wire text, media sniffing and limits, the mapping to Mastodon entities) have no
  interleaving and are covered by vector tests.
- **The rest of the transport** wraps RPC calls. `ensureFeedChat` has the shape of the
  channel creation in `ThreadChannels`: two callers may create two feeds.
- **Streaming**: what is published, and the bounded list of streamed ids. A message whose
  id has fallen out of the list of a thousand is streamed again.
- **Desktop supervisor, windows, menus, paths**: the supervisor's promises settle each by one
  callback in one process.
- **Frontend**: rendering, and a reconnecting stream whose state does not outlive the page.

`components` in `PROJECT.json` says of each part what is modelled of it.
