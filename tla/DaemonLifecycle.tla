---------------------------- MODULE DaemonLifecycle ----------------------------
(***************************************************************************)
(* One account's daemon from start to shutdown: startDaemon and close of   *)
(* daemon.ts, the sign-up and restore operations it offers to server.ts,   *)
(* restore-lifecycle.ts, and the native helper each transport runs.        *)
(*                                                                         *)
(* An attempt to configure the node is one HTTP request; server.ts admits  *)
(* one at a time and none on a configured node.  Shutdown goes through     *)
(* stages that each wait for something or give up at a deadline: requests  *)
(* in progress, tracked lifecycle operations, helpers.  A handler whose    *)
(* connection is cut goes on.  At the end the lock on the account is given *)
(* up, unless an operation or a helper overran.                            *)
(*                                                                         *)
(* An attempt that fails, and a start that fails before it has a transport,*)
(* close their own helper.  That can fail, and nobody looks: the helper    *)
(* does not exit, or a failed write of the authentication state comes      *)
(* before the close.  stranded names the helpers left running that way.    *)
(*                                                                         *)
(* Address n is the one attempt n registers or restores.  The journal of a *)
(* restore and the order of its writes are those of RestoreJournal; here a *)
(* write of account state is only a moment at which the lock must be held. *)
(* Process exit and its restart are one step: the helper of a process dies *)
(* with it, and a lock of a dead process is anybody's.                     *)
(***************************************************************************)
EXTENDS Naturals, FiniteSets

CONSTANTS
  MaxAttempts,  \* bound: sign-ups and restores, of all processes together
  MaxRestarts,  \* bound: processes after the first
  MaxExits      \* bound: helpers that exit of themselves

ASSUME BoundsAssumption == {MaxAttempts, MaxRestarts, MaxExits} \subseteq Nat

NoAccount == 0
None == MaxAttempts + 1       \* no transport
Booted == 0                   \* the transport of a start; attempt n opens transport n
Attempt == 1..MaxAttempts
Transport == {Booted} \union Attempt
Idle == [kind |-> "none", at |-> "idle", n |-> 0]

VARIABLES
  accounts,     \* disk: the address in the accounts file
  core,         \* disk: the address the core's data directory is configured for
  lock,         \* whether this process holds the lock of the account
  boot,         \* "opening", "announcing", "ready" or "failed"
  creds,        \* the address startDaemon read
  bound,        \* auth.ts: the address the authentication state is bound to
  transport,    \* what getTransport() returns
  provisional,  \* provisionalTransports
  helper,       \* the native helper of each transport: "none", "running", "stopped"
  op,           \* the attempt under way
  closing,
  stage,        \* of close: "none", "http", "operations", "transports", "done"
  awaited,      \* the tracked operations close waits for
  settled,      \* lifecycleSettled and transportsStopped, so far
  owned,        \* the transports close is stopping
  attempts, restarts, exits,
  stranded,     \* ghost: transports whose helper an attempt or a start failed to close
  abandoned,    \* ghost: attempts that ended without their transport being published
  strayed       \* ghost: kinds of operations that wrote account state without the lock

disk == <<accounts, core>>
closeVars == <<closing, stage, awaited, settled, owned>>
counters == <<attempts, restarts, exits>>
vars == <<accounts, core, lock, boot, creds, bound, transport, provisional, helper, op,
          closing, stage, awaited, settled, owned, attempts, restarts, exits,
          stranded, abandoned, strayed>>

Init ==
  /\ accounts = NoAccount /\ core = NoAccount
  /\ lock = TRUE
  /\ boot = "ready" /\ creds = NoAccount /\ bound = NoAccount
  /\ transport = None /\ provisional = {}
  /\ helper = [t \in Transport |-> "none"]
  /\ op = Idle
  /\ closing = FALSE /\ stage = "none" /\ awaited = {} /\ settled = TRUE /\ owned = {}
  /\ attempts = 0 /\ restarts = 0 /\ exits = 0
  /\ stranded = {} /\ abandoned = {} /\ strayed = {}

-----------------------------------------------------------------------------
(* What the steps of an attempt have in common.                            *)

At(kind, at) == op.kind = kind /\ op.at = at
GoTo(at) == op' = [op EXCEPT !.at = at]
EndOp == op' = Idle

\* trackLifecycleOperation: a restore is tracked only until it is prepared.
tracked == op.kind = "signup" \/ op.at \in {"importing", "refusing"}

\* A write of the accounts file, the auth state, the journal or what it installs.
Touch == strayed' = IF lock THEN strayed ELSE strayed \union {op.kind}

Run(t) == helper' = [helper EXCEPT ![t] = "running"]
Halt(t) == helper' = [helper EXCEPT ![t] = "stopped"]
Strand(t) == stranded' = stranded \union {t} /\ UNCHANGED helper

\* The owner's `await close()` of a helper, which rejects when the helper has not
\* exited after SIGKILL.
CloseHelper(t) ==
  \/ Halt(t) /\ UNCHANGED stranded
  \/ helper[t] = "running" /\ Strand(t)

Configured(n) == IF core = NoAccount THEN n ELSE core
Abandon == abandoned' = abandoned \union {op.n}

\* publish; the mutant leaves the authentication state bound as it was.
PublishUnbound(n) == transport' = n /\ bound' = bound
Publish(n) == transport' = n /\ bound' = n

Start(kind, at) ==
  /\ boot = "ready" /\ ~closing
  /\ transport = None /\ op = Idle
  /\ attempts < MaxAttempts
  /\ attempts' = attempts + 1
  /\ op' = [kind |-> kind, at |-> at, n |-> attempts + 1]
  /\ UNCHANGED <<disk, lock, boot, creds, bound, transport, provisional, helper>>
  /\ UNCHANGED <<closeVars, restarts, exits, stranded, abandoned, strayed>>

-----------------------------------------------------------------------------
(* Sign-up.                                                                *)

SignUp == Start("signup", "registering")

RegisterFails ==
  /\ At("signup", "registering")
  /\ EndOp
  /\ UNCHANGED <<disk, lock, boot, creds, bound, transport, provisional, helper>>
  /\ UNCHANGED <<closeVars, counters, stranded, abandoned, strayed>>

\* The credentials are written before anything is opened with them.
Registered ==
  /\ At("signup", "registering")
  /\ accounts' = op.n
  /\ Touch
  /\ Run(op.n)
  /\ GoTo("opening")
  /\ UNCHANGED <<core, lock, boot, creds, bound, transport, provisional>>
  /\ UNCHANGED <<closeVars, counters, stranded, abandoned>>

\* The catch of signup: the transport is nobody's, the authentication state is
\* bound as it was at the start, and then the helper closed; a write that throws
\* skips the close.  reached: what the authentication state may be bound to by now.
TurnBack(reached) ==
  /\ provisional' = provisional \ {op.n}
  /\ Touch
  /\ \/ bound' = creds /\ GoTo("refusing") /\ UNCHANGED <<helper, stranded, abandoned>>
     \/ bound' \in reached \ {creds} /\ Strand(op.n) /\ Abandon /\ EndOp

\* openTransport configures the core only when it is not configured yet.
Opened ==
  /\ At("signup", "opening")
  /\ core' = Configured(op.n)
  /\ IF closing
     THEN TurnBack({bound})
     ELSE /\ provisional' = provisional \union {op.n}
          /\ GoTo("announcing")
          /\ UNCHANGED <<bound, helper, stranded, abandoned, strayed>>
  /\ UNCHANGED <<accounts, lock, boot, creds, transport>>
  /\ UNCHANGED <<closeVars, counters>>

\* openTransport fails, before or after the core is configured, or is aborted by
\* the shutdown: it closes its helper.
OpenFails ==
  /\ At("signup", "opening")
  /\ core' \in {core, Configured(op.n)}
  /\ CloseHelper(op.n)
  /\ Abandon
  /\ EndOp
  /\ UNCHANGED <<accounts, lock, boot, creds, bound, transport, provisional>>
  /\ UNCHANGED <<closeVars, counters, strayed>>

\* The helper answered; publication unless the shutdown began meanwhile, which
\* the code looks at once it has bound the authentication state.
Announced ==
  /\ At("signup", "announcing")
  /\ helper[op.n] = "running"
  /\ IF closing
     THEN TurnBack({op.n}) /\ UNCHANGED transport
     ELSE /\ provisional' = provisional \ {op.n}
          /\ Touch
          /\ Publish(op.n) /\ EndOp
          /\ UNCHANGED <<helper, stranded, abandoned>>
  /\ UNCHANGED <<disk, lock, boot, creds>>
  /\ UNCHANGED <<closeVars, counters>>

\* No answer, or a write of the authentication state fails.
AnnounceFails ==
  /\ At("signup", "announcing")
  /\ TurnBack({bound, op.n})
  /\ UNCHANGED <<disk, lock, boot, creds, transport>>
  /\ UNCHANGED <<closeVars, counters>>

\* `await opened.close()`, then the error goes to the route.
Refused ==
  /\ At("signup", "refusing")
  /\ CloseHelper(op.n)
  /\ Abandon
  /\ EndOp
  /\ UNCHANGED <<disk, lock, boot, creds, bound, transport, provisional>>
  /\ UNCHANGED <<closeVars, counters, strayed>>

-----------------------------------------------------------------------------
(* Restore.                                                                *)

Restore == Start("restore", "unpacking")

UnpackFails ==
  /\ At("restore", "unpacking")
  /\ EndOp
  /\ UNCHANGED <<disk, lock, boot, creds, bound, transport, provisional, helper>>
  /\ UNCHANGED <<closeVars, counters, stranded, abandoned, strayed>>

\* beginSidecarRestore writes the journal; restoreTransport spawns the helper.
BeginRestore ==
  /\ At("restore", "unpacking")
  /\ Touch
  /\ Run(op.n)
  /\ GoTo("importing")
  /\ UNCHANGED <<disk, lock, boot, creds, bound, transport, provisional>>
  /\ UNCHANGED <<closeVars, counters, stranded, abandoned>>

\* The tar is imported into an unconfigured core, the sidecar files installed.
Imported ==
  /\ At("restore", "importing")
  /\ core = NoAccount
  /\ core' = op.n
  /\ Touch
  /\ IF closing
     THEN GoTo("refusing") /\ UNCHANGED provisional
     ELSE GoTo("validating") /\ provisional' = provisional \union {op.n}
  /\ UNCHANGED <<accounts, lock, boot, creds, bound, transport, helper>>
  /\ UNCHANGED <<closeVars, counters, stranded, abandoned>>

\* The core is configured already, the import fails or is aborted: the helper is
\* closed, and the route rolls the journal back.
ImportFails ==
  /\ At("restore", "importing")
  /\ core' \in {core, Configured(op.n)}
  /\ CloseHelper(op.n)
  /\ Touch
  /\ Abandon
  /\ EndOp
  /\ UNCHANGED <<accounts, lock, boot, creds, bound, transport, provisional>>
  /\ UNCHANGED <<closeVars, counters>>

\* The route compares addresses, then commits.
Validated ==
  /\ At("restore", "validating")
  /\ helper[op.n] = "running"
  /\ GoTo("committing")
  /\ UNCHANGED <<disk, lock, boot, creds, bound, transport, provisional, helper>>
  /\ UNCHANGED <<closeVars, counters, stranded, abandoned, strayed>>

ValidateFails ==
  /\ At("restore", "validating")
  /\ provisional' = provisional \ {op.n}
  /\ GoTo("abandoning")
  /\ UNCHANGED <<disk, lock, boot, creds, bound, transport, helper>>
  /\ UNCHANGED <<closeVars, counters, stranded, abandoned, strayed>>

\* prepareCommit persists the credentials; publish refuses once closing is set,
\* and the journal, committed by then, is finished all the same.  Unlike a sign-up's,
\* a restore's rollback whose write throws still closes the helper.
Committed ==
  /\ At("restore", "committing")
  /\ helper[op.n] = "running"
  /\ accounts' = op.n
  /\ Touch
  /\ provisional' = provisional \ {op.n}
  /\ IF closing
     THEN bound' \in {creds, op.n} /\ GoTo("abandoning") /\ UNCHANGED transport
     ELSE Publish(op.n) /\ EndOp
  /\ UNCHANGED <<core, lock, boot, creds, helper>>
  /\ UNCHANGED <<closeVars, counters, stranded, abandoned>>

CommitFails ==
  /\ At("restore", "committing")
  /\ provisional' = provisional \ {op.n}
  /\ bound' \in {creds, bound, op.n} /\ Touch
  /\ GoTo("abandoning")
  /\ UNCHANGED <<disk, lock, boot, creds, transport, helper>>
  /\ UNCHANGED <<closeVars, counters, stranded, abandoned>>

\* The prepared restore is closed, then the journal rolled back or finished.
Abandoned ==
  /\ op.kind = "restore" /\ op.at \in {"refusing", "abandoning"}
  /\ CloseHelper(op.n)
  /\ Touch
  /\ Abandon
  /\ EndOp
  /\ UNCHANGED <<disk, lock, boot, creds, bound, transport, provisional>>
  /\ UNCHANGED <<closeVars, counters>>

-----------------------------------------------------------------------------
(* Start.                                                                  *)

BeginClose == closing' = TRUE /\ stage' = "http" /\ UNCHANGED <<awaited, settled, owned>>

BootOpened ==
  /\ boot = "opening"
  /\ core' = Configured(accounts)
  /\ transport' = Booted
  /\ boot' = "announcing"
  /\ UNCHANGED <<accounts, lock, creds, bound, provisional, helper, op>>
  /\ UNCHANGED <<closeVars, counters, stranded, abandoned, strayed>>

BootReady ==
  /\ boot = "announcing"
  /\ helper[Booted] = "running"
  /\ boot' = "ready"
  /\ UNCHANGED <<disk, lock, creds, bound, transport, provisional, helper, op>>
  /\ UNCHANGED <<closeVars, counters, stranded, abandoned, strayed>>

\* An error, an abort or the helper's exit before readiness; the core may be
\* configured by then.  openTransport closes its helper, startDaemon what it has.
BootFails ==
  /\ boot \in {"opening", "announcing"}
  /\ boot' = "failed"
  /\ core' \in IF boot = "opening" THEN {core, Configured(accounts)} ELSE {core}
  /\ IF boot = "opening" THEN CloseHelper(Booted) ELSE UNCHANGED <<helper, stranded>>
  /\ BeginClose
  /\ UNCHANGED <<accounts, lock, creds, bound, transport, provisional, op>>
  /\ UNCHANGED <<counters, abandoned, strayed>>

-----------------------------------------------------------------------------
(* Shutdown.                                                               *)

Close ==
  /\ boot = "ready" /\ ~closing
  /\ BeginClose
  /\ UNCHANGED <<disk, lock, boot, creds, bound, transport, provisional, helper, op>>
  /\ UNCHANGED <<counters, stranded, abandoned, strayed>>

\* A helper exits: watchNativeCore closes the daemon when it is the published one.
HelperExits(t) ==
  /\ exits < MaxExits
  /\ helper[t] = "running"
  /\ exits' = exits + 1
  /\ Halt(t)
  /\ IF t = transport /\ boot = "ready" /\ ~closing THEN BeginClose ELSE UNCHANGED closeVars
  /\ UNCHANGED <<disk, lock, boot, creds, bound, transport, provisional, op>>
  /\ UNCHANGED <<attempts, restarts, stranded, abandoned, strayed>>

\* The requests are answered, or their connections cut before the deadline.
HttpClosed ==
  /\ stage = "http"
  /\ stage' = "operations"
  /\ awaited' = IF tracked THEN {op.n} ELSE {}
  /\ UNCHANGED <<disk, lock, boot, creds, bound, transport, provisional, helper, op>>
  /\ UNCHANGED <<closing, settled, owned, counters, stranded, abandoned, strayed>>

\* The mutants: a passed deadline counts as settled; there is no deadline.
OverdueForgiven == FALSE
Overdue == tracked /\ op.n \in awaited

\* The tracked operations ended, or the deadline passed; the transports there are
\* now are taken over.
Take(inTime) ==
  /\ stage' = "transports"
  /\ settled' = inTime
  /\ owned' = provisional \union ({transport} \ {None})
  /\ provisional' = {}
  /\ transport' = None
  /\ UNCHANGED <<disk, lock, boot, creds, bound, helper, op>>
  /\ UNCHANGED <<closing, awaited, counters, stranded, abandoned, strayed>>

OperationsSettled == stage = "operations" /\ ~Overdue /\ Take(TRUE)
NeverOverrun == FALSE
OperationsOverrun == stage = "operations" /\ Overdue /\ Take(FALSE)

\* close() or forceClose() of a transport, in time; or neither.
StopTransport(t) ==
  /\ stage = "transports" /\ t \in owned
  /\ owned' = owned \ {t}
  /\ \/ Halt(t) /\ settled' = settled
     \/ helper[t] = "running" /\ UNCHANGED helper /\ settled' = FALSE
  /\ UNCHANGED <<disk, lock, boot, creds, bound, transport, provisional, op>>
  /\ UNCHANGED <<closing, stage, awaited, counters, stranded, abandoned, strayed>>

Closed ==
  /\ stage = "transports" /\ owned = {}
  /\ stage' = "done"
  /\ lock' = ~settled
  /\ UNCHANGED <<disk, boot, creds, bound, transport, provisional, helper, op>>
  /\ UNCHANGED <<closing, awaited, settled, owned, counters, stranded, abandoned, strayed>>

\* The process exits, is killed or crashes, and another starts.
Restart ==
  /\ restarts < MaxRestarts
  /\ restarts' = restarts + 1
  /\ lock' = TRUE
  /\ creds' = accounts /\ bound' = accounts
  /\ boot' = IF accounts = NoAccount THEN "ready" ELSE "opening"
  /\ helper' = [t \in Transport |->
                  IF t = Booted /\ accounts # NoAccount THEN "running" ELSE "none"]
  /\ transport' = None /\ provisional' = {} /\ stranded' = {}
  /\ abandoned' = IF op = Idle THEN abandoned ELSE abandoned \union {op.n}
  /\ EndOp
  /\ closing' = FALSE /\ stage' = "none" /\ awaited' = {} /\ settled' = TRUE /\ owned' = {}
  /\ UNCHANGED <<disk, attempts, exits, strayed>>

SignUpStep ==
  SignUp \/ RegisterFails \/ Registered \/ Opened \/ OpenFails
  \/ Announced \/ AnnounceFails \/ Refused
RestoreStep ==
  Restore \/ UnpackFails \/ BeginRestore \/ Imported \/ ImportFails
  \/ Validated \/ ValidateFails \/ Committed \/ CommitFails \/ Abandoned
CloseStep ==
  HttpClosed \/ OperationsSettled \/ OperationsOverrun
  \/ (\E t \in Transport : StopTransport(t)) \/ Closed

Next ==
  \/ SignUpStep \/ RestoreStep
  \/ BootOpened \/ BootReady \/ BootFails
  \/ Close \/ (\E t \in Transport : HelperExits(t))
  \/ CloseStep
  \/ Restart

(* Every stage of close is raced against a timer, so each ends of itself;  *)
(* nothing is assumed of the operations and of the helpers.                *)
Spec == Init /\ [][Next]_vars /\ WF_vars(CloseStep)

-----------------------------------------------------------------------------
TypeOK ==
  /\ {accounts, core, creds, bound} \subseteq Attempt \union {NoAccount}
  /\ lock \in BOOLEAN /\ closing \in BOOLEAN /\ settled \in BOOLEAN
  /\ boot \in {"opening", "announcing", "ready", "failed"}
  /\ transport \in Transport \union {None}
  /\ provisional \union owned \subseteq Transport
  /\ helper \in [Transport -> {"none", "running", "stopped"}]
  /\ op \in [kind : {"none", "signup", "restore"},
             at : {"idle", "registering", "opening", "announcing", "refusing", "unpacking",
                   "importing", "validating", "committing", "abandoning"},
             n : Attempt \union {0}]
  /\ stage \in {"none", "http", "operations", "transports", "done"}
  /\ awaited \union abandoned \subseteq Attempt
  /\ stranded \subseteq {Booted} \union abandoned
  /\ strayed \subseteq {"signup", "restore"}
  /\ attempts \in 0..MaxAttempts /\ restarts \in 0..MaxRestarts /\ exits \in 0..MaxExits

(* Who takes the lock over finds nobody at work: when shutdown has given   *)
(* the lock of the account up, no helper runs and no sign-up goes on, and  *)
(* no sign-up wrote since, whichever operations and helpers overran.  The  *)
(* exceptions are a restore, whose handler is tracked only while it        *)
(* imports, and goes on after its connection is cut; and a helper that its *)
(* own attempt or start failed to close, which nobody owns after that.     *)
LockOutlivesWork ==
  /\ ~lock => /\ \A t \in Transport : helper[t] = "running" =>
                     t \in stranded \/ (op.kind = "restore" /\ op.n = t)
              /\ op.kind # "signup"
  /\ strayed \subseteq {"restore"}

(* Credentials, authentication state and core are of one account whenever  *)
(* the node serves, whichever attempts failed, overran or were cut off     *)
(* before, but for a core that an attempt left configured when it failed.  *)
AccountIsOne ==
  transport # None => bound = accounts /\ (core = accounts \/ core \in abandoned)

(* Shutdown ends, whatever hangs: an operation, a helper, a client.        *)
ShutdownEnds == closing ~> (~closing \/ stage = "done")

(* DEVLOG.md: "the lock is never released while a helper or lifecycle      *)
(* operation may still own the data path".                                 *)
LockHeldByOwner == ~lock => \A t \in Transport : helper[t] # "running"
=============================================================================
