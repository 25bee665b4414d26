-------------------------- MODULE InterprocessLock --------------------------
(***************************************************************************)
(* The filesystem ticket lock of daemon/src/interprocess-lock.ts.          *)
(*                                                                         *)
(* A queue directory holds one immutable ticket per acquisition attempt    *)
(* (a hard link to the attempt's owner record, so it appears complete) and *)
(* one done marker per finished ticket (an ordinary file, so it appears    *)
(* EMPTY first and gets its contents afterwards).  An attempt links the    *)
(* next ticket, walks the tickets before it, fails when one of them is     *)
(* unfinished and its process is live, and marks it done when that process *)
(* is dead.  Nobody waits: an attempt that does not win abandons its own   *)
(* ticket.                                                                 *)
(*                                                                         *)
(* A process is one incarnation: it starts once and dies once, at any step *)
(* (kill), or through its exit handler.  Pids are recycled, so several     *)
(* incarnations may share one, one live at a time.                         *)
(***************************************************************************)
EXTENDS Naturals, Sequences, FiniteSets

CONSTANTS
  Proc,        \* process incarnations (PROCESS_INCARNATION)
  Pid,         \* operating-system process ids
  PidOf,       \* the pid each incarnation runs under
  MaxTickets,  \* bound: tickets ever linked
  Lifetime     \* TRUE: every caller uses acquireProcessLifetimeInterprocessLock

ASSUME PidOfAssumption == PidOf \in [Proc -> Pid]
ASSUME MaxTicketsAssumption == MaxTickets \in Nat
ASSUME LifetimeAssumption == Lifetime \in BOOLEAN

VARIABLES
  status,      \* [Proc -> {"unborn", "live", "dead"}]
  queue,       \* queue[n] is the incarnation in the owner record of ticket n
  created,     \* tickets whose done marker exists
  complete,    \* those among them whose marker has its contents
  pc,          \* where each process is inside the lock's code
  latest,      \* the highest ticket number its last readTickets returned
  my,          \* ticket of the attempt in progress, 0 when none
  scan,        \* the predecessor it inspects next
  target,      \* the ticket markDone is working on
  then,        \* what follows that markDone
  held,        \* ticket of the lock it holds, 0 when none
  registered   \* ticket of its processLifetimeLocks entry, 0 when none

vars == <<status, queue, created, complete, pc, latest, my, scan, target, then, held, registered>>

markers == <<created, complete>>
attempt == <<latest, my, scan>>
marking == <<target, then>>

Init ==
  /\ status = [p \in Proc |-> "unborn"]
  /\ queue = << >>
  /\ created = {}
  /\ complete = {}
  /\ pc = [p \in Proc |-> "idle"]
  /\ latest = [p \in Proc |-> 0]
  /\ my = [p \in Proc |-> 0]
  /\ scan = [p \in Proc |-> 0]
  /\ target = [p \in Proc |-> 0]
  /\ then = [p \in Proc |-> "scan"]
  /\ held = [p \in Proc |-> 0]
  /\ registered = [p \in Proc |-> 0]

\* Tickets whose marker exists without its contents.
partial == created \ complete

Live(p) == status[p] = "live"

\* process.kill(pid, 0): some live process runs under that pid.
PidInUse(d) == \E q \in Proc : Live(q) /\ PidOf[q] = d

(* The verdict of p on the owner q of a predecessor.  A pid equal to p's   *)
(* own with another incarnation is a predecessor that cannot be alive.     *)
processIsLive(p, q) ==
  /\ ~(PidOf[q] = PidOf[p] /\ q # p)
  /\ PidInUse(PidOf[q])

\* Bug: doneName of the next ticket number.
MarkNextOffByOne(p, t, what) ==
  /\ pc' = [pc EXCEPT ![p] = "open"]
  /\ target' = [target EXCEPT ![p] = t + 1]
  /\ then' = [then EXCEPT ![p] = what]

\* p enters markDone for ticket t, and goes on to `what' afterwards.
MarkNext(p, t, what) ==
  /\ pc' = [pc EXCEPT ![p] = "open"]
  /\ target' = [target EXCEPT ![p] = t]
  /\ then' = [then EXCEPT ![p] = what]

----------------------------------------------------------------------------
\* Processes come and go.

Start(p) ==
  /\ status[p] = "unborn"
  /\ ~PidInUse(PidOf[p])
  /\ status' = [status EXCEPT ![p] = "live"]
  /\ UNCHANGED <<queue, markers, pc, attempt, marking, held, registered>>

\* The incarnation is gone and its memory with it; its files stay.
Vanish(p) ==
  /\ status' = [status EXCEPT ![p] = "dead"]
  /\ pc' = [pc EXCEPT ![p] = "idle"]
  /\ my' = [my EXCEPT ![p] = 0]
  /\ target' = [target EXCEPT ![p] = 0]
  /\ held' = [held EXCEPT ![p] = 0]
  /\ registered' = [registered EXCEPT ![p] = 0]
  /\ latest' = [latest EXCEPT ![p] = 0]
  /\ scan' = [scan EXCEPT ![p] = 0]
  /\ then' = [then EXCEPT ![p] = "scan"]
  /\ UNCHANGED queue

\* SIGKILL or a crash, between any two steps.
Kill(p) == Live(p) /\ Vanish(p) /\ UNCHANGED markers

(* The 'exit' handler marks the lifetime lock's ticket done; a process     *)
(* without a registry entry just goes.                                     *)
Exit(p) ==
  /\ Live(p) /\ pc[p] = "idle"
  /\ IF registered[p] # 0
     THEN /\ MarkNext(p, registered[p], "exit")
          /\ held' = [held EXCEPT ![p] = 0]
          /\ UNCHANGED <<status, queue, attempt, registered>>
     ELSE Vanish(p)
  /\ UNCHANGED markers

----------------------------------------------------------------------------
\* markDone: create the marker exclusively, then write its contents.

(* The markDone of p returned: an inspection goes on to the next ticket,   *)
(* an abandoned attempt or a release ends, an exiting process ends.        *)
Marked(p) ==
  IF then[p] = "exit" THEN Vanish(p)
  ELSE /\ pc' = [pc EXCEPT ![p] = IF then[p] = "scan" THEN "scan" ELSE "idle"]
       /\ scan' = [scan EXCEPT ![p] = IF then[p] = "scan" THEN @ + 1 ELSE @]
       /\ my' = [my EXCEPT ![p] = IF then[p] = "abandon" THEN 0 ELSE @]
       /\ registered' = [registered EXCEPT ![p] = IF then[p] = "release" THEN 0 ELSE @]
       /\ target' = [target EXCEPT ![p] = 0]
       /\ UNCHANGED <<status, queue, latest, then, held>>

(* The markDone of p threw: an inspection abandons the attempt, every      *)
(* other caller gives up and leaves the ticket as it is (the exit handler  *)
(* swallows the error, a failed lifetime release keeps its entry).         *)
MarkThrew(p) ==
  CASE then[p] = "scan" ->
         /\ MarkNext(p, my[p], "abandon")
         /\ UNCHANGED <<status, queue, attempt, held, registered>>
    [] then[p] \in {"abandon", "release"} ->
         /\ pc' = [pc EXCEPT ![p] = "idle"]
         /\ my' = [my EXCEPT ![p] = 0]
         /\ target' = [target EXCEPT ![p] = 0]
         /\ UNCHANGED <<status, queue, latest, scan, then, held, registered>>
    [] then[p] = "exit" -> Vanish(p)

\* openSync(path, 'wx') created the marker, still empty.
OpenMarker(p) ==
  /\ Live(p) /\ pc[p] = "open"
  /\ target[p] \notin created
  /\ created' = created \union {target[p]}
  /\ UNCHANGED complete
  /\ pc' = [pc EXCEPT ![p] = "write"]
  /\ UNCHANGED <<status, queue, attempt, marking, held, registered>>

\* The marker is already complete: only sync it again.
FindMarker(p) ==
  /\ Live(p) /\ pc[p] = "open"
  /\ target[p] \in complete
  /\ UNCHANGED markers
  /\ Marked(p)

\* The marker is there without its contents: "malformed predecessor".
RejectMarker(p) ==
  /\ Live(p) /\ pc[p] = "open"
  /\ target[p] \in partial
  /\ UNCHANGED markers
  /\ MarkThrew(p)

\* The marker cannot be looked at, created or, complete already, synced again.
FailToMark(p) ==
  /\ Live(p) /\ pc[p] = "open"
  /\ UNCHANGED markers
  /\ MarkThrew(p)

WriteMarker(p) ==
  /\ Live(p) /\ pc[p] = "write"
  /\ complete' = complete \union {target[p]}
  /\ UNCHANGED created
  /\ Marked(p)

\* The write fails, or the write succeeds and the sync after it fails.
FailMarker(p) ==
  /\ Live(p) /\ pc[p] = "write"
  /\ \E written \in SUBSET {target[p]} : complete' = complete \union written
  /\ UNCHANGED created
  /\ MarkThrew(p)

----------------------------------------------------------------------------
\* acquireInterprocessLock.

\* Attempts that have not linked their ticket yet.
Unlinked == {q \in Proc : Live(q) /\ pc[q] \in {"readTickets", "link"}}

\* A lifetime caller with a registry entry gets the existing handle instead.
Acquire(p) ==
  /\ Live(p) /\ pc[p] = "idle"
  /\ registered[p] = 0
  /\ Len(queue) + Cardinality(Unlinked) < MaxTickets
  /\ pc' = [pc EXCEPT ![p] = "readTickets"]
  /\ UNCHANGED <<status, queue, markers, attempt, marking, held, registered>>

\* ensureQueue, createOwner or the link fails: no ticket to abandon.
FailBeforeTicket(p) ==
  /\ Live(p) /\ pc[p] \in {"readTickets", "link"}
  /\ pc' = [pc EXCEPT ![p] = "idle"]
  /\ UNCHANGED <<status, queue, markers, attempt, marking, held, registered>>

ReadTickets(p) ==
  /\ Live(p) /\ pc[p] = "readTickets"
  /\ latest' = [latest EXCEPT ![p] = Len(queue)]
  /\ pc' = [pc EXCEPT ![p] = "link"]
  /\ UNCHANGED <<status, queue, markers, my, scan, marking, held, registered>>

\* linkSync of the number after the last one read.
Link(p) ==
  /\ Live(p) /\ pc[p] = "link"
  /\ Len(queue) = latest[p]
  /\ queue' = Append(queue, p)
  /\ my' = [my EXCEPT ![p] = latest[p] + 1]
  /\ UNCHANGED <<status, markers, latest, scan, held, registered>>

LinkTicket(p) ==
  /\ Link(p)
  /\ pc' = [pc EXCEPT ![p] = "inspect"]
  /\ UNCHANGED marking

\* LinkedTicketError: the ticket is there, the sync of the directory failed.
LinkUnsynced(p) == Link(p) /\ MarkNext(p, latest[p] + 1, "abandon")

\* Bug: EEXIST links the same number again, without reading the queue again.
RetryTicketBlindly(p) ==
  /\ Live(p) /\ pc[p] = "link"
  /\ Len(queue) # latest[p]
  /\ UNCHANGED vars

\* EEXIST: another process linked that number first.
RetryTicket(p) ==
  /\ Live(p) /\ pc[p] = "link"
  /\ Len(queue) # latest[p]
  /\ pc' = [pc EXCEPT ![p] = "readTickets"]
  /\ UNCHANGED <<status, queue, markers, attempt, marking, held, registered>>

Abandon(p) == MarkNext(p, my[p], "abandon")

\* Bug: an attempt with a later ticket behind it gives up.
InspectOwnNewest(p) ==
  /\ Live(p) /\ pc[p] = "inspect"
  /\ IF my[p] \notin created /\ my[p] = Len(queue)
     THEN /\ pc' = [pc EXCEPT ![p] = "scan"]
          /\ scan' = [scan EXCEPT ![p] = 1]
          /\ UNCHANGED marking
     ELSE Abandon(p) /\ UNCHANGED scan
  /\ UNCHANGED <<status, queue, markers, latest, my, held, registered>>

\* inspectPredecessors: its own ticket first.
InspectOwn(p) ==
  /\ Live(p) /\ pc[p] = "inspect"
  /\ IF my[p] \notin created
     THEN /\ pc' = [pc EXCEPT ![p] = "scan"]
          /\ scan' = [scan EXCEPT ![p] = 1]
          /\ UNCHANGED marking
     ELSE Abandon(p) /\ UNCHANGED scan
  /\ UNCHANGED <<status, queue, markers, latest, my, held, registered>>

\* Bug: a marker that is only there counts as done, whatever it contains.
SkipOpened(p) ==
  /\ Live(p) /\ pc[p] = "scan"
  /\ scan[p] < my[p] /\ scan[p] \in created
  /\ scan' = [scan EXCEPT ![p] = @ + 1]
  /\ UNCHANGED <<status, queue, markers, pc, latest, my, marking, held, registered>>

SkipDone(p) ==
  /\ Live(p) /\ pc[p] = "scan"
  /\ scan[p] < my[p] /\ scan[p] \in complete
  /\ scan' = [scan EXCEPT ![p] = @ + 1]
  /\ UNCHANGED <<status, queue, markers, pc, latest, my, marking, held, registered>>

\* doneMarkerExists throws on a marker without its contents.
MeetPartial(p) ==
  /\ Live(p) /\ pc[p] = "scan"
  /\ scan[p] < my[p] /\ scan[p] \in partial
  /\ Abandon(p)
  /\ UNCHANGED <<status, queue, markers, attempt, held, registered>>

MeetUndone(p) ==
  /\ Live(p) /\ pc[p] = "scan"
  /\ scan[p] < my[p] /\ scan[p] \notin created
  /\ pc' = [pc EXCEPT ![p] = "judge"]
  /\ UNCHANGED <<status, queue, markers, attempt, marking, held, registered>>

\* The predecessor's process is live: InterprocessLockBusyError.
FindBusy(p) ==
  /\ Live(p) /\ pc[p] = "judge"
  /\ processIsLive(p, queue[scan[p]])
  /\ Abandon(p)
  /\ UNCHANGED <<status, queue, markers, attempt, held, registered>>

\* Bug: every unfinished predecessor is reclaimed, live or not.
ReclaimAnyone(p) ==
  /\ Live(p) /\ pc[p] = "judge"
  /\ MarkNext(p, scan[p], "scan")
  /\ UNCHANGED <<status, queue, markers, attempt, held, registered>>

Reclaim(p) ==
  /\ Live(p) /\ pc[p] = "judge"
  /\ ~processIsLive(p, queue[scan[p]])
  /\ MarkNext(p, scan[p], "scan")
  /\ UNCHANGED <<status, queue, markers, attempt, held, registered>>

\* Any read of the inspection may fail for another reason.
FailInspection(p) ==
  /\ Live(p) /\ pc[p] \in {"inspect", "scan", "judge"}
  /\ Abandon(p)
  /\ UNCHANGED <<status, queue, markers, attempt, held, registered>>

Win(p) ==
  /\ Live(p) /\ pc[p] = "scan"
  /\ scan[p] = my[p]
  /\ held' = [held EXCEPT ![p] = my[p]]
  /\ my' = [my EXCEPT ![p] = 0]
  /\ registered' = [registered EXCEPT ![p] = IF Lifetime THEN my[p] ELSE 0]
  /\ pc' = [pc EXCEPT ![p] = "idle"]
  /\ UNCHANGED <<status, queue, markers, latest, scan, marking>>

\* The caller leaves its critical section by calling the release function.
Release(p) ==
  /\ Live(p) /\ pc[p] = "idle" /\ held[p] # 0
  /\ MarkNext(p, held[p], "release")
  /\ held' = [held EXCEPT ![p] = 0]
  /\ UNCHANGED <<status, queue, markers, attempt, registered>>

----------------------------------------------------------------------------
\* The lock's own code, step by step, when nothing fails.
Step(p) ==
  \/ OpenMarker(p) \/ FindMarker(p) \/ RejectMarker(p) \/ WriteMarker(p)
  \/ ReadTickets(p) \/ LinkTicket(p) \/ RetryTicket(p)
  \/ InspectOwn(p) \/ SkipDone(p) \/ MeetPartial(p) \/ MeetUndone(p)
  \/ FindBusy(p) \/ Reclaim(p) \/ Win(p)

Call(p) == Acquire(p) \/ Release(p) \/ Exit(p)

\* A call to the filesystem fails.
Fault(p) ==
  \/ FailBeforeTicket(p) \/ LinkUnsynced(p) \/ FailInspection(p)
  \/ FailToMark(p) \/ FailMarker(p)

Next == \E p \in Proc : Start(p) \/ Kill(p) \/ Call(p) \/ Step(p) \/ Fault(p)

Spec == Init /\ [][Next]_vars

(* The lock's code is synchronous: once a caller is inside it, the thread  *)
(* runs on until it returns or throws.                                     *)
Running == \A p \in Proc : WF_vars(Step(p))

FairSpec == Spec /\ Running

----------------------------------------------------------------------------
TypeOK ==
  /\ status \in [Proc -> {"unborn", "live", "dead"}]
  /\ queue \in Seq(Proc)
  /\ created \subseteq 1..Len(queue) /\ complete \subseteq created
  /\ pc \in [Proc -> {"idle", "readTickets", "link", "inspect", "scan", "judge", "open", "write"}]
  /\ latest \in [Proc -> Nat]
  /\ my \in [Proc -> Nat]
  /\ scan \in [Proc -> Nat]
  /\ target \in [Proc -> Nat]
  /\ then \in [Proc -> {"scan", "abandon", "release", "exit"}]
  /\ held \in [Proc -> Nat]
  /\ registered \in [Proc -> Nat]

(* Two live processes are never both between the return of the acquiring   *)
(* call and the call of its release, whatever dies, fails or is recycled.  *)
MutualExclusion ==
  \A p, q \in Proc : Live(p) /\ Live(q) /\ held[p] # 0 /\ held[q] # 0 => p = q

(***************************************************************************)
(* Why exclusion holds, part by part: IInv is the inductive invariant.     *)
(***************************************************************************)
Marking(p) == pc[p] \in {"open", "write"}

Scanning(p) == pc[p] \in {"scan", "judge"} \/ (Marking(p) /\ then[p] = "scan")

Attempting(p) == pc[p] = "inspect" \/ Scanning(p)

\* One pid, one live process: what makes processIsLive sound.
PidsDistinct == \A p, q \in Proc : Live(p) /\ Live(q) /\ PidOf[p] = PidOf[q] => p = q

OwnersStarted == \A t \in 1..Len(queue) : status[queue[t]] # "unborn"

\* A process that is not running remembers nothing.
Forgotten(p) == ~Live(p) => pc[p] = "idle" /\ my[p] = 0 /\ held[p] = 0 /\ registered[p] = 0

\* The tickets a process knows as its own are its own.
OwnTicket(p, t) == t # 0 => t \in 1..Len(queue) /\ queue[t] = p

OwnTickets(p) ==
  /\ OwnTicket(p, my[p]) /\ OwnTicket(p, held[p]) /\ OwnTicket(p, registered[p])
  /\ my[p] # 0 => my[p] # held[p]

\* A process marks the ticket of a dead one, or a ticket of its own it does not hold.
TargetUnheld(p) ==
  Marking(p) =>
    /\ target[p] \in 1..Len(queue)
    /\ then[p] = "scan" => target[p] = scan[p] /\ scan[p] < my[p] /\ status[queue[target[p]]] = "dead"
    /\ then[p] # "scan" => queue[target[p]] = p /\ held[p] # target[p]
    /\ pc[p] = "write" => target[p] \in created

AttemptUnmarked(p) == Attempting(p) => my[p] # 0 /\ my[p] \notin created

\* Everything an inspection has gone past is finished.
ScannedComplete(p) ==
  Scanning(p) =>
    /\ scan[p] \in 1..my[p] /\ 1..(scan[p] - 1) \subseteq complete
    /\ pc[p] = "judge" => scan[p] < my[p]

\* A holder's ticket is the first unfinished one.
HoldsFirst(p) == held[p] # 0 => held[p] \notin created /\ 1..(held[p] - 1) \subseteq complete

Coherent(p) ==
  /\ Forgotten(p) /\ OwnTickets(p) /\ TargetUnheld(p)
  /\ AttemptUnmarked(p) /\ ScannedComplete(p) /\ HoldsFirst(p)

IInv == TypeOK /\ PidsDistinct /\ OwnersStarted /\ \A p \in Proc : Coherent(p)

(* The lock does not wait: every attempt ends, won or lost.                *)
AttemptEnds ==
  \A p \in Proc : pc[p] # "idle" ~> (pc[p] = "idle" \/ ~Live(p))

(* Unless a call to the filesystem fails, an attempt gives up only for an  *)
(* EARLIER ticket that is unfinished, or was when the attempt looked at    *)
(* its marker and whose pid is still in use; never for a later ticket: of  *)
(* callers that keep trying, the first in the queue gets in.               *)
LosesOnlyToEarlier ==
  [][\A p \in Proc :
       Step(p) /\ ~Marking(p) /\ Marking(p)' /\ then'[p] = "abandon"
         => \E t \in 1..(my[p] - 1) :
               \/ t \notin complete
               \/ pc[p] = "judge" /\ t = scan[p] /\ PidInUse(PidOf[queue[t]])]_vars
=============================================================================
