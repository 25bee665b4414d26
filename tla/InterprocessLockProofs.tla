----------------------- MODULE InterprocessLockProofs -----------------------
(***************************************************************************)
(* The ticket lock is exclusive for every number of processes, tickets and *)
(* pids: IInv is inductive, and it implies MutualExclusion.                *)
(*                                                                         *)
(* A holder's ticket has no marker while every ticket before it is         *)
(* completely marked (HoldsFirst); of two holders with different tickets   *)
(* the lower one would contradict the higher one.  That no marker ever     *)
(* appears for a held ticket is TargetUnheld: whoever creates a marker     *)
(* creates it for a dead process, or for a ticket of its own it does not   *)
(* hold.                                                                   *)
(*                                                                         *)
(* A step of p touches p's memory only, so each step is proved by what it  *)
(* does to p (Coherent(p)') and the frame lemma OthersCoherent.            *)
(***************************************************************************)
EXTENDS InterprocessLock, TLAPS

\* What a step of another process leaves of q's memory: all of it.
Untouched(q) ==
  /\ status'[q] = status[q] /\ pc'[q] = pc[q] /\ my'[q] = my[q] /\ scan'[q] = scan[q]
  /\ target'[q] = target[q] /\ then'[q] = then[q] /\ held'[q] = held[q]
  /\ registered'[q] = registered[q]

(* What every step does to the files: tickets are appended and stay,       *)
(* markers appear and stay, and the dead stay dead.                        *)
FilesGrow ==
  /\ Len(queue) \in Nat /\ Len(queue') \in Nat /\ Len(queue) <= Len(queue')
  /\ \A t \in 1..Len(queue) : queue'[t] = queue[t] /\ queue[t] \in Proc
  /\ created \subseteq created' /\ complete \subseteq complete'
  /\ \A q \in Proc : status[q] = "dead" => status'[q] = "dead"

(* No new marker is for a ticket of q that q holds or attempts to win.     *)
Spared(q) ==
  /\ held[q] # 0 /\ held[q] \notin created => held[q] \notin created'
  /\ Attempting(q) /\ my[q] \notin created => my[q] \notin created'

(* The initial state satisfies every part of the inductive invariant.      *)
LEMMA InitIInv == Init => IInv
  BY DEF Init, IInv, TypeOK, PidsDistinct, OwnersStarted, Coherent, Forgotten, OwnTickets, OwnTicket,
     TargetUnheld, AttemptUnmarked, ScannedComplete, HoldsFirst, Live, Marking, Scanning, Attempting

(* The frame: a process whose memory a step leaves alone, and whose        *)
(* tickets get no marker, stays coherent.                                  *)
LEMMA OthersCoherent ==
  ASSUME TypeOK, NEW q \in Proc, Coherent(q), Untouched(q), FilesGrow, Spared(q)
  PROVE  Coherent(q)'
<1> USE DEF Untouched, FilesGrow, Live, Marking
<1> my[q] \in Nat /\ held[q] \in Nat /\ registered[q] \in Nat /\ scan[q] \in Nat /\ target[q] \in Nat
  BY DEF TypeOK
<1>1. Forgotten(q)' /\ OwnTickets(q)'
  BY DEF Coherent, Forgotten, OwnTickets, OwnTicket
<1>2. TargetUnheld(q)'
  BY DEF Coherent, TargetUnheld
<1>3. AttemptUnmarked(q)'
  BY DEF Coherent, AttemptUnmarked, Spared, Attempting, Scanning
<1>4. ScannedComplete(q)'
  BY DEF Coherent, ScannedComplete, Scanning
<1>5. HoldsFirst(q)'
  BY DEF Coherent, HoldsFirst, Spared
<1>6. QED BY <1>1, <1>2, <1>3, <1>4, <1>5 DEF Coherent

(* Two live holders are one: their tickets are equal, and a ticket has one *)
(* owner.                                                                  *)
LEMMA IInvExcludes == IInv => MutualExclusion
<1> SUFFICES ASSUME IInv, NEW p \in Proc, NEW q \in Proc, held[p] # 0, held[q] # 0
             PROVE  p = q
  BY DEF MutualExclusion
<1>1. held[p] \in Nat /\ held[q] \in Nat /\ complete \subseteq created
  BY DEF IInv, TypeOK
<1>2. HoldsFirst(p) /\ HoldsFirst(q) /\ OwnTickets(p) /\ OwnTickets(q)
  BY DEF IInv, Coherent
<1>3. ~(held[p] < held[q]) /\ ~(held[q] < held[p])
  BY <1>1, <1>2 DEF HoldsFirst
<1>4. held[p] = held[q]
  BY <1>1, <1>3
<1>5. QED BY <1>2, <1>4 DEF OwnTickets, OwnTicket

(* A step that leaves tickets, deaths and the existence of markers alone   *)
(* and only moves p preserves the invariant when p stays coherent.         *)
LEMMA MemoryStep ==
  ASSUME IInv, TypeOK', NEW p \in Proc, UNCHANGED <<status, queue, created>>, complete \subseteq complete',
         \A q \in Proc \ {p} : Untouched(q), Coherent(p)'
  PROVE  IInv'
<1>1. PidsDistinct' /\ OwnersStarted'
  BY DEF IInv, PidsDistinct, OwnersStarted, Live
<1>2. FilesGrow
  BY DEF IInv, TypeOK, FilesGrow
<1>3. ASSUME NEW q \in Proc \ {p} PROVE Coherent(q)'
  <2>1. Spared(q)
    BY DEF Spared
  <2>2. QED BY <1>2, <1>3, <2>1, OthersCoherent DEF IInv
<1>4. QED BY <1>1, <1>3 DEF IInv

(* A process that vanishes, leaving its files, preserves the invariant.    *)
LEMMA VanishStep ==
  ASSUME IInv, NEW p \in Proc, Live(p), Vanish(p), created' = created,
         complete \subseteq complete', complete' \subseteq created
  PROVE  IInv'
<1>1. TypeOK'
  BY DEF IInv, TypeOK, Vanish
<1>2. PidsDistinct' /\ OwnersStarted'
  <2>1. \A q \in Proc : status'[q] = IF q = p THEN "dead" ELSE status[q]
    BY DEF IInv, TypeOK, Vanish
  <2>2. PidsDistinct'
    BY <2>1 DEF IInv, PidsDistinct, Live
  <2>3. \A t \in 1..Len(queue) : queue[t] \in Proc
    BY DEF IInv, TypeOK
  <2>4. QED BY <2>1, <2>2, <2>3 DEF IInv, OwnersStarted, Vanish
<1>3. FilesGrow
  BY DEF IInv, TypeOK, FilesGrow, Vanish
<1>4. ASSUME NEW q \in Proc \ {p} PROVE Coherent(q)'
  <2>1. Untouched(q)
    BY DEF IInv, TypeOK, Untouched, Vanish
  <2>2. Spared(q)
    BY DEF Spared
  <2>3. QED BY <1>3, <2>1, <2>2, OthersCoherent DEF IInv
<1>5. Coherent(p)'
  <2>1. pc'[p] = "idle" /\ my'[p] = 0 /\ held'[p] = 0 /\ registered'[p] = 0
    BY DEF IInv, TypeOK, Vanish
  <2>2. QED BY <2>1 DEF Coherent, Forgotten, OwnTickets, OwnTicket, TargetUnheld, AttemptUnmarked,
              ScannedComplete, HoldsFirst, Marking, Scanning, Attempting
<1>6. QED BY <1>1, <1>2, <1>4, <1>5 DEF IInv

(* Starting preserves it: the pid was free. *)
LEMMA StartStep == ASSUME IInv, NEW p \in Proc, Start(p) PROVE IInv'
<1> USE DEF Start, markers, attempt, marking
<1>1. \A q \in Proc : status'[q] = IF q = p THEN "live" ELSE status[q]
  BY DEF IInv, TypeOK
<1>2. TypeOK'
  BY DEF IInv, TypeOK
<1>3. PidsDistinct'
  BY <1>1 DEF IInv, PidsDistinct, Live, PidInUse
<1>4. OwnersStarted'
  <2>1. \A t \in 1..Len(queue) : queue[t] \in Proc
    BY DEF IInv, TypeOK
  <2>2. QED BY <1>1, <2>1 DEF IInv, OwnersStarted
<1>5. FilesGrow
  BY <1>1 DEF IInv, TypeOK, FilesGrow
<1>6. ASSUME NEW q \in Proc \ {p} PROVE Coherent(q)'
  <2>1. Untouched(q) /\ Spared(q)
    BY <1>1 DEF Untouched, Spared
  <2>2. QED BY <1>5, <2>1, OthersCoherent DEF IInv
<1>7. Coherent(p)'
  <2>1. pc'[p] = "idle" /\ my'[p] = 0 /\ held'[p] = 0 /\ registered'[p] = 0
    BY DEF IInv, Coherent, Forgotten, Live
  <2>2. QED BY <2>1 DEF Coherent, Forgotten, OwnTickets, OwnTicket, TargetUnheld, AttemptUnmarked,
              ScannedComplete, HoldsFirst, Marking, Scanning, Attempting
<1>8. QED BY <1>2, <1>3, <1>4, <1>6, <1>7 DEF IInv

(* Linking a ticket preserves it, whatever becomes of the attempt: nobody  *)
(* knows the new number yet.                                               *)
LEMMA LinkStep == ASSUME IInv, NEW p \in Proc, LinkTicket(p) \/ LinkUnsynced(p) PROVE IInv'
<1> USE DEF LinkTicket, LinkUnsynced, Link, MarkNext, markers, attempt, marking
<1>1. /\ Len(queue) \in Nat /\ Len(queue') = Len(queue) + 1 /\ queue' \in Seq(Proc)
      /\ \A t \in 1..Len(queue) : queue'[t] = queue[t] /\ queue[t] \in Proc
      /\ queue'[Len(queue) + 1] = p
  <2>1. queue \in Seq(Proc)
    BY DEF IInv, TypeOK
  <2>2. queue' = Append(queue, p)
    OBVIOUS
  <2> HIDE DEF LinkTicket, LinkUnsynced, Link
  <2>3. QED BY <2>1, <2>2
<1>2. TypeOK'
  <2>1. created' \subseteq 1..Len(queue')
    <3>1. created' = created /\ created \subseteq 1..Len(queue)
      BY DEF IInv, TypeOK
    <3> HIDE DEF LinkTicket, LinkUnsynced, Link
    <3>2. QED BY <1>1, <3>1
  <2>2. latest[p] + 1 \in Nat
    BY DEF IInv, TypeOK
  <2>3. pc' \in [Proc -> {"idle", "readTickets", "link", "inspect", "scan", "judge", "open", "write"}]
    BY DEF IInv, TypeOK
  <2>4. my' = [my EXCEPT ![p] = latest[p] + 1]
    OBVIOUS
  <2>5. \/ target' = target /\ then' = then
        \/ target' = [target EXCEPT ![p] = latest[p] + 1] /\ then' = [then EXCEPT ![p] = "abandon"]
    OBVIOUS
  <2>6. /\ UNCHANGED <<status, created, complete, latest, scan, held, registered>>
    OBVIOUS
  <2> HIDE DEF LinkTicket, LinkUnsynced, Link
  <2>7. my' \in [Proc -> Nat] /\ target' \in [Proc -> Nat]
    <3>1. my \in [Proc -> Nat] /\ target \in [Proc -> Nat]
      BY DEF IInv, TypeOK
    <3>2. my' \in [Proc -> Nat]
      BY <2>2, <2>4, <3>1
    <3>3. target' \in [Proc -> Nat]
      BY <2>2, <2>5, <3>1
    <3>4. QED BY <3>2, <3>3
  <2>8. then' \in [Proc -> {"scan", "abandon", "release", "exit"}]
    BY <2>5 DEF IInv, TypeOK
  <2>9. QED BY <1>1, <2>1, <2>3, <2>6, <2>7, <2>8 DEF IInv, TypeOK
<1>3. PidsDistinct'
  BY DEF IInv, PidsDistinct, Live
<1>4. OwnersStarted'
  <2>1. \A t \in 1..Len(queue') : t \in 1..Len(queue) \/ t = Len(queue) + 1
    BY <1>1
  <2>2. QED BY <1>1, <2>1 DEF IInv, OwnersStarted, Live
<1>5. FilesGrow
  BY <1>1 DEF FilesGrow
<1>6. ASSUME NEW q \in Proc \ {p} PROVE Coherent(q)'
  <2>1. Untouched(q) /\ Spared(q)
    BY DEF IInv, TypeOK, Untouched, Spared
  <2>2. QED BY <1>5, <2>1, OthersCoherent DEF IInv
<1>7. Coherent(p)'
  <2>1. /\ my'[p] = Len(queue) + 1 /\ my'[p] \notin created' /\ Live(p)'
        /\ held'[p] = held[p] /\ registered'[p] = registered[p] /\ held[p] \in Nat
    <3>1. latest[p] = Len(queue) /\ my' = [my EXCEPT ![p] = latest[p] + 1] /\ created' = created
      OBVIOUS
    <3>2. status' = status /\ held' = held /\ registered' = registered /\ Live(p)
      OBVIOUS
    <3>3. my \in [Proc -> Nat] /\ held \in [Proc -> Nat] /\ created \subseteq 1..Len(queue)
      BY DEF IInv, TypeOK
    <3> HIDE DEF LinkTicket, LinkUnsynced, Link
    <3>4. QED BY <1>1, <3>1, <3>2, <3>3 DEF Live
  <2>2. \/ pc'[p] = "inspect"
        \/ pc'[p] = "open" /\ then'[p] = "abandon" /\ target'[p] = Len(queue) + 1
    <3>1. \/ pc' = [pc EXCEPT ![p] = "inspect"]
          \/ /\ pc' = [pc EXCEPT ![p] = "open"] /\ then' = [then EXCEPT ![p] = "abandon"]
             /\ target' = [target EXCEPT ![p] = latest[p] + 1] /\ latest[p] = Len(queue)
      OBVIOUS
    <3>2. DOMAIN pc = Proc /\ DOMAIN then = Proc /\ DOMAIN target = Proc
      BY DEF IInv, TypeOK
    <3> HIDE DEF LinkTicket, LinkUnsynced, Link
    <3>3. QED BY <3>1, <3>2
  <2>3. Coherent(p)
    BY DEF IInv
  <2>4. held[p] # 0 => held[p] \in 1..Len(queue)
    BY <2>3 DEF Coherent, OwnTickets, OwnTicket
  <2>5. OwnTickets(p)' /\ Forgotten(p)'
    BY <1>1, <2>1, <2>3, <2>4 DEF Coherent, OwnTickets, OwnTicket, Forgotten
  <2>6. TargetUnheld(p)'
    BY <1>1, <2>1, <2>2, <2>4 DEF TargetUnheld, Marking
  <2>7. AttemptUnmarked(p)' /\ ScannedComplete(p)'
    BY <1>1, <2>1, <2>2 DEF AttemptUnmarked, ScannedComplete, Attempting, Scanning, Marking
  <2>8. HoldsFirst(p)'
    BY <2>1, <2>3 DEF Coherent, HoldsFirst
  <2>9. QED BY <2>5, <2>6, <2>7, <2>8 DEF Coherent
<1>8. QED BY <1>2, <1>3, <1>4, <1>6, <1>7 DEF IInv

(* Creating a marker spares every ticket held or attempted: it is for a    *)
(* dead process or for a ticket its creator does not hold.                 *)
LEMMA OpenStep == ASSUME IInv, NEW p \in Proc, OpenMarker(p) PROVE IInv'
<1> USE DEF OpenMarker, attempt, marking
<1>1. Coherent(p) /\ Marking(p) /\ Live(p)
  BY DEF IInv, Marking
<1>2. /\ target[p] \in 1..Len(queue)
      /\ \/ then[p] = "scan" /\ scan[p] < my[p] /\ target[p] = scan[p] /\ status[queue[target[p]]] = "dead"
         \/ then[p] # "scan" /\ queue[target[p]] = p /\ held[p] # target[p]
  BY <1>1 DEF Coherent, TargetUnheld
<1>3. TypeOK'
  <2>1. created' \subseteq 1..Len(queue) /\ complete \subseteq created'
    BY <1>2 DEF IInv, TypeOK
  <2>2. QED BY <2>1 DEF IInv, TypeOK
<1>4. PidsDistinct' /\ OwnersStarted'
  BY DEF IInv, PidsDistinct, OwnersStarted, Live
<1>5. FilesGrow
  BY DEF IInv, TypeOK, FilesGrow
<1>6. ASSUME NEW q \in Proc \ {p} PROVE Coherent(q)'
  <2>1. Coherent(q)
    BY DEF IInv
  <2>2. ASSUME Live(q), OwnTicket(q, target[p]), target[p] # 0 PROVE FALSE
    BY <1>2, <2>2 DEF OwnTicket, Live
  <2>3. ~Live(q) => held[q] = 0 /\ ~Attempting(q)
    BY <2>1 DEF Coherent, Forgotten, Attempting, Scanning, Marking
  <2>4. Attempting(q) => my[q] # 0
    BY <2>1 DEF Coherent, AttemptUnmarked
  <2>5. OwnTicket(q, held[q]) /\ OwnTicket(q, my[q])
    BY <2>1 DEF Coherent, OwnTickets
  <2>6. Spared(q)
    BY <2>2, <2>3, <2>4, <2>5 DEF Spared
  <2>7. Untouched(q)
    BY DEF IInv, TypeOK, Untouched
  <2>8. QED BY <1>5, <2>1, <2>6, <2>7, OthersCoherent DEF IInv
<1>7. Coherent(p)'
  <2>1. pc'[p] = "write"
    BY DEF IInv, TypeOK
  <2>2. Forgotten(p)' /\ OwnTickets(p)'
    BY <1>1 DEF Coherent, Forgotten, OwnTickets, OwnTicket, Live
  <2>3. TargetUnheld(p)'
    BY <1>2, <2>1 DEF TargetUnheld, Marking
  <2>4. scan[p] \in Nat /\ my[p] \in Nat /\ held[p] \in Nat
    BY DEF IInv, TypeOK
  <2>5. AttemptUnmarked(p)'
    <3>1. then[p] = "scan" => my[p] # 0 /\ my[p] \notin created /\ my[p] # target[p]
      BY <1>1, <1>2, <2>4 DEF Coherent, AttemptUnmarked, Attempting, Scanning
    <3>2. QED BY <2>1, <3>1 DEF AttemptUnmarked, Attempting, Scanning, Marking
  <2>6. ScannedComplete(p)'
    BY <1>1, <2>1 DEF Coherent, ScannedComplete, Scanning, Marking
  <2>7. HoldsFirst(p)'
    <3>1. held[p] # 0 => held[p] # target[p]
      <4>1. held[p] # 0 => queue[held[p]] = p
        BY <1>1 DEF Coherent, OwnTickets, OwnTicket
      <4>2. QED BY <1>1, <1>2, <4>1 DEF Live
    <3>2. QED BY <1>1, <3>1 DEF Coherent, HoldsFirst
  <2>8. QED BY <2>2, <2>3, <2>5, <2>6, <2>7 DEF Coherent
<1>8. QED BY <1>3, <1>4, <1>6, <1>7 DEF IInv

(* Giving up an attempt: p goes on to mark its own, unheld ticket.         *)
LEMMA AbandonStep ==
  ASSUME IInv, NEW p \in Proc, Live(p), Attempting(p), Abandon(p),
         UNCHANGED <<status, queue, created, latest, my, scan, held, registered>>,
         complete \subseteq complete', complete' \subseteq created
  PROVE  IInv'
<1> USE DEF Abandon, MarkNext
<1>1. TypeOK'
  BY DEF IInv, TypeOK
<1>2. \A q \in Proc \ {p} : Untouched(q)
  BY DEF IInv, TypeOK, Untouched
<1>3. Coherent(p)'
  <2>1. Coherent(p)
    BY DEF IInv
  <2>2. pc'[p] = "open" /\ target'[p] = my[p] /\ then'[p] = "abandon"
    BY DEF IInv, TypeOK
  <2>3. my[p] # 0
    BY <2>1 DEF Coherent, AttemptUnmarked
  <2>4. Forgotten(p)' /\ OwnTickets(p)' /\ HoldsFirst(p)'
    BY <2>1 DEF Coherent, Forgotten, OwnTickets, OwnTicket, HoldsFirst, Live
  <2>5. TargetUnheld(p)'
    BY <2>1, <2>2, <2>3 DEF Coherent, TargetUnheld, OwnTickets, OwnTicket, Marking
  <2>6. AttemptUnmarked(p)' /\ ScannedComplete(p)'
    BY <2>2 DEF AttemptUnmarked, ScannedComplete, Attempting, Scanning, Marking
  <2>7. QED BY <2>1, <2>4, <2>5, <2>6 DEF Coherent
<1>4. QED BY <1>1, <1>2, <1>3, MemoryStep

(* The end of a call: p is idle again and remembers no more than before.   *)
LEMMA IdleStep ==
  ASSUME IInv, NEW p \in Proc, Live(p),
         UNCHANGED <<status, queue, created, latest, then, held>>,
         complete \subseteq complete', complete' \subseteq created,
         pc' = [pc EXCEPT ![p] = "idle"], scan' = scan,
         NEW m \in {0, my[p]}, my' = [my EXCEPT ![p] = m],
         NEW r \in {0, registered[p]}, registered' = [registered EXCEPT ![p] = r],
         NEW t \in {0, target[p]}, target' = [target EXCEPT ![p] = t]
  PROVE  IInv'
<1>1. TypeOK'
  BY SMTT(30) DEF IInv, TypeOK
<1>2. \A q \in Proc \ {p} : Untouched(q)
  BY DEF IInv, TypeOK, Untouched
<1>3. Coherent(p)'
  <2>1. Coherent(p)
    BY DEF IInv
  <2>2. pc'[p] = "idle" /\ my'[p] = m /\ registered'[p] = r /\ held'[p] = held[p]
    BY DEF IInv, TypeOK
  <2>3. Forgotten(p)' /\ OwnTickets(p)' /\ HoldsFirst(p)'
    BY <2>1, <2>2 DEF Coherent, Forgotten, OwnTickets, OwnTicket, HoldsFirst, Live
  <2>4. TargetUnheld(p)' /\ AttemptUnmarked(p)' /\ ScannedComplete(p)'
    BY <2>2 DEF TargetUnheld, AttemptUnmarked, ScannedComplete, Attempting, Scanning, Marking
  <2>5. QED BY <2>3, <2>4 DEF Coherent
<1>4. QED BY <1>1, <1>2, <1>3, MemoryStep

(* markDone returned: the ticket it was for is completely marked, so an    *)
(* inspection may go past it.                                              *)
LEMMA MarkedStep ==
  ASSUME IInv, NEW p \in Proc, Live(p), Marking(p), Marked(p), created' = created,
         complete \subseteq complete', complete' \subseteq created, target[p] \in complete'
  PROVE  IInv'
<1>1. CASE then[p] = "exit"
  BY <1>1, VanishStep DEF Marked
<1>2. CASE then[p] \in {"abandon", "release"}
  <2>1. /\ UNCHANGED <<status, queue, latest, then, held>>
        /\ pc' = [pc EXCEPT ![p] = "idle"] /\ target' = [target EXCEPT ![p] = 0]
    BY <1>2 DEF Marked
  <2>2. my \in [Proc -> Nat] /\ registered \in [Proc -> Nat] /\ scan \in [Proc -> Nat]
    BY DEF IInv, TypeOK
  <2>3. scan' = scan
    BY <1>2, <2>2 DEF Marked
  <2>4. PICK m \in {0, my[p]} : my' = [my EXCEPT ![p] = m]
    BY <1>2 DEF Marked
  <2>5. PICK r \in {0, registered[p]} : registered' = [registered EXCEPT ![p] = r]
    <3>1. registered' = [registered EXCEPT ![p] = IF then[p] = "release" THEN 0 ELSE registered[p]]
      BY <1>2 DEF Marked
    <3>2. CASE then[p] = "release"
      BY <3>1, <3>2
    <3>3. CASE then[p] # "release"
      BY <3>1, <3>3
    <3>4. QED BY <3>2, <3>3
  <2>6. QED BY <2>1, <2>3, <2>4, <2>5, IdleStep
<1>3. CASE then[p] = "scan"
  <2>1. TypeOK'
    <3>1. scan' = [scan EXCEPT ![p] = scan[p] + 1] /\ pc' = [pc EXCEPT ![p] = "scan"]
      BY <1>3 DEF Marked
    <3>2. my' = my /\ registered' = registered
      BY <1>3 DEF IInv, TypeOK, Marked
    <3>3. target' = [target EXCEPT ![p] = 0] /\ UNCHANGED <<status, queue, latest, then, held>>
      BY <1>3 DEF Marked
    <3>4. scan' \in [Proc -> Nat]
      <4>1. scan \in [Proc -> Nat]
        BY DEF IInv, TypeOK
      <4>2. scan[p] + 1 \in Nat
        BY <4>1
      <4>3. QED BY <3>1, <4>1, <4>2
    <3>5. QED BY <3>1, <3>2, <3>3, <3>4 DEF IInv, TypeOK
  <2>2. \A q \in Proc \ {p} : Untouched(q)
    BY <1>3 DEF IInv, TypeOK, Untouched, Marked
  <2>3. Coherent(p)'
    <3>1. Coherent(p) /\ scan[p] \in Nat /\ my[p] \in Nat /\ held[p] \in Nat
      BY DEF IInv, TypeOK
    <3>2. /\ pc'[p] = "scan" /\ scan'[p] = scan[p] + 1 /\ my'[p] = my[p]
          /\ registered'[p] = registered[p] /\ UNCHANGED <<status, queue, held>>
      BY <1>3 DEF IInv, TypeOK, Marked
    <3>3. Forgotten(p)' /\ OwnTickets(p)' /\ HoldsFirst(p)' /\ TargetUnheld(p)'
      BY <3>1, <3>2 DEF Coherent, Forgotten, OwnTickets, OwnTicket, HoldsFirst, TargetUnheld, Live, Marking
    <3>4. AttemptUnmarked(p)'
      BY <1>3, <3>1, <3>2 DEF Coherent, AttemptUnmarked, Attempting, Scanning
    <3>5. ScannedComplete(p)'
      <4>1. scan[p] \in 1..my[p] /\ scan[p] < my[p] /\ 1..(scan[p] - 1) \subseteq complete
            /\ target[p] = scan[p]
        BY <1>3, <3>1 DEF Coherent, ScannedComplete, TargetUnheld, Scanning
      <4>2. 1..scan[p] \subseteq complete'
        BY <3>1, <4>1
      <4>3. QED BY <3>1, <3>2, <4>1, <4>2 DEF ScannedComplete
    <3>6. QED BY <3>3, <3>4, <3>5 DEF Coherent
  <2>4. UNCHANGED <<status, queue>>
    BY <1>3 DEF Marked
  <2>5. QED BY <2>1, <2>2, <2>3, <2>4, MemoryStep
<1>4. QED BY <1>1, <1>2, <1>3 DEF IInv, TypeOK

(* markDone threw: the attempt is abandoned, or the caller gives up.       *)
LEMMA ThrewStep ==
  ASSUME IInv, NEW p \in Proc, Live(p), Marking(p), MarkThrew(p), created' = created,
         complete \subseteq complete', complete' \subseteq created
  PROVE  IInv'
<1>1. CASE then[p] = "exit"
  BY <1>1, VanishStep DEF MarkThrew
<1>2. CASE then[p] \in {"abandon", "release"}
  <2>1. /\ UNCHANGED <<status, queue, latest, scan, then, held, registered>>
        /\ pc' = [pc EXCEPT ![p] = "idle"] /\ target' = [target EXCEPT ![p] = 0]
        /\ my' = [my EXCEPT ![p] = 0]
    BY <1>2 DEF MarkThrew
  <2>2. registered' = [registered EXCEPT ![p] = registered[p]]
    BY <2>1 DEF IInv, TypeOK
  <2>3. QED BY <2>1, <2>2, IdleStep
<1>3. CASE then[p] = "scan"
  <2>1. Abandon(p) /\ UNCHANGED <<status, queue, latest, my, scan, held, registered>>
    BY <1>3 DEF MarkThrew, Abandon, attempt
  <2>2. Attempting(p)
    BY <1>3 DEF Attempting, Scanning
  <2>3. QED BY <2>1, <2>2, AbandonStep
<1>4. QED BY <1>1, <1>2, <1>3 DEF IInv, TypeOK

(* The ways a markDone ends. *)
LEMMA MarkingStep ==
  ASSUME IInv, NEW p \in Proc,
         FindMarker(p) \/ WriteMarker(p) \/ RejectMarker(p) \/ FailToMark(p) \/ FailMarker(p)
  PROVE  IInv'
<1> USE DEF markers
<1>1. complete \subseteq created
  BY DEF IInv, TypeOK
<1>2. CASE FindMarker(p)
  BY <1>1, <1>2, MarkedStep DEF FindMarker, Marking
<1>3. CASE RejectMarker(p) \/ FailToMark(p)
  BY <1>1, <1>3, ThrewStep DEF RejectMarker, FailToMark, Marking
<1>4. ASSUME pc[p] = "write" PROVE target[p] \in created
  BY <1>4 DEF IInv, Coherent, TargetUnheld, Marking
<1>5. CASE WriteMarker(p)
  BY <1>1, <1>4, <1>5, MarkedStep DEF WriteMarker, Marking
<1>6. CASE FailMarker(p)
  BY <1>1, <1>4, <1>6, ThrewStep DEF FailMarker, Marking
<1>7. QED BY <1>2, <1>3, <1>5, <1>6

(* A read that goes on: p moves between the places where it has no ticket. *)
LEMMA ReadingStep ==
  ASSUME IInv, NEW p \in Proc, Acquire(p) \/ FailBeforeTicket(p) \/ ReadTickets(p) \/ RetryTicket(p)
  PROVE  IInv'
<1> USE DEF Acquire, FailBeforeTicket, ReadTickets, RetryTicket, markers, attempt, marking
<1>1. TypeOK'
  <2>1. latest' = latest \/ latest' = [latest EXCEPT ![p] = Len(queue)]
    OBVIOUS
  <2>2. /\ UNCHANGED <<status, queue, created, complete, my, scan, target, then, held, registered>>
        /\ \E c \in {"idle", "readTickets", "link"} : pc' = [pc EXCEPT ![p] = c]
    OBVIOUS
  <2> HIDE DEF Acquire, FailBeforeTicket, ReadTickets, RetryTicket
  <2>3. queue \in Seq(Proc) /\ latest \in [Proc -> Nat]
    BY DEF IInv, TypeOK
  <2>4. latest' \in [Proc -> Nat]
    BY <2>1, <2>3
  <2>5. QED BY ZenonT(60), <2>2, <2>4 DEF IInv, TypeOK
<1>2. \A q \in Proc \ {p} : Untouched(q)
  BY DEF IInv, TypeOK, Untouched
<1>3. Coherent(p)'
  <2>1. Coherent(p)
    BY DEF IInv
  <2>2. pc'[p] \in {"idle", "readTickets", "link"} /\ Live(p)
    BY DEF IInv, TypeOK
  <2>3. UNCHANGED <<status, queue, created, complete, my, held, registered>>
    OBVIOUS
  <2>4. Forgotten(p)' /\ OwnTickets(p)' /\ HoldsFirst(p)'
    BY <2>1, <2>2, <2>3 DEF Coherent, Forgotten, OwnTickets, OwnTicket, HoldsFirst, Live
  <2>5. TargetUnheld(p)' /\ AttemptUnmarked(p)' /\ ScannedComplete(p)'
    BY <2>2 DEF TargetUnheld, AttemptUnmarked, ScannedComplete, Attempting, Scanning, Marking
  <2>6. QED BY <2>4, <2>5 DEF Coherent
<1>4. QED BY <1>1, <1>2, <1>3, MemoryStep DEF IInv, TypeOK

(* A look at a predecessor that is finished, or not marked yet. *)
LEMMA LookStep ==
  ASSUME IInv, NEW p \in Proc, SkipDone(p) \/ MeetUndone(p)
  PROVE  IInv'
<1> USE DEF SkipDone, MeetUndone, markers, attempt, marking
<1>1. TypeOK'
  <2>1. scan' = scan \/ scan' = [scan EXCEPT ![p] = scan[p] + 1]
    OBVIOUS
  <2>2. /\ UNCHANGED <<status, queue, created, complete, latest, my, target, then, held, registered>>
        /\ pc' = pc \/ pc' = [pc EXCEPT ![p] = "judge"]
    OBVIOUS
  <2> HIDE DEF SkipDone, MeetUndone
  <2>3. scan \in [Proc -> Nat]
    BY DEF IInv, TypeOK
  <2>4. scan' \in [Proc -> Nat]
    BY <2>1, <2>3
  <2>5. QED BY <2>2, <2>4 DEF IInv, TypeOK
<1>2. \A q \in Proc \ {p} : Untouched(q)
  BY DEF IInv, TypeOK, Untouched
<1>3. Coherent(p)'
  <2>1. Coherent(p) /\ scan[p] \in Nat /\ my[p] \in Nat
    BY DEF IInv, TypeOK
  <2>2. /\ pc[p] = "scan" /\ scan[p] < my[p] /\ Live(p)
        /\ UNCHANGED <<status, queue, created, complete, my, held, registered>>
    OBVIOUS
  <2>3. \/ pc'[p] = "scan" /\ scan'[p] = scan[p] + 1 /\ scan[p] \in complete
        \/ pc'[p] = "judge" /\ scan'[p] = scan[p]
    BY DEF IInv, TypeOK
  <2>4. Forgotten(p)' /\ OwnTickets(p)' /\ HoldsFirst(p)'
    BY <2>1, <2>2 DEF Coherent, Forgotten, OwnTickets, OwnTicket, HoldsFirst, Live
  <2>5. TargetUnheld(p)'
    BY <2>3 DEF TargetUnheld, Marking
  <2>6. AttemptUnmarked(p)'
    BY <2>1, <2>2 DEF Coherent, AttemptUnmarked, Attempting, Scanning
  <2>7. ScannedComplete(p)'
    BY <2>1, <2>2, <2>3 DEF Coherent, ScannedComplete, Scanning
  <2>8. QED BY <2>4, <2>5, <2>6, <2>7 DEF Coherent
<1>4. QED BY <1>1, <1>2, <1>3, MemoryStep DEF IInv, TypeOK

(* The inspection starts with p's own ticket, or gives up. *)
LEMMA InspectStep ==
  ASSUME IInv, NEW p \in Proc,
         InspectOwn(p) \/ MeetPartial(p) \/ FindBusy(p) \/ FailInspection(p)
  PROVE  IInv'
<1> USE DEF markers, attempt, marking
<1>1. complete \subseteq created
  BY DEF IInv, TypeOK
<1>2. CASE MeetPartial(p) \/ FindBusy(p) \/ FailInspection(p)
  BY <1>1, <1>2, AbandonStep DEF MeetPartial, FindBusy, FailInspection, Attempting, Scanning
<1>3. CASE InspectOwn(p) /\ my[p] \in created
  BY <1>1, <1>3, AbandonStep DEF InspectOwn, Attempting
<1>4. CASE InspectOwn(p) /\ my[p] \notin created
  <2> USE <1>4 DEF InspectOwn
  <2>1. TypeOK'
    <3>1. /\ UNCHANGED <<status, queue, created, complete, latest, my, target, then, held, registered>>
          /\ pc' = [pc EXCEPT ![p] = "scan"] /\ scan' = [scan EXCEPT ![p] = 1]
      OBVIOUS
    <3>2. scan' \in [Proc -> Nat]
      BY <3>1 DEF IInv, TypeOK
    <3> HIDE <1>4 DEF InspectOwn
    <3>3. QED BY <3>1, <3>2 DEF IInv, TypeOK
  <2>2. \A q \in Proc \ {p} : Untouched(q)
    BY DEF IInv, TypeOK, Untouched
  <2>3. Coherent(p)'
    <3>1. Coherent(p) /\ my[p] \in Nat
      BY DEF IInv, TypeOK
    <3>2. /\ pc[p] = "inspect" /\ pc'[p] = "scan" /\ scan'[p] = 1 /\ Live(p)
          /\ UNCHANGED <<status, queue, created, complete, my, held, registered>>
      BY DEF IInv, TypeOK
    <3>3. Forgotten(p)' /\ OwnTickets(p)' /\ HoldsFirst(p)'
      BY <3>1, <3>2 DEF Coherent, Forgotten, OwnTickets, OwnTicket, HoldsFirst, Live
    <3>4. TargetUnheld(p)' /\ AttemptUnmarked(p)'
      BY <3>1, <3>2 DEF Coherent, TargetUnheld, AttemptUnmarked, Attempting, Scanning, Marking
    <3>5. ScannedComplete(p)'
      BY <3>1, <3>2 DEF Coherent, AttemptUnmarked, ScannedComplete, Attempting
    <3>6. QED BY <3>3, <3>4, <3>5 DEF Coherent
  <2>4. QED BY <2>1, <2>2, <2>3, MemoryStep DEF IInv, TypeOK
<1>5. QED BY <1>2, <1>3, <1>4

(* A predecessor judged not live is dead: a live one would run under its   *)
(* pid, which is either p's own, and p is live, or in use.                 *)
LEMMA ReclaimStep == ASSUME IInv, NEW p \in Proc, Reclaim(p) PROVE IInv'
<1> USE DEF Reclaim, MarkNext, markers, attempt
<1>1. TypeOK'
  BY DEF IInv, TypeOK
<1>2. \A q \in Proc \ {p} : Untouched(q)
  BY DEF IInv, TypeOK, Untouched
<1>3. Coherent(p)'
  <2>1. Coherent(p) /\ scan[p] \in Nat /\ my[p] \in Nat /\ Len(queue) \in Nat
    BY DEF IInv, TypeOK
  <2>2. /\ pc[p] = "judge" /\ Live(p)
        /\ UNCHANGED <<status, queue, created, complete, my, scan, held, registered>>
    OBVIOUS
  <2>3. pc'[p] = "open" /\ target'[p] = scan[p] /\ then'[p] = "scan"
    BY DEF IInv, TypeOK
  <2>4. my[p] \in 1..Len(queue) /\ scan[p] \in 1..my[p] /\ scan[p] < my[p]
    BY <2>1, <2>2 DEF Coherent, AttemptUnmarked, ScannedComplete, OwnTickets, OwnTicket,
                      Attempting, Scanning
  <2>5. status[queue[scan[p]]] = "dead"
    <3>1. scan[p] \in 1..Len(queue)
      BY <2>1, <2>4
    <3>2. queue[scan[p]] \in Proc /\ status[queue[scan[p]]] \in {"unborn", "live", "dead"}
      <4>1. queue \in Seq(Proc) /\ status \in [Proc -> {"unborn", "live", "dead"}]
        BY DEF IInv, TypeOK
      <4> HIDE DEF Reclaim
      <4>2. QED BY <3>1, <4>1
    <3>3. status[queue[scan[p]]] # "unborn"
      BY <3>1 DEF IInv, OwnersStarted
    <3>4. ~Live(queue[scan[p]])
      BY <2>2, <3>2 DEF IInv, PidsDistinct, processIsLive, PidInUse
    <3>5. QED BY <3>2, <3>3, <3>4 DEF Live
  <2>6. Forgotten(p)' /\ OwnTickets(p)' /\ HoldsFirst(p)'
    BY <2>1, <2>2 DEF Coherent, Forgotten, OwnTickets, OwnTicket, HoldsFirst, Live
  <2>7. TargetUnheld(p)'
    BY <2>1, <2>2, <2>3, <2>4, <2>5 DEF TargetUnheld, Marking
  <2>8. AttemptUnmarked(p)'
    BY <2>1, <2>2 DEF Coherent, AttemptUnmarked, Attempting, Scanning
  <2>9. ScannedComplete(p)'
    BY <2>1, <2>2, <2>3 DEF Coherent, ScannedComplete, Scanning
  <2>10. QED BY <2>6, <2>7, <2>8, <2>9 DEF Coherent
<1>4. QED BY <1>1, <1>2, <1>3, MemoryStep DEF IInv, TypeOK

(* The winner's ticket is unmarked, and it has gone past all the others. *)
LEMMA WinStep == ASSUME IInv, NEW p \in Proc, Win(p) PROVE IInv'
<1> USE DEF Win, markers, marking
<1>1. TypeOK'
  BY DEF IInv, TypeOK
<1>2. \A q \in Proc \ {p} : Untouched(q)
  BY DEF IInv, TypeOK, Untouched
<1>3. Coherent(p)'
  <2>1. Coherent(p)
    BY DEF IInv
  <2>2. /\ pc[p] = "scan" /\ scan[p] = my[p] /\ Live(p)
        /\ UNCHANGED <<status, queue, created, complete>>
    OBVIOUS
  <2>3. /\ pc'[p] = "idle" /\ held'[p] = my[p] /\ my'[p] = 0 /\ registered'[p] \in {0, my[p]}
    BY DEF IInv, TypeOK
  <2>4. HoldsFirst(p)'
    BY <2>1, <2>2, <2>3 DEF Coherent, AttemptUnmarked, ScannedComplete, HoldsFirst, Attempting, Scanning
  <2>5. Forgotten(p)' /\ OwnTickets(p)'
    BY <2>1, <2>2, <2>3 DEF Coherent, Forgotten, OwnTickets, OwnTicket, Live
  <2>6. TargetUnheld(p)' /\ AttemptUnmarked(p)' /\ ScannedComplete(p)'
    BY <2>3 DEF TargetUnheld, AttemptUnmarked, ScannedComplete, Attempting, Scanning, Marking
  <2>7. QED BY <2>4, <2>5, <2>6 DEF Coherent
<1>4. QED BY <1>1, <1>2, <1>3, MemoryStep DEF IInv, TypeOK

(* Leaving the critical section: the ticket is p's, and no longer held. *)
LEMMA LeaveStep ==
  ASSUME IInv, NEW p \in Proc, Live(p), pc[p] = "idle",
         NEW t \in {held[p], registered[p]} \ {0}, NEW w \in {"release", "exit"}, MarkNext(p, t, w),
         held' = [held EXCEPT ![p] = 0],
         UNCHANGED <<status, queue, created, complete, latest, my, scan, registered>>
  PROVE  IInv'
<1> USE DEF MarkNext
<1>1. t \in Nat
  BY DEF IInv, TypeOK
<1>2. TypeOK'
  BY <1>1 DEF IInv, TypeOK
<1>3. \A q \in Proc \ {p} : Untouched(q)
  BY DEF IInv, TypeOK, Untouched
<1>4. Coherent(p)'
  <2>1. Coherent(p)
    BY DEF IInv
  <2>2. pc'[p] = "open" /\ target'[p] = t /\ then'[p] = w /\ held'[p] = 0
    BY DEF IInv, TypeOK
  <2>3. t \in 1..Len(queue) /\ queue[t] = p
    BY <2>1 DEF Coherent, OwnTickets, OwnTicket
  <2>4. Forgotten(p)' /\ OwnTickets(p)' /\ HoldsFirst(p)'
    BY <2>1, <2>2 DEF Coherent, Forgotten, OwnTickets, OwnTicket, HoldsFirst, Live
  <2>5. TargetUnheld(p)'
    BY <2>2, <2>3 DEF TargetUnheld
  <2>6. AttemptUnmarked(p)' /\ ScannedComplete(p)'
    BY <2>2 DEF AttemptUnmarked, ScannedComplete, Attempting, Scanning, Marking
  <2>7. QED BY <2>4, <2>5, <2>6 DEF Coherent
<1>5. QED BY <1>2, <1>3, <1>4, MemoryStep DEF IInv, TypeOK

(* Every step of the specification preserves the invariant. *)
LEMMA NextIInv == IInv /\ [Next]_vars => IInv'
<1> SUFFICES ASSUME IInv, [Next]_vars PROVE IInv'
  OBVIOUS
<1>1. CASE UNCHANGED vars
  <2>1. UNCHANGED <<status, queue, created, complete, pc, latest, my, scan, target, then, held, registered>>
    BY <1>1 DEF vars, attempt, marking
  <2>2. TypeOK' /\ PidsDistinct' /\ OwnersStarted'
    BY <2>1 DEF IInv, TypeOK, PidsDistinct, OwnersStarted, Live
  <2>3. FilesGrow
    BY <2>1 DEF IInv, TypeOK, FilesGrow
  <2>4. ASSUME NEW q \in Proc PROVE Coherent(q)'
    <3>1. Untouched(q) /\ Spared(q)
      BY <2>1 DEF Untouched, Spared
    <3>2. QED BY <2>3, <3>1, OthersCoherent DEF IInv
  <2>5. QED BY <2>2, <2>4 DEF IInv
<1>2. ASSUME NEW p \in Proc, Start(p) \/ Kill(p) \/ Call(p) \/ Step(p) \/ Fault(p)
      PROVE  IInv'
  <2>1. complete \subseteq created
    BY DEF IInv, TypeOK
  <2>2. CASE Start(p)
    BY <2>2, StartStep
  <2>3. CASE Kill(p)
    BY <2>1, <2>3, VanishStep DEF Kill, markers
  <2>4. CASE Release(p)
    BY <2>4, LeaveStep DEF Release, markers, attempt
  <2>5. CASE Exit(p)
    <3>1. CASE registered[p] # 0
      BY <2>5, <3>1, LeaveStep DEF Exit, markers, attempt
    <3>2. CASE registered[p] = 0
      BY <2>1, <2>5, <3>2, VanishStep DEF Exit, markers
    <3>3. QED BY <3>1, <3>2
  <2>6. CASE Acquire(p) \/ FailBeforeTicket(p) \/ ReadTickets(p) \/ RetryTicket(p)
    BY <2>6, ReadingStep
  <2>7. CASE LinkTicket(p) \/ LinkUnsynced(p)
    BY <2>7, LinkStep
  <2>8. CASE OpenMarker(p)
    BY <2>8, OpenStep
  <2>9. CASE FindMarker(p) \/ WriteMarker(p) \/ RejectMarker(p) \/ FailToMark(p) \/ FailMarker(p)
    BY <2>9, MarkingStep
  <2>10. CASE InspectOwn(p) \/ MeetPartial(p) \/ FindBusy(p) \/ FailInspection(p)
    BY <2>10, InspectStep
  <2>11. CASE SkipDone(p) \/ MeetUndone(p)
    BY <2>11, LookStep
  <2>12. CASE Reclaim(p)
    BY <2>12, ReclaimStep
  <2>13. CASE Win(p)
    BY <2>13, WinStep
  <2>14. QED BY <1>2, <2>2, <2>3, <2>4, <2>5, <2>6, <2>7, <2>8, <2>9, <2>10, <2>11, <2>12, <2>13
                DEF Call, Step, Fault
<1>3. QED BY <1>1, <1>2 DEF Next

(* The inductive invariant holds in every reachable state. *)
THEOREM LockInvariant == Spec => []IInv
<1>1. QED BY InitIInv, NextIInv, PTL DEF Spec

(* The variables keep their types: every ticket a process works on is a    *)
(* number, and every marker belongs to a linked ticket.                    *)
THEOREM LockTypes == Spec => []TypeOK
<1>1. IInv => TypeOK
  BY DEF IInv
<1>2. QED BY LockInvariant, <1>1, PTL

(* Two live processes never hold the lock together, for any number of      *)
(* processes and tickets, whatever dies, restarts under a recycled pid or  *)
(* fails to write (acquireInterprocessLock and its release).               *)
THEOREM LockExcludes == Spec => []MutualExclusion
<1>1. QED BY LockInvariant, IInvExcludes, PTL

-----------------------------------------------------------------------------
(* Whom an attempt loses to.                                               *)

\* An attempt of p that was not marking anything marks its own ticket.
GivesUp(p) == ~Marking(p) /\ Marking(p)' /\ then'[p] = "abandon"

(* Only three steps give an attempt up, and the invariant excludes one of  *)
(* them: nobody marks the ticket of an attempt, so it never finds its own  *)
(* ticket done.  The other two look at an earlier ticket.                  *)
LEMMA GivesUpToEarlier ==
  ASSUME IInv, NEW p \in Proc, Step(p), GivesUp(p)
  PROVE  \E t \in 1..(my[p] - 1) :
           t \notin complete \/ (pc[p] = "judge" /\ t = scan[p] /\ PidInUse(PidOf[queue[t]]))
<1> USE DEF IInv
<1>1. MeetPartial(p) \/ FindBusy(p)
  <2>1. ~(OpenMarker(p) \/ FindMarker(p) \/ RejectMarker(p) \/ WriteMarker(p))
    BY DEF GivesUp, Marking, OpenMarker, FindMarker, RejectMarker, WriteMarker
  <2>2. ~(ReadTickets(p) \/ LinkTicket(p) \/ RetryTicket(p) \/ SkipDone(p) \/ MeetUndone(p) \/ Win(p))
    BY DEF GivesUp, Marking, ReadTickets, LinkTicket, RetryTicket, SkipDone, MeetUndone, Win, TypeOK
  <2>3. ~InspectOwn(p)
    <3>1. pc[p] = "inspect" => my[p] \notin created
      BY DEF Coherent, AttemptUnmarked, Attempting
    <3>2. InspectOwn(p) => pc'[p] = "scan"
      BY <3>1 DEF InspectOwn, TypeOK
    <3>3. QED BY <3>2 DEF GivesUp, Marking
  <2>4. ~Reclaim(p)
    BY DEF GivesUp, Reclaim, MarkNext, TypeOK
  <2>5. QED BY <2>1, <2>2, <2>3, <2>4 DEF Step
<1>2. Scanning(p) /\ scan[p] < my[p]
  BY <1>1 DEF MeetPartial, FindBusy, Scanning, Coherent, ScannedComplete
<1>3. scan[p] \in 1..(my[p] - 1)
  BY <1>2 DEF TypeOK, Coherent, ScannedComplete
<1>4. CASE MeetPartial(p)
  BY <1>3, <1>4 DEF MeetPartial, partial
<1>5. CASE FindBusy(p)
  BY <1>3, <1>5 DEF FindBusy, processIsLive
<1>6. QED BY <1>1, <1>4, <1>5

(* Unless the filesystem fails it, an attempt gives up only for an earlier *)
(* ticket: one that is unfinished, or whose owner's pid is in use by the   *)
(* time it is judged (inspectPredecessors and its callers).                *)
THEOREM LockLosesToEarlier == Spec => LosesOnlyToEarlier
<1>1. IInv /\ [Next]_vars
        => [\A p \in Proc :
              Step(p) /\ ~Marking(p) /\ Marking(p)' /\ then'[p] = "abandon"
                => \E t \in 1..(my[p] - 1) :
                      \/ t \notin complete
                      \/ pc[p] = "judge" /\ t = scan[p] /\ PidInUse(PidOf[queue[t]])]_vars
  BY GivesUpToEarlier DEF GivesUp
<1>2. QED BY LockInvariant, <1>1, PTL DEF Spec, LosesOnlyToEarlier
=============================================================================
